------------------------------ MODULE TLSProofs ------------------------------
(***************************************************************************)
(* CertStore, LocalTLS and LANTLS, for any number of setups, authorities,  *)
(* hours, faults, connections, routes, host names and devices.             *)
(*                                                                         *)
(* The setup that holds the lock is the only one that writes, so that what *)
(* it has written is still there when it writes the next file; and the     *)
(* authority it writes, new or kept, lasts longer than RenewBefore, which  *)
(* is longer than the time looked at.  On this rests what the router       *)
(* shows to clients of its own machine, and to devices on the network.     *)
(***************************************************************************)
EXTENDS LocalTLS, LANTLS, SequenceTheorems, FiniteSetTheorems, TLAPS

Writing == {"cert", "key", "print"}
AtWork(s) == setup[s].step \in Writing

\* The authority a setup is about to write, or has written in part.
Lasts(ca) == ca \in CAs /\ ends[ca] > MaxTime

Progress(s) ==
    /\ AtWork(s) <=> holder = s
    /\ AtWork(s) => Lasts(setup[s].ca)
    /\ setup[s].step \in {"key", "print"} => files.cert = setup[s].ca
    /\ setup[s].step = "print" => files.key = setup[s].ca
    /\ setup[s].step = "trust" => files.cert \in CAs

CertInv == CertTypeOK /\ \A s \in Setups : Progress(s)

-----------------------------------------------------------------------------
\* Both ends of the bounds, as arithmetic needs them.
LEMMA Bounds == /\ MaxTime \in Nat /\ RenewBefore \in Nat /\ CALife \in Nat /\ MaxCA \in Nat /\ MaxFaults \in Nat
                /\ CALife > RenewBefore /\ RenewBefore >= MaxTime
BY CertAssumption

LEMMA InitCertInv == CertInit => CertInv
<1> SUFFICES ASSUME CertInit PROVE CertInv
  OBVIOUS
<1>1. made \in 0 .. 1 /\ made \in 0 .. MaxCA
  BY CertAssumption DEF CertInit
<1>2. ends \in [CAs -> 0 .. MaxTime + CALife]
  BY Bounds DEF CertInit, CAs
<1>3. files \in [cert : CAs \cup {NoCA}, key : CAs \cup {NoCA}, print : CAs \cup {NoCA}]
  BY <1>1, Bounds DEF CertInit, CAs, NoCA
<1>4. trusted \subseteq CAs
  BY <1>1, Bounds DEF CertInit, CAs
<1>5. setup \in [Setups -> [step : Steps, ca : CAs \cup {NoCA}]]
  BY DEF CertInit, Steps
<1>6. CertTypeOK
  BY <1>1, <1>2, <1>3, <1>4, <1>5, Bounds DEF CertInit, CertTypeOK
<1>7. \A s \in Setups : Progress(s)
  BY NobodyAssumption DEF CertInit, Progress, AtWork, Writing
<1> QED BY <1>6, <1>7 DEF CertInv

-----------------------------------------------------------------------------
(* The steps of one setup *)

\* The setup that takes the lock finds nobody at work.
LEMMA LockProgress ==
  ASSUME NEW s \in Setups, CertInv, Lock(s)
  PROVE  CertInv'
<1>1. \A t \in Setups : ~AtWork(t)
  BY NobodyAssumption DEF CertInv, Progress, Lock
<1>2. CASE Keeps /\ UNCHANGED <<made, ends>>
           /\ setup' = [setup EXCEPT ![s] = [step |-> "print", ca |-> files.cert]]
  <2>1. files.cert \in CAs /\ files.key = files.cert
    BY <1>2 DEF Keeps, ValidCA, CertInv, CertTypeOK
  <2>2. ends[files.cert] \in 0 .. MaxTime + CALife /\ now \in 0 .. MaxTime
    BY <2>1 DEF CertInv, CertTypeOK
  <2>3. ends[files.cert] > MaxTime
    BY <1>2, <2>2, Bounds DEF Keeps
  <2>4. setup' \in [Setups -> [step : Steps, ca : CAs \cup {NoCA}]]
    BY <1>2, <2>1 DEF CertInv, CertTypeOK, Steps
  <2>5. CertTypeOK'
    BY <1>2, <2>4 DEF CertInv, CertTypeOK, Lock
  <2>6. setup'[s] = [step |-> "print", ca |-> files.cert]
        /\ \A t \in Setups \ {s} : setup'[t] = setup[t]
    BY <1>2 DEF CertInv, CertTypeOK
  <2>7. Progress(s)'
    BY <1>2, <2>1, <2>3, <2>6 DEF Progress, AtWork, Writing, Lasts, Lock
  <2>8. \A t \in Setups \ {s} : Progress(t)'
    BY <1>1, <2>6 DEF CertInv, Progress, AtWork, Writing, Lock
  <2> QED BY <2>5, <2>7, <2>8 DEF CertInv
<1>3. CASE /\ ~Keeps /\ made < MaxCA /\ made' = made + 1
           /\ ends' = [ends EXCEPT ![made + 1] = now + CALife]
           /\ setup' = [setup EXCEPT ![s] = [step |-> "cert", ca |-> made + 1]]
  <2>1. made \in 0 .. MaxCA /\ now \in 0 .. MaxTime
    BY DEF CertInv, CertTypeOK
  <2>2. made + 1 \in CAs /\ made' \in 0 .. MaxCA
    BY <1>3, <2>1, Bounds DEF CAs
  <2>3. now + CALife \in 0 .. MaxTime + CALife /\ now + CALife > MaxTime
    BY <2>1, Bounds
  <2>4. ends' \in [CAs -> 0 .. MaxTime + CALife] /\ ends'[made + 1] > MaxTime
    BY <1>3, <2>2, <2>3 DEF CertInv, CertTypeOK
  <2>5. setup' \in [Setups -> [step : Steps, ca : CAs \cup {NoCA}]]
    BY <1>3, <2>2 DEF CertInv, CertTypeOK, Steps
  <2>6. CertTypeOK'
    BY <2>2, <2>4, <2>5 DEF CertInv, CertTypeOK, Lock
  <2>7. setup'[s] = [step |-> "cert", ca |-> made + 1]
        /\ \A t \in Setups \ {s} : setup'[t] = setup[t]
    BY <1>3 DEF CertInv, CertTypeOK
  <2>8. Progress(s)'
    BY <2>2, <2>4, <2>7 DEF Progress, AtWork, Writing, Lasts, Lock, CAs
  <2>9. \A t \in Setups \ {s} : Progress(t)'
    BY <1>1, <2>7 DEF CertInv, Progress, AtWork, Writing, Lock
  <2> QED BY <2>6, <2>8, <2>9 DEF CertInv
<1> QED BY <1>2, <1>3 DEF Lock

\* A setup that writes is the only one at work.
LEMMA Alone ==
  ASSUME NEW s \in Setups, CertInv, AtWork(s)
  PROVE  /\ holder = s
         /\ Lasts(setup[s].ca)
         /\ \A t \in Setups \ {s} : ~AtWork(t)
BY DEF CertInv, Progress

\* A setup goes to another step and writes what it writes.
LEMMA StepTyped ==
  ASSUME NEW s \in Setups, NEW step \in Steps, CertInv, Moves(s, step)
  PROVE  /\ setup' \in [Setups -> [step : Steps, ca : CAs \cup {NoCA}]]
         /\ setup'[s].step = step /\ setup'[s].ca = setup[s].ca
         /\ \A t \in Setups \ {s} : setup'[t] = setup[t]
BY DEF CertInv, CertTypeOK, Moves

LEMMA WriteProgress ==
  ASSUME NEW s \in Setups, CertInv, WriteCert(s) \/ WriteKey(s) \/ WritePrint(s)
  PROVE  CertInv'
<1>1. AtWork(s)
  BY DEF WriteCert, WriteKey, WritePrint, AtWork, Writing
<1>2. holder = s /\ Lasts(setup[s].ca) /\ \A t \in Setups \ {s} : ~AtWork(t)
  BY <1>1, Alone
<1>3. /\ files' \in [cert : CAs \cup {NoCA}, key : CAs \cup {NoCA}, print : CAs \cup {NoCA}]
      /\ files.cert \in CAs => files'.cert \in CAs
  BY <1>2 DEF CertInv, CertTypeOK, WriteCert, WriteKey, WritePrint, Lasts
<1>4. CASE WriteCert(s)
  <2>1. Moves(s, "key") /\ setup[s].step = "cert"
    BY <1>4 DEF WriteCert
  <2>2. /\ setup' \in [Setups -> [step : Steps, ca : CAs \cup {NoCA}]]
        /\ setup'[s].step = "key" /\ setup'[s].ca = setup[s].ca
        /\ \A t \in Setups \ {s} : setup'[t] = setup[t]
    BY <2>1, StepTyped DEF Steps
  <2>3. CertTypeOK'
    BY <1>3, <1>4, <2>2 DEF CertInv, CertTypeOK, WriteCert
  <2>4. files'.cert = setup[s].ca
    BY <1>4 DEF WriteCert, CertInv, CertTypeOK
  <2>5. Progress(s)'
    BY <1>2, <1>4, <2>2, <2>4 DEF Progress, AtWork, Writing, Lasts, WriteCert
  <2>6. \A t \in Setups \ {s} : Progress(t)'
    BY <1>2, <1>3, <1>4, <2>2 DEF CertInv, Progress, AtWork, Writing, WriteCert
  <2> QED BY <2>3, <2>5, <2>6 DEF CertInv
<1>5. CASE WriteKey(s)
  <2>1. Moves(s, "print") /\ setup[s].step = "key"
    BY <1>5 DEF WriteKey
  <2>2. /\ setup' \in [Setups -> [step : Steps, ca : CAs \cup {NoCA}]]
        /\ setup'[s].step = "print" /\ setup'[s].ca = setup[s].ca
        /\ \A t \in Setups \ {s} : setup'[t] = setup[t]
    BY <2>1, StepTyped DEF Steps
  <2>3. CertTypeOK'
    BY <1>3, <1>5, <2>2 DEF CertInv, CertTypeOK, WriteKey
  <2>4. files'.key = setup[s].ca /\ files'.cert = setup[s].ca
    BY <1>5, <2>1 DEF WriteKey, CertInv, CertTypeOK, Progress
  <2>5. Progress(s)'
    BY <1>2, <1>5, <2>2, <2>4 DEF Progress, AtWork, Writing, Lasts, WriteKey
  <2>6. \A t \in Setups \ {s} : Progress(t)'
    BY <1>2, <1>3, <1>5, <2>2 DEF CertInv, Progress, AtWork, Writing, WriteKey
  <2> QED BY <2>3, <2>5, <2>6 DEF CertInv
<1>6. CASE WritePrint(s)
  <2>1. Moves(s, "trust")
    BY <1>6 DEF WritePrint
  <2>2. /\ setup' \in [Setups -> [step : Steps, ca : CAs \cup {NoCA}]]
        /\ setup'[s].step = "trust"
        /\ \A t \in Setups \ {s} : setup'[t] = setup[t]
    BY <2>1, StepTyped DEF Steps
  <2>3. CertTypeOK'
    BY <1>3, <1>6, <2>2 DEF CertInv, CertTypeOK, WritePrint
  <2>4. files'.cert \in CAs
    BY <1>2, <1>3, <1>6 DEF CertInv, Progress, WritePrint, Lasts
  <2>5. Progress(s)'
    BY <1>6, <2>2, <2>4, NobodyAssumption DEF Progress, AtWork, Writing, WritePrint
  <2>6. \A t \in Setups \ {s} : Progress(t)'
    BY <1>2, <1>3, <1>6, <2>2, NobodyAssumption DEF CertInv, Progress, AtWork, Writing, WritePrint
  <2> QED BY <2>3, <2>5, <2>6 DEF CertInv
<1> QED BY <1>4, <1>5, <1>6

\* A setup that fails gives the lock back, whatever it leaves in the files.
LEMMA FailureProgress ==
  ASSUME NEW s \in Setups, CertInv, WriteFails(s)
  PROVE  CertInv'
<1>1. AtWork(s)
  BY DEF WriteFails, AtWork, Writing
<1>2. Lasts(setup[s].ca) /\ \A t \in Setups \ {s} : ~AtWork(t)
  BY <1>1, Alone
<1>3. /\ files' \in [cert : CAs \cup {NoCA}, key : CAs \cup {NoCA}, print : CAs \cup {NoCA}]
      /\ files.cert \in CAs => files'.cert \in CAs
  BY <1>2 DEF CertInv, CertTypeOK, WriteFails, Lasts
<1>4. /\ setup' \in [Setups -> [step : Steps, ca : CAs \cup {NoCA}]]
      /\ setup'[s].step = "failed"
      /\ \A t \in Setups \ {s} : setup'[t] = setup[t]
  BY StepTyped DEF Steps, WriteFails
<1>5. faults' \in 0 .. MaxFaults
  BY Bounds DEF CertInv, CertTypeOK, WriteFails
<1>6. CertTypeOK'
  BY <1>3, <1>4, <1>5 DEF CertInv, CertTypeOK, WriteFails
<1>7. Progress(s)'
  BY <1>4, NobodyAssumption DEF Progress, AtWork, Writing, WriteFails
<1>8. \A t \in Setups \ {s} : Progress(t)'
  BY <1>2, <1>3, <1>4, NobodyAssumption DEF CertInv, Progress, AtWork, Writing, WriteFails
<1> QED BY <1>6, <1>7, <1>8 DEF CertInv

\* Without the lock nothing is written.
LEMMA OutsideProgress ==
  ASSUME NEW s \in Setups, CertInv, LockTimesOut(s) \/ Trust(s) \/ TrustFails(s)
  PROVE  CertInv'
<1>1. ~AtWork(s) /\ holder # s
  BY DEF CertInv, Progress, AtWork, Writing, LockTimesOut, Trust, TrustFails
<1>2. /\ setup' \in [Setups -> [step : Steps, ca : CAs \cup {NoCA}]]
      /\ setup'[s].step \in {"done", "failed"}
      /\ \A t \in Setups \ {s} : setup'[t] = setup[t]
  BY StepTyped DEF Steps, LockTimesOut, Trust, TrustFails
<1>3. faults' \in 0 .. MaxFaults
  BY Bounds DEF CertInv, CertTypeOK, LockTimesOut, Trust, TrustFails
<1>4. UNCHANGED <<files, ends, holder, made, now>>
  BY DEF LockTimesOut, Trust, TrustFails
<1>5. trusted' \subseteq CAs
  BY DEF CertInv, CertTypeOK, Progress, LockTimesOut, Trust, TrustFails
<1>6. CertTypeOK'
  BY <1>2, <1>3, <1>4, <1>5 DEF CertInv, CertTypeOK
<1>7. Progress(s)'
  BY <1>1, <1>2, <1>4 DEF Progress, AtWork, Writing
<1>8. \A t \in Setups \ {s} : Progress(t)'
  BY <1>2, <1>4 DEF CertInv, Progress, AtWork, Writing, Lasts
<1> QED BY <1>6, <1>7, <1>8 DEF CertInv

LEMMA TickProgress ==
  ASSUME CertInv, CertTick
  PROVE  CertInv'
<1>1. now' \in 0 .. MaxTime
  BY Bounds DEF CertInv, CertTypeOK, CertTick
<1>2. CertTypeOK'
  BY <1>1 DEF CertInv, CertTypeOK, CertTick
<1>3. \A s \in Setups : Progress(s)'
  BY DEF CertInv, Progress, AtWork, Lasts, CertTick
<1> QED BY <1>2, <1>3 DEF CertInv

LEMMA StepCertInv == CertInv /\ [CertNext]_certVars => CertInv'
<1> SUFFICES ASSUME CertInv, [CertNext]_certVars PROVE CertInv'
  OBVIOUS
<1>1. CASE CertTick
  BY <1>1, TickProgress
<1>2. ASSUME NEW s \in Setups, SetupStep(s) PROVE CertInv'
  BY <1>2, LockProgress, WriteProgress, FailureProgress, OutsideProgress DEF SetupStep
<1>3. CASE UNCHANGED certVars
  BY <1>3 DEF certVars, CertInv, CertTypeOK, Progress, AtWork, Lasts
<1> QED BY <1>1, <1>2, <1>3 DEF CertNext

-----------------------------------------------------------------------------
\* One setup writes at a time, and its files are as it left them.
THEOREM CertInvHolds == CertSpec => []CertInv
BY InitCertInv, StepCertInv, PTL DEF CertSpec

\* The variables of the store keep their types.
THEOREM CertTypeCorrect == CertSpec => []CertTypeOK
<1>1. CertInv => CertTypeOK
  BY DEF CertInv
<1> QED BY <1>1, CertInvHolds, PTL

\* EnsureCA repairs whatever it finds: the authority it returns is the one that
\* LoadCA returns, however many setups there are, and wherever others failed.
THEOREM Repairs == CertSpec => SetupRepairs
<1> DEFINE Returns(s) == setup[s].step # "trust" /\ setup'[s].step = "trust"
           Repaired(s) == Loadable' /\ files'.cert = setup'[s].ca
           AllRepaired == \A s \in Setups : Returns(s) => Repaired(s)
<1>1. ASSUME CertInv, [CertNext]_certVars PROVE [AllRepaired]_certVars
  <2> SUFFICES ASSUME NEW s \in Setups, Returns(s) PROVE Repaired(s)
    OBVIOUS
  <2>1. PICK t \in Setups : SetupStep(t)
    BY <1>1 DEF CertNext, CertTick, certVars
  <2>2. t = s
    BY <1>1, <2>1 DEF CertInv, CertTypeOK, SetupStep, Moves, Lock, LockTimesOut, WriteCert,
                      WriteKey, WritePrint, WriteFails, Trust, TrustFails
  <2>3. WritePrint(s)
    BY <1>1, <2>1, <2>2 DEF CertInv, CertTypeOK, SetupStep, Moves, Lock, LockTimesOut, WriteCert,
                            WriteKey, WriteFails, Trust, TrustFails
  <2>4. AtWork(s) /\ files.cert = setup[s].ca /\ files.key = setup[s].ca
    BY <1>1, <2>3 DEF CertInv, Progress, AtWork, Writing, WritePrint
  <2>5. Lasts(setup[s].ca)
    BY <1>1, <2>4, Alone
  <2>6. /\ files'.cert = setup[s].ca /\ files'.key = setup[s].ca /\ files'.print = setup[s].ca
        /\ holder' = Nobody /\ ends' = ends /\ now' = now
        /\ setup'[s].ca = setup[s].ca
    BY <1>1, <2>3, <2>4 DEF CertInv, CertTypeOK, WritePrint, Moves
  <2>7. ends[setup[s].ca] \in 0 .. MaxTime + CALife /\ now \in 0 .. MaxTime
    BY <1>1, <2>5 DEF CertInv, CertTypeOK, Lasts
  <2>8. now < ends[setup[s].ca] /\ setup[s].ca # NoCA
    BY <2>5, <2>7, Bounds DEF Lasts, CAs, NoCA
  <2> QED BY <2>6, <2>8 DEF Loadable, ValidCA
<1> QED BY <1>1, CertInvHolds, PTL DEF CertSpec, SetupRepairs

-----------------------------------------------------------------------------
(* The cache *)

\* One entry per key, which holds a certificate for that key, and ends with it.
Distinct == \A i, j \in DOMAIN cache : cache[i].key = cache[j].key => i = j
CacheInv ==
    /\ cache \in Seq(Entries)
    /\ Distinct
    /\ \A i \in DOMAIN cache :
          cache[i].leaf.key = cache[i].key /\ cache[i].until <= cache[i].leaf.until

\* What is left of a sequence without one of its elements.
LEMMA RemoveAtProperties ==
    ASSUME NEW S, NEW s \in Seq(S), NEW i \in DOMAIN s
    PROVE  /\ RemoveAt(s, i) \in Seq(S)
           /\ Len(RemoveAt(s, i)) = Len(s) - 1
           /\ \A j \in 1 .. Len(s) - 1 : RemoveAt(s, i)[j] = IF j < i THEN s[j] ELSE s[j + 1]
<1>1. Len(s) \in Nat /\ DOMAIN s = 1 .. Len(s) /\ i \in 1 .. Len(s) /\ \A j \in 1 .. Len(s) : s[j] \in S
  BY LenProperties, ElementOfSeq
<1> DEFINE a == SubSeq(s, 1, i - 1)
           b == SubSeq(s, i + 1, Len(s))
<1>2. /\ a \in Seq(S) /\ Len(a) = i - 1
      /\ \A j \in 1 .. i - 1 : a[j] = s[j]
  BY <1>1, SubSeqProperties
<1>3. /\ b \in Seq(S) /\ Len(b) = Len(s) - i
      /\ \A j \in 1 .. Len(s) - i : b[j] = s[j + i]
  BY <1>1, SubSeqProperties
<1> HIDE DEF a, b
<1>4. /\ a \o b \in Seq(S) /\ Len(a \o b) = Len(a) + Len(b)
      /\ \A j \in 1 .. Len(a) + Len(b) : (a \o b)[j] = IF j <= Len(a) THEN a[j] ELSE b[j - Len(a)]
  BY <1>2, <1>3, ConcatProperties
<1>5. /\ Len(a) + Len(b) = Len(s) - 1
      /\ \A j \in 1 .. Len(s) - 1 : (a \o b)[j] = IF j < i THEN s[j] ELSE s[j + 1]
  <2>1. Len(a) + Len(b) = Len(s) - 1
    BY <1>1, <1>2, <1>3
  <2>2. ASSUME NEW j \in 1 .. Len(s) - 1
        PROVE  (a \o b)[j] = IF j < i THEN s[j] ELSE s[j + 1]
    <3>1. (a \o b)[j] = IF j <= i - 1 THEN a[j] ELSE b[j - (i - 1)]
      BY <1>2, <1>4, <2>1
    <3>2. CASE j < i
      BY <1>1, <1>2, <3>1, <3>2
    <3>3. CASE ~(j < i)
      <4>1. j - (i - 1) \in 1 .. Len(s) - i /\ j - (i - 1) + i = j + 1
        BY <1>1, <3>3
      <4>2. b[j - (i - 1)] = s[j - (i - 1) + i]
        BY <1>3, <4>1
      <4>3. ~(j < i) => ~(j <= i - 1)
        BY <1>1
      <4> QED BY <3>1, <3>3, <4>1, <4>2, <4>3
    <3> QED BY <3>2, <3>3
  <2> QED BY <2>1, <2>2
<1>6. RemoveAt(s, i) = a \o b
  BY DEF RemoveAt, a, b
<1> QED BY <1>4, <1>5, <1>6

\* The first elements of a sequence.
LEMMA PrefixProperties ==
    ASSUME NEW S, NEW s \in Seq(S), NEW n \in 0 .. Len(s)
    PROVE  /\ SubSeq(s, 1, n) \in Seq(S)
           /\ Len(SubSeq(s, 1, n)) = n
           /\ \A j \in 1 .. n : SubSeq(s, 1, n)[j] = s[j]
<1>1. Len(s) \in Nat /\ \A j \in 1 .. n : s[j] \in S
  BY LenProperties, ElementOfSeq
<1> QED BY <1>1, SubSeqProperties

\* The entries of a key: where it is, and what is left without it.
LEMMA PositionIs ==
    ASSUME CacheInv, NEW key, Cached(key)
    PROVE  /\ Position(key) \in DOMAIN cache /\ cache[Position(key)].key = key
           /\ cache[Position(key)] \in Entries
           /\ \A i \in DOMAIN cache : cache[i].key = key => i = Position(key)
<1>1. Position(key) \in DOMAIN cache /\ cache[Position(key)].key = key
  BY DEF Cached, Position
<1>2. DOMAIN cache = 1 .. Len(cache)
  BY LenProperties DEF CacheInv
<1> QED BY <1>1, <1>2, ElementOfSeq DEF CacheInv, Distinct

\* A hit is an entry that has not ended.
Has(key) == \E i \in DOMAIN cache : cache[i].key = key /\ now < cache[i].until
LEMMA HitIs ==
    ASSUME CacheInv, NEW key
    PROVE  Hit(key) <=> Has(key)
BY PositionIs DEF Hit, Cached, Has

\* A sequence of entries that come from the cache and keep their order, or one
\* in front of them whose key none of them has.
LEMMA OthersKept ==
    ASSUME CacheInv, NEW key
    PROVE  /\ Others(key) \in Seq(Entries)
           /\ \A i \in DOMAIN Others(key) :
                 /\ Others(key)[i].key # key
                 /\ \E k \in DOMAIN cache : Others(key)[i] = cache[k]
           /\ \A i, j \in DOMAIN Others(key) : Others(key)[i].key = Others(key)[j].key => i = j
<1>0. cache \in Seq(Entries) /\ Len(cache) \in Nat /\ DOMAIN cache = 1 .. Len(cache)
  BY LenProperties DEF CacheInv
<1>1. CASE ~Cached(key)
  BY <1>0, <1>1 DEF Others, Cached, CacheInv, Distinct
<1>2. CASE Cached(key)
  <2> DEFINE p == Position(key)
             rest == RemoveAt(cache, p)
  <2>1. p \in 1 .. Len(cache) /\ \A i \in DOMAIN cache : cache[i].key = key => i = p
    BY <1>0, <1>2, PositionIs
  <2> HIDE DEF p
  <2>2. /\ rest \in Seq(Entries) /\ Len(rest) = Len(cache) - 1
        /\ \A j \in 1 .. Len(cache) - 1 : rest[j] = IF j < p THEN cache[j] ELSE cache[j + 1]
    BY <1>0, <2>1, RemoveAtProperties
  <2> HIDE DEF rest
  <2>3. DOMAIN rest = 1 .. Len(cache) - 1
    BY <2>2, LenProperties
  <2>4. ASSUME NEW i \in DOMAIN rest
        PROVE  rest[i].key # key /\ \E k \in DOMAIN cache : rest[i] = cache[k]
    <3>1. PICK k \in 1 .. Len(cache) : rest[i] = cache[k] /\ k # p
      BY <1>0, <2>1, <2>2, <2>3
    <3> QED BY <1>0, <2>1, <3>1
  <2>5. ASSUME NEW i \in DOMAIN rest, NEW j \in DOMAIN rest, rest[i].key = rest[j].key
        PROVE  i = j
    <3>1. PICK k \in 1 .. Len(cache) : rest[i] = cache[k] /\ k = IF i < p THEN i ELSE i + 1
      BY <1>0, <2>1, <2>2, <2>3
    <3>2. PICK l \in 1 .. Len(cache) : rest[j] = cache[l] /\ l = IF j < p THEN j ELSE j + 1
      BY <1>0, <2>1, <2>2, <2>3
    <3>3. k = l
      BY <1>0, <2>5, <3>1, <3>2 DEF CacheInv, Distinct
    <3> QED BY <1>0, <2>1, <2>3, <3>1, <3>2, <3>3
  <2>6. Others(key) = rest
    BY <1>2 DEF Others, rest, p
  <2> QED BY <2>2, <2>4, <2>5, <2>6
<1> QED BY <1>1, <1>2

\* An entry in front of the others.
AtFront(e) == <<e>> \o Others(e.key)
LEMMA FrontKept ==
    ASSUME CacheInv, NEW e \in Entries
    PROVE  /\ AtFront(e) \in Seq(Entries)
           /\ Len(AtFront(e)) \in Nat
           /\ DOMAIN AtFront(e) = 1 .. Len(AtFront(e))
           /\ \A i \in DOMAIN AtFront(e) :
                 \/ AtFront(e)[i] = e
                 \/ \E k \in DOMAIN cache : AtFront(e)[i] = cache[k] /\ cache[k].key # e.key
           /\ \A i, j \in DOMAIN AtFront(e) :
                 AtFront(e)[i].key = AtFront(e)[j].key => i = j
<1> DEFINE o == Others(e.key)
           all == AtFront(e)
<1>0. all = <<e>> \o o
  BY DEF AtFront
<1>1. /\ o \in Seq(Entries)
      /\ \A i \in DOMAIN o : o[i].key # e.key /\ \E k \in DOMAIN cache : o[i] = cache[k]
      /\ \A i, j \in DOMAIN o : o[i].key = o[j].key => i = j
  BY OthersKept
<1> HIDE DEF o, all
<1>2. Len(o) \in Nat /\ DOMAIN o = 1 .. Len(o)
  BY <1>1, LenProperties
<1>3. <<e>> \in Seq(Entries) /\ Len(<<e>>) = 1 /\ <<e>>[1] = e
  OBVIOUS
<1>4. /\ all \in Seq(Entries) /\ Len(all) = 1 + Len(o)
      /\ \A i \in 1 .. 1 + Len(o) : all[i] = IF i = 1 THEN e ELSE o[i - 1]
  <2>1. /\ all \in Seq(Entries) /\ Len(all) = Len(<<e>>) + Len(o)
        /\ \A i \in 1 .. Len(<<e>>) + Len(o) :
              all[i] = IF i <= Len(<<e>>) THEN <<e>>[i] ELSE o[i - Len(<<e>>)]
    BY <1>0, <1>1, <1>3, ConcatProperties
  <2> QED BY <1>2, <1>3, <2>1
<1>5. DOMAIN all = 1 .. Len(all)
  BY <1>4, LenProperties
<1>6. ASSUME NEW i \in DOMAIN all
      PROVE  all[i] = e \/ \E k \in DOMAIN cache : all[i] = cache[k] /\ cache[k].key # e.key
  <2>1. CASE i = 1
    BY <1>2, <1>4, <2>1
  <2>2. CASE i # 1
    <3>1. all[i] = o[i - 1] /\ i - 1 \in DOMAIN o
      BY <1>2, <1>4, <1>5, <2>2
    <3> QED BY <1>1, <3>1
  <2> QED BY <2>1, <2>2
<1>7. ASSUME NEW i \in DOMAIN all, NEW j \in DOMAIN all, all[i].key = all[j].key
      PROVE  i = j
  <2>1. /\ i # 1 => all[i] = o[i - 1] /\ i - 1 \in DOMAIN o /\ o[i - 1].key # e.key
        /\ j # 1 => all[j] = o[j - 1] /\ j - 1 \in DOMAIN o /\ o[j - 1].key # e.key
        /\ i = 1 => all[i] = e
        /\ j = 1 => all[j] = e
    BY <1>1, <1>2, <1>4, <1>5
  <2>2. i # 1 /\ j # 1 => i - 1 = j - 1
    BY <1>1, <1>7, <2>1
  <2> QED BY <1>2, <1>4, <1>5, <1>7, <2>1, <2>2
<1> QED BY <1>2, <1>4, <1>5, <1>6, <1>7 DEF all

\* The same of the first of these, if there are too many.
FirstOf(e, n) == SubSeq(AtFront(e), 1, Earlier(Len(AtFront(e)), n))
LEMMA FirstKept ==
    ASSUME CacheInv, NEW e \in Entries, NEW n \in Nat
    PROVE  /\ FirstOf(e, n) \in Seq(Entries)
           /\ \A i \in DOMAIN FirstOf(e, n) :
                 \/ FirstOf(e, n)[i] = e
                 \/ \E k \in DOMAIN cache : FirstOf(e, n)[i] = cache[k] /\ cache[k].key # e.key
           /\ \A i, j \in DOMAIN FirstOf(e, n) :
                 FirstOf(e, n)[i].key = FirstOf(e, n)[j].key => i = j
<1> DEFINE all == AtFront(e)
           s == FirstOf(e, n)
<1>0. s = SubSeq(all, 1, Earlier(Len(all), n))
  BY DEF FirstOf
<1> HIDE DEF all, s
<1>1. /\ all \in Seq(Entries) /\ Len(all) \in Nat /\ DOMAIN all = 1 .. Len(all)
      /\ \A i \in DOMAIN all : all[i] = e \/ \E k \in DOMAIN cache : all[i] = cache[k] /\ cache[k].key # e.key
      /\ \A i, j \in DOMAIN all : all[i].key = all[j].key => i = j
  BY FrontKept DEF all
<1>2. Earlier(Len(all), n) \in 0 .. Len(all)
  BY <1>1 DEF Earlier
<1>3. /\ s \in Seq(Entries) /\ Len(s) = Earlier(Len(all), n)
      /\ \A i \in 1 .. Earlier(Len(all), n) : s[i] = all[i]
  BY <1>0, <1>1, <1>2, PrefixProperties
<1>4. DOMAIN s = 1 .. Earlier(Len(all), n)
  BY <1>3, LenProperties
<1>5. \A i \in DOMAIN s : i \in DOMAIN all /\ s[i] = all[i]
  BY <1>1, <1>2, <1>3, <1>4
<1> QED BY <1>1, <1>3, <1>5 DEF s

\* The certificate that a hit finds is for the key and has not ended.
LEMMA FoundSound ==
    ASSUME CacheInv, NEW key, Hit(key), now \in Nat
    PROVE  /\ Found(key) \in Leaves /\ Found(key).key = key
           /\ now < Found(key).until
<1>1. /\ Position(key) \in DOMAIN cache /\ cache[Position(key)].key = key
      /\ cache[Position(key)] \in Entries /\ now < cache[Position(key)].until
  BY PositionIs DEF Hit
<1>2. /\ cache[Position(key)].leaf.key = key
      /\ cache[Position(key)].until <= cache[Position(key)].leaf.until
  BY <1>1 DEF CacheInv
<1>3. cache[Position(key)].leaf \in Leaves /\ cache[Position(key)].until \in Nat
  BY <1>1 DEF Entries
<1>4. cache[Position(key)].leaf.until \in Int
  BY <1>3 DEF Leaves
<1> QED BY <1>1, <1>2, <1>3, <1>4 DEF Found

\* Looking a key up brings nothing into the cache.
LEMMA TouchedKeeps ==
    ASSUME CacheInv, NEW key, cache' = Touched(key), now' = now
    PROVE  CacheInv' /\ \A k : Has(k)' => Has(k)
<1>1. ASSUME NEW s \in Seq(Entries), cache' = s,
             \A i \in DOMAIN s : \E k \in DOMAIN cache : s[i] = cache[k],
             \A i, j \in DOMAIN s : s[i].key = s[j].key => i = j
      PROVE  CacheInv' /\ \A k : Has(k)' => Has(k)
  <2>1. CacheInv'
    BY <1>1 DEF CacheInv, Distinct
  <2>2. \A k : Has(k)' => Has(k)
    BY <1>1 DEF Has
  <2> QED BY <2>1, <2>2
<1>2. CASE ~Hit(key)
  <2>1. /\ Others(key) \in Seq(Entries)
        /\ \A i \in DOMAIN Others(key) : \E k \in DOMAIN cache : Others(key)[i] = cache[k]
        /\ \A i, j \in DOMAIN Others(key) : Others(key)[i].key = Others(key)[j].key => i = j
    BY OthersKept
  <2>2. cache' = Others(key)
    BY <1>2 DEF Touched
  <2> QED BY <1>1, <2>1, <2>2
<1>3. CASE Hit(key)
  <2> DEFINE e == cache[Position(key)]
             all == AtFront(e)
  <2>1. Position(key) \in DOMAIN cache /\ e \in Entries /\ e.key = key
    BY <1>3, PositionIs DEF Hit
  <2> HIDE DEF e
  <2>2. /\ all \in Seq(Entries)
        /\ \A i \in DOMAIN all : all[i] = e \/ \E k \in DOMAIN cache : all[i] = cache[k]
        /\ \A i, j \in DOMAIN all : all[i].key = all[j].key => i = j
    BY <2>1, FrontKept
  <2> HIDE DEF all
  <2>3. \A i \in DOMAIN all : \E k \in DOMAIN cache : all[i] = cache[k]
    BY <2>1, <2>2 DEF e
  <2>4. cache' = all
    BY <1>3, <2>1 DEF Touched, all, e, AtFront
  <2> QED BY <1>1, <2>2, <2>3, <2>4
<1> QED BY <1>2, <1>3

\* Keeping a certificate brings nothing else into the cache.
LEMMA PutKeeps ==
    ASSUME CacheInv, NEW key \in Keys, NEW leaf \in Leaves, leaf.key = key,
           now \in Nat, cache' = Put(key, leaf), now' = now
    PROVE  CacheInv' /\ \A k : Has(k)' => k = key \/ Has(k)
<1> DEFINE e == [key |-> key, leaf |-> leaf, until |-> Expiry(leaf)]
           s == FirstOf(e, Capacity)
<1>1. leaf.until \in Nat /\ Capacity \in Nat /\ Capacity > 0 /\ CacheTTL \in Nat
  BY LocalAssumption, Bounds DEF Leaves
<1>2. Expiry(leaf) \in Nat /\ Expiry(leaf) <= leaf.until
  BY <1>1 DEF Expiry, Earlier
<1>3. e \in Entries /\ e.key = key
  BY <1>2 DEF Entries
<1>5. cache' = s
  BY DEF s, e, Put, AtFront, FirstOf
<1>6. e.leaf.key = key /\ e.until <= e.leaf.until
  BY <1>2 DEF e
<1> HIDE DEF e
<1> HIDE DEF e
<1>4. /\ s \in Seq(Entries)
      /\ \A i \in DOMAIN s : s[i] = e \/ \E k \in DOMAIN cache : s[i] = cache[k] /\ cache[k].key # e.key
      /\ \A i, j \in DOMAIN s : s[i].key = s[j].key => i = j
  BY <1>1, <1>3, FirstKept
<1> HIDE DEF s
<1>7. CacheInv'
  BY <1>3, <1>4, <1>5, <1>6 DEF CacheInv, Distinct
<1>8. \A k : Has(k)' => k = key \/ Has(k)
  BY <1>3, <1>4, <1>5 DEF Has
<1> QED BY <1>7, <1>8

-----------------------------------------------------------------------------
(* The inductive invariant *)

Flying == {"flight", "issue", "issued"}
Keyed == {"certificate", "join", "wait", "answer", "verify", "open"} \cup Flying

\* What a connection is for: the key belongs to its host, the certificate it
\* has been given to the key, and no request passes a host twice.
Sound(conn, time) ==
    /\ conn.step # "idle" => conn.host \in Hosts \cup {Localhost}
    /\ conn.step \in Keyed => conn.key \in Keys /\ conn.key.host = conn.host
    /\ conn.step \in {"issued", "answer"} =>
          conn.leaf \in Leaves /\ conn.leaf.key = conn.key /\ time < conn.leaf.until
    /\ \A i, j \in DOMAIN conn.hops : conn.hops[i] = conn.hops[j] => i = j

\* One connection flies for a key, and it has not issued in vain.
Flights ==
    /\ \A c \in Clients : At(c, "wait") => InFlight(client[c].key)
    /\ \A c, d \in Clients :
          client[c].step \in Flying /\ client[d].step \in Flying /\ client[c].key = client[d].key
          => c = d
    /\ \A c \in Clients : client[c].step \in {"issue", "issued"} => ~Has(client[c].key)

LocalInv ==
    /\ CertInv /\ LocalTypeOK /\ CacheInv /\ Flights
    /\ \A c \in Clients : Sound(client[c], now)

LEMMA Clock == CertInv => now \in Nat
BY Bounds DEF CertInv, CertTypeOK

\* What the authorization of a host name says.
LEMMA AuthorizedIs ==
    ASSUME LocalTypeOK, NEW h \in Hosts \cup {Localhost}, NEW ca \in CAs, Authorized(h, ca) # NoKey
    PROVE  /\ Authorized(h, ca) \in Keys
           /\ Authorized(h, ca).host = h /\ Authorized(h, ca).ca = ca
           /\ h # Localhost => Owned(h) /\ owner[h].id = Authorized(h, ca).id
<1>1. CASE h = Localhost
  BY <1>1, LocalAssumption DEF Authorized, Keys
<1>2. CASE h # Localhost
  <2>1. Owned(h) /\ Authorized(h, ca) = [host |-> h, id |-> owner[h].id, ca |-> ca]
    BY <1>2 DEF Authorized
  <2>2. owner[h] \in Routes
    BY <1>2, <2>1 DEF LocalTypeOK, Owned
  <2>3. owner[h].id \in 0 .. MaxRoute
    BY <2>2, LocalAssumption DEF Routes
  <2> QED BY <1>2, <2>1, <2>3 DEF Keys
<1> QED BY <1>1, <1>2

LEMMA NoKeyIsNone == NoKey \notin Keys /\ NoLeaf \notin Leaves /\ NoCA \notin CAs
<1>1. NoKey \notin Keys
  BY LocalAssumption DEF NoKey, Keys
<1> QED BY <1>1 DEF NoLeaf, Leaves, NoCA, CAs

\* Where a connection can be.
LEMMA ConnectionIs ==
    ASSUME LocalInv, NEW c \in Clients
    PROVE  client[c] \in Connections /\ Sound(client[c], now)
<1>1. client \in [Clients -> Connections]
  BY DEF LocalInv, LocalTypeOK
<1> QED BY <1>1 DEF LocalInv

LEMMA IdleIs == Idle \in Connections /\ \A time : Sound(Idle, time)
<1>1. Idle \in Connections
  BY DEF Idle, Connections
<1> QED BY <1>1 DEF Sound, Idle, Keyed, Flying

\* One connection goes on, the others stay.
LEMMA OneMoves ==
    ASSUME LocalInv, CacheInv', UNCHANGED <<owner, certVars>>,
           NEW c \in Clients, NEW conn \in Connections, Becomes(c, conn),
           Sound(conn, now),
           \A k : Has(k)' => Has(k),
           conn.step = "wait" => InFlight(conn.key) /\ client[c].step \notin Flying,
           conn.step \in Flying =>
              (client[c].step \in Flying /\ conn.key = client[c].key) \/ ~InFlight(conn.key),
           conn.step \in {"issue", "issued"} => ~Has(conn.key),
           client[c].step \in Flying => conn.step \in Flying /\ conn.key = client[c].key
    PROVE  LocalInv'
<1>1. client'[c] = conn /\ \A d \in Clients \ {c} : client'[d] = client[d]
  BY DEF LocalInv, LocalTypeOK, Becomes
<1>2. CertInv' /\ now' = now
  BY StepCertInv DEF LocalInv, certVars
<1>3. \A d \in Clients : Sound(client'[d], now')
  BY <1>1, <1>2 DEF LocalInv
<1>4. ASSUME NEW d \in Clients, client'[d].step = "wait"
      PROVE  \E e \in Clients : client'[e].step \in Flying /\ client'[e].key = client'[d].key
  <2>1. PICK e \in Clients : client[e].step \in Flying /\ client[e].key = client'[d].key
    BY <1>1, <1>4 DEF LocalInv, Flights, InFlight, Flying, At
  <2>2. client'[e].step \in Flying /\ client'[e].key = client[e].key
    BY <1>1, <2>1
  <2> QED BY <2>1, <2>2
<1>5. ASSUME NEW d \in Clients, NEW e \in Clients,
             client'[d].step \in Flying, client'[e].step \in Flying, client'[d].key = client'[e].key
      PROVE  d = e
  <2>1. ASSUME NEW f \in Clients \ {c}, client[f].step \in Flying, conn.step \in Flying
        PROVE  client[f].key # conn.key
    BY <2>1 DEF LocalInv, Flights, InFlight, Flying
  <2> QED BY <1>1, <1>5, <2>1 DEF LocalInv, Flights
<1>6. ASSUME NEW d \in Clients, client'[d].step \in {"issue", "issued"}
      PROVE  ~Has(client[d].key)'
  <2>1. ~Has(client'[d].key)
    BY <1>1, <1>6 DEF LocalInv, Flights
  <2> QED BY <2>1 DEF Has
<1>7. Flights'
  BY <1>4, <1>5, <1>6 DEF Flights, At, InFlight, Flying
<1>8. LocalTypeOK'
  BY DEF LocalInv, LocalTypeOK, Becomes, CacheInv
<1> QED BY <1>2, <1>3, <1>7, <1>8 DEF LocalInv

\* A flight lands: it ends for the connection that flies and for all that wait
\* for it.
LEMMA AllLand ==
    ASSUME LocalInv, CacheInv', UNCHANGED <<owner, certVars>>,
           NEW c \in Clients, client[c].step \in Flying,
           NEW leaf \in Leaves \cup {NoLeaf}, Lands(c, leaf),
           leaf # NoLeaf => leaf.key = client[c].key /\ now < leaf.until,
           \A k : Has(k)' => Has(k) \/ k = client[c].key
    PROVE  LocalInv'
<1>1. \A d \in Clients :
         client'[d] = IF d \notin Sharing(c) THEN client[d]
                      ELSE IF leaf = NoLeaf THEN Idle
                      ELSE [client[d] EXCEPT !.step = "answer", !.leaf = leaf, !.loaded = NoCA]
  BY DEF Lands
<1>2. CertInv' /\ now' = now
  BY StepCertInv DEF LocalInv, certVars
<1>3. \A d \in Sharing(c) : d \in Clients /\ client[d].key = client[c].key /\ client[d].step \in Keyed
  BY DEF Sharing, At, Keyed
<1>4. ASSUME NEW d \in Clients
      PROVE  Sound(client'[d], now')
  <2>0. client \in [Clients -> Connections] /\ Sound(client[d], now)
    BY DEF LocalInv, LocalTypeOK
  <2>1. CASE d \notin Sharing(c)
    BY <1>1, <1>2, <2>0, <2>1
  <2>2. CASE d \in Sharing(c) /\ leaf = NoLeaf
    BY <1>1, <2>2 DEF Sound, Idle, Keyed, Flying
  <2>3. CASE d \in Sharing(c) /\ leaf # NoLeaf
    <3>1. client'[d] = [client[d] EXCEPT !.step = "answer", !.leaf = leaf, !.loaded = NoCA]
      BY <1>1, <2>3
    <3>0. client[d] \in Connections
      BY <2>0
    <3>2. /\ client'[d].step = "answer" /\ client'[d].leaf = leaf
          /\ client'[d].key = client[d].key /\ client'[d].host = client[d].host
          /\ client'[d].hops = client[d].hops
      BY <3>0, <3>1 DEF Connections
    <3>3. client[d].step # "idle" /\ client[d].key = client[c].key
      BY <1>3, <2>3 DEF Keyed, Flying
    <3> QED BY <1>2, <1>3, <2>0, <2>3, <3>2, <3>3 DEF Sound
  <2> QED BY <2>1, <2>2, <2>3
<1>5. ASSUME NEW d \in Sharing(c)
      PROVE  client'[d].step \in {"idle", "answer"}
  <2>1. client \in [Clients -> Connections]
    BY DEF LocalInv, LocalTypeOK
  <2>2. client[d] \in Connections
    BY <1>3, <2>1
  <2>3. CASE leaf = NoLeaf
    BY <1>1, <1>3, <2>3 DEF Idle
  <2>4. CASE leaf # NoLeaf
    <3>1. client'[d] = [client[d] EXCEPT !.step = "answer", !.leaf = leaf, !.loaded = NoCA]
      BY <1>1, <1>3, <2>4
    <3> QED BY <2>2, <3>1 DEF Connections
  <2> QED BY <2>3, <2>4
<1>6. \A d \in Clients : client'[d].step \in Flying \cup {"wait"} => client'[d] = client[d] /\ d \notin Sharing(c)
  BY <1>1, <1>5 DEF Flying
<1>7. /\ c \in Sharing(c)
      /\ \A d \in Clients : client[d].step = "wait" /\ client[d].key = client[c].key => d \in Sharing(c)
  BY DEF Sharing, At
<1>8. ASSUME NEW d \in Clients, client'[d].step = "wait"
      PROVE  \E e \in Clients : client'[e].step \in Flying /\ client'[e].key = client'[d].key
  <2>1. client'[d] = client[d] /\ client[d].key # client[c].key
    BY <1>6, <1>7, <1>8
  <2>2. PICK e \in Clients : client[e].step \in Flying /\ client[e].key = client[d].key
    BY <1>8, <2>1 DEF LocalInv, Flights, InFlight, At, Flying
  <2>3. e \notin Sharing(c)
    BY <1>3, <2>1, <2>2
  <2>4. client'[e] = client[e]
    BY <1>1, <2>3
  <2> QED BY <2>1, <2>2, <2>4
<1>9. \A d, e \in Clients :
         client'[d].step \in Flying /\ client'[e].step \in Flying /\ client'[d].key = client'[e].key => d = e
  BY <1>6 DEF LocalInv, Flights
<1>10. ASSUME NEW d \in Clients, client'[d].step \in {"issue", "issued"}
       PROVE  ~Has(client[d].key)'
  <2>1. client'[d] = client[d] /\ d # c
    BY <1>6, <1>7, <1>10 DEF Flying
  <2>2. client[d].step \in Flying
    BY <1>10, <2>1 DEF Flying
  <2>3. client[d].key # client[c].key
    BY <2>1, <2>2 DEF LocalInv, Flights
  <2>4. ~Has(client[d].key)
    BY <1>10, <2>1 DEF LocalInv, Flights
  <2> QED BY <1>2, <2>1, <2>3, <2>4 DEF Has
<1>11. Flights'
  BY <1>8, <1>9, <1>10 DEF Flights, At, InFlight, Flying
<1>12. ASSUME NEW d \in Clients
       PROVE  client'[d] \in Connections
  <2>1. client[d] \in Connections
    BY ConnectionIs
  <2>2. CASE leaf = NoLeaf
    BY <1>1, <2>1, <2>2, IdleIs
  <2>3. CASE leaf # NoLeaf
    <3>1. [client[d] EXCEPT !.step = "answer", !.leaf = leaf, !.loaded = NoCA] \in Connections
      BY <2>1 DEF Connections, Checks
    <3> QED BY <1>1, <2>1, <2>3, <3>1
  <2> QED BY <2>2, <2>3
<1>13. client' \in [Clients -> Connections]
  BY <1>12 DEF Lands
<1>14. LocalTypeOK'
  BY <1>13 DEF LocalInv, LocalTypeOK, CacheInv
<1> QED BY <1>2, <1>4, <1>11, <1>14 DEF LocalInv

\* A connection goes on outside of a flight, and the cache is left alone.
LEMMA QuietMove ==
    ASSUME LocalInv, UNCHANGED <<owner, cache, certVars>>, NEW c \in Clients,
           NEW conn \in Connections, Becomes(c, conn), Sound(conn, now),
           client[c].step \notin Flying, conn.step \notin Flying \cup {"wait"}
    PROVE  LocalInv'
<1>1. CacheInv' /\ \A k : Has(k)' => Has(k)
  BY DEF LocalInv, CacheInv, Distinct, Has, certVars
<1>2. conn.step # "wait" /\ conn.step \notin {"issue", "issued"}
  BY DEF Flying
<1> QED BY <1>1, <1>2, OneMoves

\* The same within a flight, or into one.
LEMMA FlightMove ==
    ASSUME LocalInv, UNCHANGED <<owner, certVars>>, NEW c \in Clients,
           CacheInv', \A k : Has(k)' => Has(k),
           NEW conn \in Connections, Becomes(c, conn), Sound(conn, now),
           client[c].step \in Flying, conn.step \in Flying, conn.key = client[c].key,
           conn.step \in {"issue", "issued"} => ~Has(conn.key)
    PROVE  LocalInv'
<1>1. conn.step # "wait"
  BY DEF Flying
<1> QED BY <1>1, OneMoves

LEMMA StartsKept ==
    ASSUME LocalInv, NEW c \in Clients,
           \/ HangUp(c)
           \/ \E h \in Hosts \cup {Localhost} : Hello(c, h)
           \/ \E h \in Hosts : Ask(c, h)
    PROVE  LocalInv'
<1>1. CASE HangUp(c)
  BY <1>1, IdleIs, QuietMove DEF HangUp, Idle, Flying
<1>2. ASSUME NEW h \in Hosts \cup {Localhost}, Hello(c, h) PROVE LocalInv'
  <2> DEFINE conn == [Idle EXCEPT !.step = "hello", !.host = h]
  <2>1. conn \in Connections
    BY IdleIs DEF Connections, Checks
  <2>2. conn.step = "hello" /\ conn.host = h /\ conn.hops = <<>>
    BY DEF Idle
  <2> HIDE DEF conn
  <2>3. Sound(conn, now)
    BY <2>2 DEF Sound, Keyed, Flying
  <2>4. Becomes(c, conn) /\ client[c].step = "idle" /\ UNCHANGED <<owner, cache, certVars>>
    BY <1>2 DEF Hello, At, conn
  <2> QED BY <2>1, <2>2, <2>3, <2>4, QuietMove DEF Flying
<1>3. ASSUME NEW h \in Hosts, Ask(c, h) PROVE LocalInv'
  <2> DEFINE conn == [Idle EXCEPT !.step = "asked", !.host = h, !.secure = At(c, "open")]
  <2>1. conn \in Connections
    BY IdleIs DEF Connections, At
  <2>2. conn.step = "asked" /\ conn.host = h /\ conn.hops = <<>>
    BY DEF Idle
  <2>4. Becomes(c, conn) /\ client[c].step \in {"idle", "open"} /\ UNCHANGED <<owner, cache, certVars>>
    BY <1>3 DEF Ask
  <2> HIDE DEF conn
  <2>3. Sound(conn, now)
    BY <2>2 DEF Sound, Keyed, Flying
  <2> QED BY <2>1, <2>2, <2>3, <2>4, QuietMove DEF Flying
<1> QED BY <1>1, <1>2, <1>3

LEMMA LoadKept == ASSUME LocalInv, NEW c \in Clients, Load(c) PROVE LocalInv'
<1>1. client[c] \in Connections /\ Sound(client[c], now) /\ UNCHANGED <<owner, cache, certVars>>
  BY ConnectionIs DEF Load
<1>2. client[c].step \in Checks \ Flying
  BY DEF Load, Checks, Flying
<1>3. CASE Becomes(c, Idle)
  BY <1>1, <1>2, <1>3, IdleIs, QuietMove DEF Idle, Flying
<1>4. CASE Becomes(c, [client[c] EXCEPT !.loaded = files.cert])
  <2> DEFINE conn == [client[c] EXCEPT !.loaded = files.cert]
  <2>1. files.cert \in CAs \cup {NoCA}
    BY DEF LocalInv, CertInv, CertTypeOK
  <2>2. conn \in Connections
    BY <1>1, <2>1 DEF Connections
  <2>3. /\ conn.step = client[c].step /\ conn.host = client[c].host /\ conn.key = client[c].key
        /\ conn.leaf = client[c].leaf /\ conn.hops = client[c].hops
    BY <1>1 DEF Connections
  <2>4. Becomes(c, conn)
    BY <1>4
  <2> HIDE DEF conn
  <2>5. Sound(conn, now)
    BY <1>1, <2>3 DEF Sound
  <2>6. conn.step \notin Flying \cup {"wait"}
    BY <1>2, <2>3 DEF Checks, Flying
  <2> QED BY <1>1, <1>2, <2>2, <2>4, <2>5, <2>6, QuietMove
<1> QED BY <1>3, <1>4 DEF Load

LEMMA AuthorizeKept == ASSUME LocalInv, NEW c \in Clients, Authorize(c) PROVE LocalInv'
<1> DEFINE key == Authorized(client[c].host, client[c].loaded)
           conn == [client[c] EXCEPT !.step = "certificate", !.key = key, !.loaded = NoCA]
<1>1. client[c] \in Connections /\ Sound(client[c], now) /\ UNCHANGED <<owner, cache, certVars>>
  BY ConnectionIs DEF Authorize
<1>2. client[c].step = "hello" /\ client[c].loaded \in CAs /\ client[c].host \in Hosts \cup {Localhost}
  BY <1>1 DEF Authorize, Loaded, At, Connections, Sound
<1>3. CASE key = NoKey
  BY <1>1, <1>2, <1>3, IdleIs, QuietMove DEF Authorize, Idle, Flying
<1>4. CASE key # NoKey
  <2>1. key \in Keys /\ key.host = client[c].host
    BY <1>2, <1>4, AuthorizedIs DEF LocalInv
  <2>2. Becomes(c, conn)
    BY <1>4 DEF Authorize
  <2> HIDE DEF key
  <2>3. conn \in Connections
    BY <1>1, <2>1 DEF Connections, Checks
  <2>4. /\ conn.step = "certificate" /\ conn.host = client[c].host /\ conn.key = key
        /\ conn.hops = client[c].hops
    BY <1>1 DEF Connections
  <2> HIDE DEF conn
  <2>5. Sound(conn, now)
    BY <1>1, <1>2, <2>1, <2>4 DEF Sound, Keyed
  <2> QED BY <1>1, <1>2, <2>2, <2>3, <2>4, <2>5, QuietMove DEF Flying
<1> QED BY <1>3, <1>4

LEMMA LookupKept == ASSUME LocalInv, NEW c \in Clients, Lookup(c) PROVE LocalInv'
<1>1. client[c] \in Connections /\ Sound(client[c], now) /\ UNCHANGED <<owner, certVars>>
  BY ConnectionIs DEF Lookup
<1>2. client[c].step = "certificate"
  BY DEF Lookup, Loaded, At
<1>3. CASE ~Confirmed(c)
  <2>1. Becomes(c, Idle) /\ UNCHANGED cache
    BY <1>3 DEF Lookup
  <2> QED BY <1>1, <1>2, <2>1, IdleIs, QuietMove DEF Idle, Flying
<1>4. CASE Confirmed(c)
  <2> DEFINE key == client[c].key
             conn == [client[c] EXCEPT !.leaf = Found(key), !.loaded = NoCA,
                        !.step = IF Hit(key) THEN "verify" ELSE "join"]
  <2>1. cache' = Touched(key) /\ Becomes(c, conn)
    BY <1>4 DEF Lookup
  <2>2. now' = now /\ now \in Nat /\ CacheInv
    BY <1>1, Clock DEF LocalInv, certVars
  <2>3. CacheInv' /\ \A k : Has(k)' => Has(k)
    BY <2>1, <2>2, TouchedKeeps
  <2>4. Found(key) \in Leaves \cup {NoLeaf}
    <3>1. CASE Hit(key)
      BY <2>2, <3>1, FoundSound
    <3>2. CASE ~Hit(key)
      BY <3>2 DEF Found
    <3> QED BY <3>1, <3>2
  <2>5. conn \in Connections
    <3>1. \A leaf \in Leaves \cup {NoLeaf}, step \in {"verify", "join"} :
             [client[c] EXCEPT !.leaf = leaf, !.loaded = NoCA, !.step = step] \in Connections
      BY <1>1 DEF Connections, Checks
    <3> QED BY <2>4, <3>1
  <2>6. /\ conn.step \in {"verify", "join"} /\ conn.host = client[c].host
        /\ conn.key = client[c].key /\ conn.hops = client[c].hops
    BY <1>1 DEF Connections
  <2> HIDE DEF conn
  <2>7. Sound(conn, now)
    BY <1>1, <1>2, <2>6 DEF Sound, Keyed
  <2>8. client[c].step \notin Flying /\ conn.step \notin Flying /\ conn.step # "wait"
        /\ conn.step \notin {"issue", "issued"}
    BY <1>2, <2>6 DEF Flying
  <2> QED BY <1>1, <2>1, <2>3, <2>5, <2>7, <2>8, OneMoves
<1> QED BY <1>3, <1>4

LEMMA JoinKept == ASSUME LocalInv, NEW c \in Clients, Join(c) PROVE LocalInv'
<1> DEFINE conn == [client[c] EXCEPT !.step = IF InFlight(client[c].key) THEN "wait" ELSE "flight",
                       !.loaded = NoCA]
<1>1. /\ client[c] \in Connections /\ Sound(client[c], now) /\ UNCHANGED <<owner, cache, certVars>>
      /\ client[c].step = "join" /\ Becomes(c, conn)
  BY ConnectionIs DEF Join, At, Goes
<1>2. CacheInv' /\ \A k : Has(k)' => Has(k)
  BY <1>1 DEF LocalInv, CacheInv, Distinct, Has, certVars
<1>3. conn \in Connections
  BY <1>1 DEF Connections, Checks
<1>4. /\ conn.step = IF InFlight(client[c].key) THEN "wait" ELSE "flight"
      /\ conn.host = client[c].host /\ conn.key = client[c].key /\ conn.hops = client[c].hops
  BY <1>1 DEF Connections
<1> HIDE DEF conn
<1>5. Sound(conn, now)
  BY <1>1, <1>4 DEF Sound, Keyed
<1>6. /\ client[c].step \notin Flying /\ conn.step \notin {"issue", "issued"}
      /\ conn.step = "wait" => InFlight(conn.key)
      /\ conn.step \in Flying => ~InFlight(conn.key)
  BY <1>1, <1>4 DEF Flying
<1> QED BY <1>1, <1>2, <1>3, <1>5, <1>6, OneMoves

\* A flight that fails lands too.
LEMMA LostKept ==
    ASSUME LocalInv, NEW c \in Clients, client[c].step \in Flying, Lands(c, NoLeaf),
           UNCHANGED <<owner, certVars>>, CacheInv', \A k : Has(k)' => Has(k)
    PROVE  LocalInv'
BY AllLand

LEMMA CacheStays ==
    ASSUME LocalInv, UNCHANGED <<cache, certVars>>
    PROVE  CacheInv' /\ \A k : Has(k)' => Has(k)
BY DEF LocalInv, CacheInv, Distinct, Has, certVars

LEMMA LoadInFlightKept == ASSUME LocalInv, NEW c \in Clients, LoadInFlight(c) PROVE LocalInv'
<1>1. /\ client[c] \in Connections /\ Sound(client[c], now) /\ UNCHANGED <<owner, cache, certVars>>
      /\ client[c].step \in {"flight", "issued"} /\ client[c].step \in Flying
      /\ CacheInv' /\ \A k : Has(k)' => Has(k)
  BY ConnectionIs, CacheStays DEF LoadInFlight, Flying
<1>2. CASE Lands(c, NoLeaf)
  BY <1>1, <1>2, LostKept
<1>3. CASE Becomes(c, [client[c] EXCEPT !.loaded = files.cert])
  <2> DEFINE conn == [client[c] EXCEPT !.loaded = files.cert]
  <2>1. files.cert \in CAs \cup {NoCA}
    BY DEF LocalInv, CertInv, CertTypeOK
  <2>2. conn \in Connections
    BY <1>1, <2>1 DEF Connections
  <2>3. /\ conn.step = client[c].step /\ conn.host = client[c].host /\ conn.key = client[c].key
        /\ conn.leaf = client[c].leaf /\ conn.hops = client[c].hops
    BY <1>1 DEF Connections
  <2>4. Becomes(c, conn)
    BY <1>3
  <2> HIDE DEF conn
  <2>5. Sound(conn, now)
    BY <1>1, <2>3 DEF Sound
  <2>6. conn.step \in {"issue", "issued"} => ~Has(conn.key)
    BY <2>3 DEF LocalInv, Flights
  <2> QED BY <1>1, <2>2, <2>3, <2>4, <2>5, <2>6, FlightMove
<1> QED BY <1>2, <1>3 DEF LoadInFlight

LEMMA LookAgainKept == ASSUME LocalInv, NEW c \in Clients, LookAgain(c) PROVE LocalInv'
<1> DEFINE key == client[c].key
<1>1. /\ client[c] \in Connections /\ Sound(client[c], now) /\ UNCHANGED <<owner, certVars>>
      /\ client[c].step = "flight" /\ client[c].step \in Flying
      /\ now' = now /\ now \in Nat /\ CacheInv
  BY ConnectionIs, Clock DEF LookAgain, Loaded, At, Flying, LocalInv, certVars
<1>2. CASE ~Confirmed(c)
  <2>1. Lands(c, NoLeaf) /\ UNCHANGED cache
    BY <1>2 DEF LookAgain
  <2>2. CacheInv' /\ \A k : Has(k)' => Has(k)
    BY <1>1, <2>1, CacheStays
  <2> QED BY <1>1, <2>1, <2>2, LostKept
<1>3. CASE Confirmed(c) /\ Hit(key)
  <2>1. cache' = Touched(key) /\ Lands(c, Found(key))
    BY <1>3 DEF LookAgain
  <2>2. CacheInv' /\ \A k : Has(k)' => Has(k)
    BY <1>1, <2>1, TouchedKeeps
  <2>3. Found(key) \in Leaves /\ Found(key).key = key /\ now < Found(key).until
    BY <1>1, <1>3, FoundSound
  <2> QED BY <1>1, <2>1, <2>2, <2>3, AllLand
<1>4. CASE Confirmed(c) /\ ~Hit(key)
  <2> DEFINE conn == [client[c] EXCEPT !.step = "issue", !.loaded = NoCA]
  <2>1. cache' = Touched(key) /\ Becomes(c, conn)
    BY <1>4 DEF LookAgain, Goes
  <2>2. CacheInv' /\ \A k : Has(k)' => Has(k)
    BY <1>1, <2>1, TouchedKeeps
  <2>3. ~Has(key)
    BY <1>1, <1>4, HitIs
  <2>4. conn \in Connections
    BY <1>1 DEF Connections, Checks
  <2>5. /\ conn.step = "issue" /\ conn.host = client[c].host
        /\ conn.key = key /\ conn.hops = client[c].hops
    BY <1>1 DEF Connections
  <2> HIDE DEF conn
  <2>6. Sound(conn, now)
    BY <1>1, <2>5 DEF Sound, Keyed, Flying
  <2>7. conn.step \in Flying
    BY <2>5 DEF Flying
  <2> QED BY <1>1, <2>1, <2>2, <2>3, <2>4, <2>5, <2>6, <2>7, FlightMove
<1> QED BY <1>2, <1>3, <1>4

LEMMA IssueKept == ASSUME LocalInv, NEW c \in Clients, Issue(c) PROVE LocalInv'
<1> DEFINE key == client[c].key
           leaf == [key |-> key, until |-> LeafEnd(key.ca, LeafLife)]
           conn == [client[c] EXCEPT !.step = "issued", !.leaf = leaf]
<1>1. /\ client[c] \in Connections /\ Sound(client[c], now) /\ UNCHANGED <<owner, cache, certVars>>
      /\ client[c].step = "issue" /\ client[c].step \in Flying /\ key \in Keys
      /\ CacheInv' /\ \A k : Has(k)' => Has(k)
  BY ConnectionIs, CacheStays DEF Issue, At, Flying, Sound, Keyed
<1>2. CASE ~Issues(key.ca)
  <2>1. Lands(c, NoLeaf)
    BY <1>2 DEF Issue
  <2> QED BY <1>1, <2>1, LostKept
<1>3. CASE Issues(key.ca)
  <2>1. Becomes(c, conn)
    BY <1>3 DEF Issue
  <2>2. key.ca \in CAs
    BY <1>1 DEF Keys
  <2>3. ends[key.ca] \in Int /\ now \in 0 .. MaxTime /\ MaxTime \in Nat
        /\ LeafLife \in Nat \ {0} /\ now < ends[key.ca]
    BY <1>3, <2>2, Bounds, LocalAssumption DEF Issues, LocalInv, CertInv, CertTypeOK
  <2>4. leaf.until \in 0 .. MaxTime + LeafLife /\ now < leaf.until
    BY <2>3 DEF LeafEnd
  <2>5. leaf \in Leaves /\ leaf.key = key
    BY <1>1, <2>4 DEF Leaves
  <2> HIDE DEF leaf
  <2>6. conn \in Connections
    BY <1>1, <2>5 DEF Connections, Checks
  <2>7. /\ conn.step = "issued" /\ conn.host = client[c].host /\ conn.leaf = leaf
        /\ conn.key = key /\ conn.hops = client[c].hops
    BY <1>1 DEF Connections
  <2> HIDE DEF conn
  <2>8. Sound(conn, now)
    BY <1>1, <2>4, <2>5, <2>7 DEF Sound, Keyed, Flying
  <2>9. conn.step \in Flying /\ ~Has(key)
    BY <1>1, <2>7 DEF Flying, LocalInv, Flights
  <2> QED BY <1>1, <2>1, <2>6, <2>7, <2>8, <2>9, FlightMove
<1> QED BY <1>2, <1>3

LEMMA KeepKept == ASSUME LocalInv, NEW c \in Clients, Keep(c) PROVE LocalInv'
<1> DEFINE key == client[c].key
           leaf == client[c].leaf
<1>1. /\ client[c] \in Connections /\ Sound(client[c], now) /\ UNCHANGED <<owner, certVars>>
      /\ client[c].step = "issued" /\ client[c].step \in Flying
      /\ now' = now /\ now \in Nat /\ CacheInv
  BY ConnectionIs, Clock DEF Keep, Loaded, At, Flying, LocalInv, certVars
<1>2. key \in Keys /\ leaf \in Leaves /\ leaf.key = key /\ now < leaf.until
  BY <1>1 DEF Sound, Keyed
<1>3. CASE ~Confirmed(c)
  <2>1. Lands(c, NoLeaf) /\ UNCHANGED cache
    BY <1>3 DEF Keep
  <2>2. CacheInv' /\ \A k : Has(k)' => Has(k)
    BY <1>1, <2>1, CacheStays
  <2> QED BY <1>1, <2>1, <2>2, LostKept
<1>4. CASE Confirmed(c)
  <2>1. Lands(c, leaf) /\ cache' = Put(key, leaf)
    BY <1>4 DEF Keep
  <2>2. CacheInv' /\ \A k : Has(k)' => k = key \/ Has(k)
    BY <1>1, <1>2, <2>1, PutKeeps
  <2> QED BY <1>1, <1>2, <2>1, <2>2, AllLand
<1> QED BY <1>3, <1>4

LEMMA AnswerKept == ASSUME LocalInv, NEW c \in Clients, Answer(c) PROVE LocalInv'
<1>1. /\ client[c] \in Connections /\ Sound(client[c], now) /\ UNCHANGED <<owner, cache, certVars>>
      /\ client[c].step \in {"answer", "verify"} /\ client[c].step \notin Flying
  BY ConnectionIs DEF Answer, Loaded, At, Flying
<1>2. CASE Becomes(c, Idle)
  BY <1>1, <1>2, IdleIs, QuietMove DEF Idle, Flying
<1>3. ASSUME NEW step \in {"verify", "open"}, Goes(c, step) PROVE LocalInv'
  <2> DEFINE conn == [client[c] EXCEPT !.step = step, !.loaded = NoCA]
  <2>1. Becomes(c, conn)
    BY <1>3 DEF Goes
  <2>2. conn \in Connections
    BY <1>1 DEF Connections, Checks
  <2>3. /\ conn.step \in {"verify", "open"} /\ conn.host = client[c].host
        /\ conn.key = client[c].key /\ conn.hops = client[c].hops
    BY <1>1 DEF Connections
  <2> HIDE DEF conn
  <2>4. Sound(conn, now)
    BY <1>1, <2>3 DEF Sound, Keyed
  <2>5. conn.step \notin Flying \cup {"wait"}
    BY <2>3 DEF Flying
  <2> QED BY <1>1, <2>1, <2>2, <2>4, <2>5, QuietMove
<1> QED BY <1>2, <1>3 DEF Answer

\* A request that the proxy passes on has not passed its host yet.
LEMMA ProxiedIs ==
    ASSUME LocalInv, NEW c \in Clients, client[c].host \in Hosts, Response(c) = "proxied"
    PROVE  ~Loop(c)
<1>1. owner[client[c].host] \in Routes \cup {NoRoute}
  BY DEF LocalInv, LocalTypeOK
<1>2. owner[client[c].host] # NoRoute
  BY DEF Response
<1>3. owner[client[c].host].state \in {"pending", "active"} /\ owner[client[c].host].expired \in BOOLEAN
  BY <1>1, <1>2 DEF Routes
<1> QED BY <1>2, <1>3 DEF Response

LEMMA RespondKept == ASSUME LocalInv, NEW c \in Clients, Respond(c) PROVE LocalInv'
<1>1. /\ client[c] \in Connections /\ Sound(client[c], now) /\ UNCHANGED <<owner, cache, certVars>>
      /\ client[c].step = "asked" /\ client[c].step \notin Flying /\ client[c].host \in Hosts
  BY ConnectionIs DEF Respond, At, Flying
<1>2. CASE Becomes(c, Idle)
  BY <1>1, <1>2, IdleIs, QuietMove DEF Idle, Flying
<1>3. ASSUME Response(c) = "proxied", NEW h \in Hosts, NEW secure \in BOOLEAN,
             Becomes(c, [Idle EXCEPT !.step = "asked", !.host = h, !.secure = secure, !.hops = Passed(c)])
      PROVE  LocalInv'
  <2> DEFINE hops == client[c].hops
             conn == [Idle EXCEPT !.step = "asked", !.host = h, !.secure = secure, !.hops = Passed(c)]
  <2>1. hops \in Seq(Hosts) /\ Len(hops) \in Nat /\ DOMAIN hops = 1 .. Len(hops)
    BY <1>1, LenProperties DEF Connections
  <2>2. /\ Passed(c) \in Seq(Hosts) /\ Len(Passed(c)) = Len(hops) + 1
        /\ \A i \in 1 .. Len(hops) : Passed(c)[i] = hops[i]
        /\ Passed(c)[Len(hops) + 1] = client[c].host
    BY <1>1, <2>1, AppendProperties DEF Passed
  <2>3. DOMAIN Passed(c) = 1 .. Len(hops) + 1
    BY <2>2, LenProperties
  <2>4. \A i \in 1 .. Len(hops) : hops[i] # client[c].host
    BY <1>1, <1>3, ProxiedIs DEF Loop, Contains
  <2>5. \A i, j \in 1 .. Len(hops) : hops[i] = hops[j] => i = j
    BY <1>1, <2>1 DEF Sound
  <2>6. \A i, j \in DOMAIN Passed(c) : Passed(c)[i] = Passed(c)[j] => i = j
    <3> SUFFICES ASSUME NEW i \in 1 .. Len(hops) + 1, NEW j \in 1 .. Len(hops) + 1,
                        Passed(c)[i] = Passed(c)[j]
                 PROVE  i = j
      BY <2>3
    <3>1. i \in 1 .. Len(hops) \/ i = Len(hops) + 1
      BY <2>1
    <3>2. j \in 1 .. Len(hops) \/ j = Len(hops) + 1
      BY <2>1
    <3> QED BY <2>2, <2>4, <2>5, <3>1, <3>2
  <2>7. conn \in Connections
    BY <2>2, IdleIs DEF Connections
  <2>8. conn.step = "asked" /\ conn.host = h /\ conn.hops = Passed(c)
    BY DEF Idle
  <2>9. Becomes(c, conn)
    BY <1>3
  <2> HIDE DEF conn
  <2>10. Sound(conn, now)
    BY <2>6, <2>8 DEF Sound, Keyed, Flying
  <2>11. conn.step \notin Flying \cup {"wait"}
    BY <2>8 DEF Flying
  <2> QED BY <1>1, <2>7, <2>9, <2>10, <2>11, QuietMove
<1> QED BY <1>2, <1>3 DEF Respond

\* The routes change at any time; nothing that is kept depends on them.
LEMMA RoutesKept ==
    ASSUME LocalInv, NEW h \in Hosts, RouteChanges(h) \/ RouteTaken(h)
    PROVE  LocalInv'
<1>1. UNCHANGED <<cache, client, certVars>>
  BY DEF RouteChanges, RouteTaken
<1>2. owner \in [Hosts -> Routes \cup {NoRoute}] /\ owner[h] \in Routes \cup {NoRoute}
  BY DEF LocalInv, LocalTypeOK
<1>3. PICK r : owner' = [owner EXCEPT ![h] = r] /\ r \in Routes \cup {NoRoute}
  <2>1. CASE RouteTaken(h)
    <3>1. PICK id \in 1 .. MaxRoute :
             owner' = [owner EXCEPT ![h] = [id |-> id, state |-> "pending", expired |-> FALSE]]
      BY <2>1 DEF RouteTaken
    <3>2. [id |-> id, state |-> "pending", expired |-> FALSE] \in Routes
      BY DEF Routes
    <3> QED BY <3>1, <3>2
  <2>2. CASE RouteChanges(h)
    <3>1. PICK r \in NextRoutes(h) : owner' = [owner EXCEPT ![h] = r]
      BY <2>2 DEF RouteChanges
    <3>2. r \in Routes \cup {NoRoute}
      <4>1. CASE owner[h] = NoRoute
        BY <3>1, <4>1 DEF NextRoutes, NoRoute
      <4>2. CASE owner[h] \in Routes
        <5>1. /\ [owner[h] EXCEPT !.expired = TRUE] \in Routes
              /\ [owner[h] EXCEPT !.state = "active"] \in Routes
              /\ [owner[h] EXCEPT !.expired = FALSE] \in Routes
          BY <4>2 DEF Routes
        <5> QED BY <3>1, <5>1 DEF NextRoutes
      <4> QED BY <1>2, <4>1, <4>2
    <3> QED BY <3>1, <3>2
  <2> QED BY <2>1, <2>2
<1>6. owner' \in [Hosts -> Routes \cup {NoRoute}]
  BY <1>2, <1>3
<1>7. LocalTypeOK'
  BY <1>1, <1>6 DEF LocalInv, LocalTypeOK
<1>8. CertInv' /\ now' = now
  BY <1>1, StepCertInv DEF LocalInv, certVars
<1>9. CacheInv' /\ Flights'
  BY <1>1, <1>8 DEF LocalInv, CacheInv, Distinct, Flights, At, InFlight, Has
<1> QED BY <1>1, <1>7, <1>8, <1>9 DEF LocalInv

LEMMA SetupKept ==
    ASSUME LocalInv, NEW s \in Setups, SetupStep(s), UNCHANGED localVars
    PROVE  LocalInv'
<1>1. CertInv'
  BY StepCertInv DEF LocalInv, CertNext
<1>2. now' = now /\ owner' = owner /\ cache' = cache /\ client' = client
  BY DEF localVars, SetupStep, Lock, LockTimesOut, WriteCert, WriteKey, WritePrint, WriteFails,
         Trust, TrustFails
<1>3. CacheInv' /\ Flights' /\ LocalTypeOK'
  BY <1>2 DEF LocalInv, LocalTypeOK, CacheInv, Distinct, Flights, At, InFlight, Has
<1> QED BY <1>1, <1>2, <1>3 DEF LocalInv

\* The clock does not advance while a certificate is on its way.
LEMMA TickKept ==
    ASSUME LocalInv, LocalCalm, CertTick, UNCHANGED localVars
    PROVE  LocalInv'
<1>1. CertInv'
  BY StepCertInv DEF LocalInv, CertNext
<1>2. owner' = owner /\ cache' = cache /\ client' = client
  BY DEF localVars
<1>3. CacheInv' /\ LocalTypeOK'
  BY <1>2 DEF LocalInv, LocalTypeOK, CacheInv, Distinct
<1>4. \A c \in Clients : client[c].step \notin Flying \cup {"wait", "answer"}
  BY DEF LocalCalm, Flying
<1>5. Flights'
  BY <1>2, <1>4 DEF Flights, At, Flying
<1>6. ASSUME NEW c \in Clients PROVE Sound(client[c], now')
  <2>1. client[c].step \notin {"issued", "answer"} /\ Sound(client[c], now)
    BY <1>4 DEF LocalInv, Flying
  <2> QED BY <2>1 DEF Sound
<1> QED BY <1>1, <1>2, <1>3, <1>5, <1>6 DEF LocalInv

LEMMA InitLocalInv == CertInit /\ LocalInit => LocalInv
<1> SUFFICES ASSUME CertInit, LocalInit PROVE LocalInv
  OBVIOUS
<1>1. CertInv
  BY InitCertInv
<1>2. \A c \in Clients : client[c] = Idle
  BY DEF LocalInit
<1>3. LocalTypeOK
  BY IdleIs DEF LocalInit, LocalTypeOK
<1>4. CacheInv
  BY DEF LocalInit, CacheInv, Distinct
<1>5. Flights
  BY <1>2 DEF Flights, At, Idle, Flying
<1>6. \A c \in Clients : Sound(client[c], now)
  BY <1>2, IdleIs
<1> QED BY <1>1, <1>3, <1>4, <1>5, <1>6 DEF LocalInv

LEMMA HandshakeKept == ASSUME LocalInv, NEW c \in Clients, Handshake(c) PROVE LocalInv'
BY LoadKept, AuthorizeKept, LookupKept, JoinKept, LoadInFlightKept, LookAgainKept, IssueKept,
   KeepKept, AnswerKept DEF Handshake

LEMMA StepLocalInv == LocalInv /\ [LocalNext]_<<localVars, certVars>> => LocalInv'
<1> SUFFICES ASSUME LocalInv, [LocalNext]_<<localVars, certVars>> PROVE LocalInv'
  OBVIOUS
<1>1. CASE LocalCalm /\ CertTick /\ UNCHANGED localVars
  BY <1>1, TickKept
<1>2. CASE (\E s \in Setups : SetupStep(s)) /\ UNCHANGED localVars
  BY <1>2, SetupKept
<1>3. ASSUME NEW c \in Clients, Handshake(c) \/ HangUp(c) \/ Respond(c) PROVE LocalInv'
  BY <1>3, HandshakeKept, StartsKept, RespondKept
<1>4. ASSUME NEW c \in Clients, NEW h \in Hosts \cup {Localhost}, Hello(c, h) PROVE LocalInv'
  BY <1>4, StartsKept
<1>5. ASSUME NEW c \in Clients, NEW h \in Hosts, Ask(c, h) PROVE LocalInv'
  BY <1>5, StartsKept
<1>6. ASSUME NEW h \in Hosts, RouteChanges(h) \/ RouteTaken(h) PROVE LocalInv'
  BY <1>6, RoutesKept
<1>7. CASE UNCHANGED <<localVars, certVars>>
  <2>1. CertInv' /\ now' = now /\ owner' = owner /\ cache' = cache /\ client' = client
    BY <1>7, StepCertInv DEF LocalInv, localVars, certVars
  <2>2. CacheInv' /\ Flights' /\ LocalTypeOK'
    BY <2>1 DEF LocalInv, LocalTypeOK, CacheInv, Distinct, Flights, At, InFlight, Has
  <2> QED BY <2>1, <2>2 DEF LocalInv
<1> QED BY <1>1, <1>2, <1>3, <1>4, <1>5, <1>6, <1>7 DEF LocalNext

LEMMA LocalInvHolds == LocalSpec => []LocalInv
BY InitLocalInv, StepLocalInv, PTL DEF LocalSpec

\* Handshakes share one flight for a certificate: whoever waits for it, waits
\* for a connection that issues it, and nobody issues what somebody else is
\* issuing or what the cache has.
THEOREM FlightsShared == LocalSpec => []FlightShared
<1>1. ASSUME LocalInv PROVE FlightShared
  <2>1. ASSUME NEW c \in Clients, client[c].step \in {"issue", "issued"}
        PROVE  ~Hit(client[c].key)
    BY <1>1, <2>1, HitIs DEF LocalInv, Flights
  <2>2. ASSUME NEW c \in Clients, NEW d \in Clients \ {c}, client[c].step \in {"issue", "issued"},
               client[d].step \in {"flight", "issue", "issued"}
        PROVE  client[d].key # client[c].key
    BY <1>1, <2>2 DEF LocalInv, Flights, Flying
  <2> QED BY <1>1, <2>1, <2>2 DEF FlightShared, LocalInv, Flights
<1> QED BY <1>1, LocalInvHolds, PTL

\* No request passes a route twice, so that targets which pass requests on to
\* each other cannot keep one going.
THEOREM RequestsEnd == LocalSpec => []RequestsBounded
<1>1. ASSUME LocalInv PROVE RequestsBounded
  <2> SUFFICES ASSUME NEW c \in Clients PROVE Len(client[c].hops) <= Cardinality(Hosts)
    BY DEF RequestsBounded
  <2> DEFINE hops == client[c].hops
  <2>1. hops \in Seq(Hosts) /\ Sound(client[c], now)
    BY <1>1, ConnectionIs DEF Connections
  <2>2. Len(hops) \in Nat /\ hops \in [1 .. Len(hops) -> Hosts]
    BY <2>1, LenProperties
  <2>3. \A i, j \in DOMAIN hops : hops[i] = hops[j] => i = j
    BY <2>1 DEF Sound
  <2> HIDE DEF hops
  <2>4. hops \in Injection(1 .. Len(hops), Hosts)
    BY <2>2, <2>3 DEF Injection, IsInjective
  <2>5. Cardinality(1 .. Len(hops)) <= Cardinality(Hosts)
    BY <2>4, FS_Injection, LocalAssumption
  <2>6. Cardinality(1 .. Len(hops)) = Len(hops)
    BY <2>2, FS_Interval
  <2> QED BY <2>5, <2>6 DEF hops
<1> QED BY <1>1, LocalInvHolds, PTL

\* A handshake is given its certificate by the cache or at the end of a flight,
\* after the check that the route still has the host name.
Given(c) ==
    /\ Confirmed(c) /\ client[c].loaded # NoCA
    /\ \/ /\ At(c, "certificate") /\ Hit(client[c].key)
          /\ client'[c].leaf = Found(client[c].key)
       \/ At(c, "answer") /\ client'[c].leaf = client[c].leaf

LEMMA GivenThen ==
    ASSUME LocalInv, LocalNext, NEW c \in Clients,
           client[c].step # "verify", client'[c].step = "verify"
    PROVE  Given(c)
<1>0. DOMAIN client = Clients /\ \A d \in Clients : client[d] \in Connections
  BY ConnectionIs DEF LocalInv, LocalTypeOK
<1>1. ASSUME NEW d \in Clients, NEW conn, Becomes(d, conn)
      PROVE  d = c /\ client'[c] = conn /\ conn.step = "verify"
  BY <1>0, <1>1 DEF Becomes
<1>2. ASSUME NEW d \in Clients, NEW leaf, Lands(d, leaf) PROVE FALSE
  <2>1. client'[c] = IF c \notin Sharing(d) THEN client[c]
                     ELSE IF leaf = NoLeaf THEN Idle
                     ELSE [client[c] EXCEPT !.step = "answer", !.leaf = leaf, !.loaded = NoCA]
    BY <1>2 DEF Lands
  <2>2. client[c] \in Connections
    BY <1>0
  <2>3. CASE c \notin Sharing(d)
    BY <2>1, <2>3
  <2>4. CASE c \in Sharing(d) /\ leaf = NoLeaf
    BY <2>1, <2>4 DEF Idle
  <2>5. CASE c \in Sharing(d) /\ leaf # NoLeaf
    BY <2>1, <2>2, <2>5 DEF Connections
  <2> QED BY <2>3, <2>4, <2>5
<1>3. ~\E d \in Clients : Becomes(d, Idle)
  BY <1>1 DEF Idle
<1>4. ASSUME NEW d \in Clients, Goes(d, "verify") \/ Goes(d, "open") \/ Goes(d, "issue")
                                \/ Goes(d, "wait") \/ Goes(d, "flight")
      PROVE  d = c /\ Goes(c, "verify") /\ client'[c].leaf = client[c].leaf
  <2>1. ASSUME NEW step, Goes(d, step)
        PROVE  d = c /\ step = "verify" /\ client'[c].leaf = client[c].leaf
    <3>1. d = c /\ client'[c] = [client[d] EXCEPT !.step = step, !.loaded = NoCA]
      BY <1>1, <2>1 DEF Goes
    <3>2. client[d] \in Connections
      BY <1>0
    <3> QED BY <3>1, <3>2 DEF Connections
  <2> QED BY <1>4, <2>1
<1>5. ASSUME NEW d \in Clients, Load(d) \/ LoadInFlight(d) PROVE FALSE
  <2>1. Becomes(d, [client[d] EXCEPT !.loaded = files.cert])
    BY <1>2, <1>3, <1>5 DEF Load, LoadInFlight
  <2>2. d = c /\ client'[c] = [client[c] EXCEPT !.loaded = files.cert] /\ client[c] \in Connections
    BY <1>0, <1>1, <2>1
  <2> QED BY <2>2 DEF Connections
<1>6. ASSUME NEW d \in Clients, Authorize(d) PROVE FALSE
  <2>1. PICK key : Becomes(d, [client[d] EXCEPT !.step = "certificate", !.key = key, !.loaded = NoCA])
    BY <1>3, <1>6 DEF Authorize
  <2>2. /\ d = c /\ client[c] \in Connections
        /\ client'[c] = [client[c] EXCEPT !.step = "certificate", !.key = key, !.loaded = NoCA]
    BY <1>0, <1>1, <2>1
  <2> QED BY <2>2 DEF Connections
<1>7. ASSUME NEW d \in Clients, Lookup(d) PROVE Given(c)
  <2>1. Confirmed(d)
    BY <1>3, <1>7 DEF Lookup
  <2>2. Becomes(d, [client[d] EXCEPT !.leaf = Found(client[d].key), !.loaded = NoCA,
                        !.step = IF Hit(client[d].key) THEN "verify" ELSE "join"])
    BY <1>7, <2>1 DEF Lookup
  <2>3. /\ d = c /\ client[c] \in Connections
        /\ client'[c] = [client[c] EXCEPT !.leaf = Found(client[c].key), !.loaded = NoCA,
                            !.step = IF Hit(client[c].key) THEN "verify" ELSE "join"]
    BY <1>0, <1>1, <2>2
  <2>4. Hit(client[c].key) /\ client'[c].leaf = Found(client[c].key)
    BY <2>3 DEF Connections
  <2> QED BY <1>7, <2>1, <2>3, <2>4 DEF Given, Lookup, Loaded
<1>8. ASSUME NEW d \in Clients, Join(d) \/ LookAgain(d) \/ Keep(d) PROVE FALSE
  <2>1. Goes(d, "wait") \/ Goes(d, "flight") \/ Goes(d, "issue")
    BY <1>2, <1>8 DEF Join, LookAgain, Keep
  <2>2. d = c /\ client'[c].step \in {"wait", "flight", "issue"}
    <3>1. PICK step \in {"wait", "flight", "issue"} : Goes(d, step)
      BY <2>1
    <3>2. d = c /\ client'[c] = [client[d] EXCEPT !.step = step, !.loaded = NoCA]
      BY <1>1, <3>1 DEF Goes
    <3>3. client[d] \in Connections
      BY <1>0
    <3> QED BY <3>2, <3>3 DEF Connections
  <2> QED BY <2>2
<1>9. ASSUME NEW d \in Clients, Issue(d) PROVE FALSE
  <2>1. PICK leaf : Becomes(d, [client[d] EXCEPT !.step = "issued", !.leaf = leaf])
    BY <1>2, <1>9 DEF Issue
  <2>2. d = c /\ client[c] \in Connections /\ client'[c] = [client[c] EXCEPT !.step = "issued", !.leaf = leaf]
    BY <1>0, <1>1, <2>1
  <2> QED BY <2>2 DEF Connections
<1>10. ASSUME NEW d \in Clients, Answer(d) PROVE Given(c)
  <2>1. \/ Loaded(d, "answer") /\ Confirmed(d) /\ Goes(d, "verify")
        \/ Loaded(d, "verify") /\ Confirmed(d) /\ Goes(d, "open")
    BY <1>3, <1>10 DEF Answer
  <2>2. d = c /\ client'[c].leaf = client[c].leaf
    BY <1>4, <2>1
  <2> QED BY <2>1, <2>2 DEF Given, Loaded, At
<1>11. ASSUME NEW d \in Clients, NEW h, Hello(d, h) \/ Ask(d, h) PROVE FALSE
  <2>1. PICK step \in {"hello", "asked"}, secure \in BOOLEAN :
           Becomes(d, [Idle EXCEPT !.step = step, !.host = h, !.secure = secure])
    <3>1. Hello(d, h) => Becomes(d, [Idle EXCEPT !.step = "hello", !.host = h, !.secure = FALSE])
      BY DEF Hello, Becomes, Idle
    <3> QED BY <1>11, <3>1 DEF Ask, At
  <2>2. [Idle EXCEPT !.step = step, !.host = h, !.secure = secure].step = step
    BY DEF Idle
  <2> QED BY <1>1, <2>1, <2>2
<1>12. ASSUME NEW d \in Clients, HangUp(d) \/ Respond(d) PROVE FALSE
  <2>1. PICK h, secure, hops :
           Becomes(d, [Idle EXCEPT !.step = "asked", !.host = h, !.secure = secure, !.hops = hops])
    BY <1>3, <1>12 DEF HangUp, Respond
  <2>2. [Idle EXCEPT !.step = "asked", !.host = h, !.secure = secure, !.hops = hops].step = "asked"
    BY DEF Idle
  <2> QED BY <1>1, <2>1, <2>2
<1>13. client' # client
  BY <1>0
<1>14. PICK d \in Clients : \/ Handshake(d) \/ HangUp(d) \/ Respond(d)
                            \/ \E h : Hello(d, h) \/ Ask(d, h)
  BY <1>13 DEF LocalNext, localVars, RouteChanges, RouteTaken
<1> QED BY <1>5, <1>6, <1>7, <1>8, <1>9, <1>10, <1>11, <1>12, <1>14 DEF Handshake

\* A certificate that a handshake is given has not ended, and is for its host
\* name, its authority and the route that has the name at that moment, out of
\* the cache and out of the flight of another handshake alike.
THEOREM GivenRight == LocalSpec => HandshakeSound
<1> DEFINE Right(c) ==
      client[c].step # "verify" /\ client'[c].step = "verify" =>
        LET h == client[c].host  key == client'[c].leaf.key IN
          /\ now < client'[c].leaf.until
          /\ key.host = h /\ key.ca = client[c].key.ca
          /\ h # Localhost => Owned(h) /\ owner[h].id = key.id
<1>1. ASSUME LocalInv, LocalNext, NEW c \in Clients PROVE Right(c)
  <2> SUFFICES ASSUME client[c].step # "verify", client'[c].step = "verify"
               PROVE  LET h == client[c].host  key == client'[c].leaf.key IN
                        /\ now < client'[c].leaf.until
                        /\ key.host = h /\ key.ca = client[c].key.ca
                        /\ h # Localhost => Owned(h) /\ owner[h].id = key.id
    OBVIOUS
  <2> DEFINE key == client[c].key
             h == client[c].host
  <2>1. Given(c)
    BY <1>1, GivenThen
  <2>2. client[c] \in Connections /\ Sound(client[c], now) /\ now \in Nat /\ CacheInv
    BY <1>1, ConnectionIs, Clock DEF LocalInv
  <2>3. key \in Keys /\ key.host = h /\ h \in Hosts \cup {Localhost} /\ client[c].loaded \in CAs
    BY <2>1, <2>2 DEF Given, At, Sound, Keyed, Connections
  <2>4. Authorized(h, client[c].loaded) = key
    BY <2>1 DEF Given, Confirmed
  <2>5. key # NoKey
    BY <2>3, NoKeyIsNone
  <2>6. h # Localhost => Owned(h) /\ owner[h].id = key.id
    BY <1>1, <2>3, <2>4, <2>5, AuthorizedIs DEF LocalInv
  <2>7. now < client'[c].leaf.until /\ client'[c].leaf.key = key
    <3>1. CASE Hit(key) /\ client'[c].leaf = Found(key)
      BY <2>2, <3>1, FoundSound
    <3>2. CASE At(c, "answer") /\ client'[c].leaf = client[c].leaf
      BY <2>2, <3>2 DEF Sound, At
    <3> QED BY <2>1, <3>1, <3>2 DEF Given
  <2> QED BY <2>3, <2>6, <2>7
<1>2. ASSUME LocalInv, UNCHANGED <<localVars, certVars>>, NEW c \in Clients PROVE Right(c)
  BY <1>2 DEF localVars
<1> DEFINE AllRight == \A c \in Clients : Right(c)
<1>3. LocalInv /\ [LocalNext]_<<localVars, certVars>> => [AllRight]_<<localVars, certVars>>
  BY <1>1
<1> HIDE DEF AllRight
<1>4. LocalSpec => [][AllRight]_<<localVars, certVars>>
  BY <1>3, LocalInvHolds, PTL DEF LocalSpec
<1> QED BY <1>4 DEF HandshakeSound, AllRight

-----------------------------------------------------------------------------
(* The certificates of shares: the authority only gets newer.              *)

\* A setup that writes a new authority writes the newest.
Newest ==
    /\ files.cert <= made
    /\ \A s \in Setups : setup[s].step = "cert" => files.cert < setup[s].ca /\ setup[s].ca <= made

\* Certificates of the present authority or of earlier ones; those of the
\* present hour are the ones that end last.
KnownLeaves ==
    {leaf \in LANLeaves : leaf.ca <= files.cert /\ leaf.until <= LeafEnd(leaf.ca, LANLeafLife)}
NewLeaves ==
    {leaf \in KnownLeaves : leaf.until = LeafEnd(leaf.ca, LANLeafLife) /\ now < leaf.until}

\* What is due of the younger is due of the older.
Older(a, b) == a.ca < b.ca \/ (a.ca = b.ca /\ a.until <= b.until)

\* What no step within an hour undoes.
Ages ==
    /\ CertInv' /\ Newest'
    /\ now' = now /\ files.cert <= files'.cert
    /\ KnownLeaves \subseteq KnownLeaves' /\ NewLeaves \subseteq NewLeaves'

LEMMA LANBounds ==
    /\ MaxToken \in Nat /\ LANLeafLife \in Nat /\ LANLeafLife > 0
    /\ RotateBefore \in Nat /\ RotateBefore > 0
    /\ NoRef \notin Refs /\ NoName \notin Names
BY LANAssumption

LEMMA NewestInit == CertInit => Newest
BY Bounds DEF CertInit, Newest

\* The leaves of an authority that stays as it is.
LEMMA LeavesAge ==
    ASSUME CertInv, CertInv', now' = now, files.cert <= files'.cert,
           \A ca \in CAs : ca <= files.cert => ends'[ca] = ends[ca]
    PROVE  KnownLeaves \subseteq KnownLeaves' /\ NewLeaves \subseteq NewLeaves'
<1>1. /\ files.cert \in Int /\ files'.cert \in Int /\ now \in Nat /\ LANLeafLife \in Nat
      /\ \A ca \in CAs : ends[ca] \in Int /\ ca \in Int
  BY Bounds, LANBounds DEF CertInv, CertTypeOK, CAs, NoCA
<1>2. ASSUME NEW leaf \in KnownLeaves
      PROVE  /\ leaf.ca \in CAs /\ leaf \in LANLeaves
             /\ LeafEnd(leaf.ca, LANLeafLife)' = LeafEnd(leaf.ca, LANLeafLife)
             /\ leaf.ca <= files'.cert
  <2>1. leaf \in LANLeaves /\ leaf.ca \in CAs /\ leaf.ca <= files.cert
    BY DEF KnownLeaves, LANLeaves
  <2>2. ends'[leaf.ca] = ends[leaf.ca] /\ leaf.ca <= files'.cert
    BY <1>1, <2>1
  <2> QED BY <2>1, <2>2 DEF LeafEnd
<1>3. KnownLeaves \subseteq KnownLeaves'
  BY <1>2 DEF KnownLeaves
<1>4. NewLeaves \subseteq KnownLeaves
  BY DEF NewLeaves
<1> QED BY <1>2, <1>3, <1>4 DEF NewLeaves

LEMMA SetupAges ==
    ASSUME CertInv, Newest, NEW s \in Setups, SetupStep(s)
    PROVE  Ages
<1>1. CertInv'
  BY StepCertInv DEF CertNext
<1>2. /\ files.cert \in Int /\ made \in Int /\ setup[s].ca \in Int
      /\ setup \in [Setups -> [step : Steps, ca : CAs \cup {NoCA}]]
      /\ setup[s].step \in {"key", "print"} => files.cert = setup[s].ca
  BY Bounds DEF CertInv, CertTypeOK, CAs, NoCA, Progress
<1>3. now' = now
  BY DEF SetupStep, Lock, LockTimesOut, WriteCert, WriteKey, WritePrint, WriteFails, Trust,
         TrustFails
<1>4. \A ca \in CAs : ca <= files.cert => ends'[ca] = ends[ca]
  <2>1. CASE Lock(s)
    <3>1. ends' = ends \/ ends' = [ends EXCEPT ![made + 1] = now + CALife]
      BY <2>1 DEF Lock
    <3>2. \A ca \in CAs : ca \in Int /\ (ca <= files.cert => ca # made + 1)
      BY <1>2 DEF Newest, CAs
    <3> QED BY <3>1, <3>2 DEF CertInv, CertTypeOK
  <2>2. CASE ~Lock(s)
    BY <2>2
       DEF SetupStep, LockTimesOut, WriteCert, WriteKey, WritePrint, WriteFails, Trust, TrustFails
  <2> QED BY <2>1, <2>2
<1>5. files'.cert = files.cert \/ (setup[s].step = "cert" /\ files'.cert = setup[s].ca)
  <2>1. files \in [cert : CAs \cup {NoCA}, key : CAs \cup {NoCA}, print : CAs \cup {NoCA}]
    BY DEF CertInv, CertTypeOK
  <2>2. CASE WriteFails(s)
    <3>1. setup[s].step \in {"cert", "key", "print"} /\ files'.cert \in {files.cert, setup[s].ca}
      BY <2>1, <2>2 DEF WriteFails
    <3> QED BY <1>2, <3>1
  <2>3. CASE WriteCert(s)
    BY <2>1, <2>3 DEF WriteCert
  <2>4. CASE WriteKey(s) \/ WritePrint(s)
    BY <2>1, <2>4 DEF WriteKey, WritePrint
  <2>5. CASE files' = files
    BY <2>5
  <2> QED BY <2>2, <2>3, <2>4, <2>5 DEF SetupStep, Lock, LockTimesOut, Trust, TrustFails
<1>6. files.cert <= files'.cert
  BY <1>2, <1>5 DEF Newest
<1>7. Newest'
  <2>1. made' \in Int /\ made <= made' /\ files'.cert <= made'
    BY <1>2, <1>5 DEF Newest, SetupStep, Lock, LockTimesOut, WriteCert, WriteKey, WritePrint,
                      WriteFails, Trust, TrustFails
  <2>2. ASSUME NEW t \in Setups, setup'[t].step = "cert"
        PROVE  files'.cert < setup'[t].ca /\ setup'[t].ca <= made'
    <3>1. CASE Lock(s)
      <4>1. t = s
        <5> SUFFICES ASSUME t # s PROVE FALSE
          OBVIOUS
        <5>1. setup'[t] = setup[t] /\ holder = Nobody
          BY <1>2, <3>1 DEF Lock
        <5>2. AtWork(t)
          BY <2>2, <5>1 DEF AtWork, Writing
        <5> QED BY <5>1, <5>2, Alone, NobodyAssumption
      <4>2. made' = made + 1 /\ setup'[s].ca = made + 1 /\ files' = files
        BY <1>2, <2>2, <3>1, <4>1 DEF Lock
      <4> QED BY <1>2, <4>1, <4>2 DEF Newest
    <3>2. CASE ~Lock(s)
      <4>1. t # s /\ setup'[t] = setup[t] /\ made' = made
        BY <1>2, <2>2, <3>2 DEF SetupStep, LockTimesOut, WriteCert, WriteKey, WritePrint,
                                WriteFails, Trust, TrustFails, Moves
      <4>2. AtWork(t)
        BY <2>2, <4>1 DEF AtWork, Writing
      <4>3. setup[s].step # "cert"
        BY <4>1, <4>2, Alone DEF AtWork, Writing
      <4> QED BY <1>5, <2>2, <4>1, <4>3 DEF Newest
    <3> QED BY <3>1, <3>2
  <2> QED BY <2>1, <2>2 DEF Newest
<1> QED BY <1>1, <1>3, <1>4, <1>6, <1>7, LeavesAge DEF Ages

LEMMA NobodyAges ==
    ASSUME CertInv, Newest, UNCHANGED certVars
    PROVE  Ages /\ files' = files /\ KnownLeaves' = KnownLeaves /\ NewLeaves' = NewLeaves
           /\ Current' = Current
<1>1. CertInv'
  BY StepCertInv
<1>2. files' = files /\ ends' = ends /\ made' = made /\ now' = now /\ setup' = setup /\ holder' = holder
  BY DEF certVars
<1>3. Newest' /\ KnownLeaves' = KnownLeaves /\ Current' = Current
  BY <1>2 DEF Newest, KnownLeaves, LeafEnd, Current, Loadable, ValidCA
<1>4. NewLeaves' = NewLeaves
  BY <1>2, <1>3 DEF NewLeaves, LeafEnd
<1>5. files.cert \in Int
  BY DEF CertInv, CertTypeOK, CAs, NoCA
<1> QED BY <1>1, <1>2, <1>3, <1>4, <1>5 DEF Ages

\* A certificate of the present hour is the younger of two of an authority.
LEMMA NewIsYounger ==
    ASSUME CertInv, NEW old \in KnownLeaves, NEW leaf \in NewLeaves, old.ca <= leaf.ca
    PROVE  Older(old, leaf)
<1>1. leaf \in LANLeaves /\ old \in LANLeaves /\ leaf.until = LeafEnd(leaf.ca, LANLeafLife)
      /\ old.until <= LeafEnd(old.ca, LANLeafLife)
  BY DEF KnownLeaves, NewLeaves
<1>2. old.ca \in Int /\ leaf.ca \in Int
  BY <1>1 DEF LANLeaves, CAs
<1> QED BY <1>1, <1>2 DEF Older

\* What a certificate issued now is.
LEMMA IssuedIs ==
    ASSUME CertInv, Loadable, NEW name \in Names
    PROVE  /\ Current = files.cert /\ Current \in CAs
           /\ LANIssued(name) \in NewLeaves
           /\ LANIssued(name).name = name /\ LANIssued(name).ca = files.cert
           /\ \A old \in KnownLeaves : Older(old, LANIssued(name))
<1>1. Current = files.cert /\ Current \in CAs /\ now < ends[files.cert]
  BY DEF Loadable, ValidCA, Current, CertInv, CertTypeOK, NoCA
<1>2. now \in 0 .. MaxTime /\ ends[files.cert] \in Nat /\ MaxTime \in Nat
      /\ LANLeafLife \in Nat /\ LANLeafLife > 0
  BY <1>1, Bounds, LANBounds DEF CertInv, CertTypeOK
<1> DEFINE leaf == LANIssued(name)
<1>3. /\ leaf.name = name /\ leaf.ca = files.cert
      /\ leaf.until = LeafEnd(files.cert, LANLeafLife)
      /\ leaf = [name |-> leaf.name, ca |-> leaf.ca, until |-> leaf.until]
  BY <1>1 DEF LANIssued
<1>4. leaf.until \in 0 .. MaxTime + LANLeafLife /\ now < leaf.until
  BY <1>1, <1>2, <1>3 DEF LeafEnd
<1> HIDE DEF leaf
<1>5. leaf \in LANLeaves
  BY <1>1, <1>3, <1>4 DEF LANLeaves
<1>6. leaf \in NewLeaves
  BY <1>1, <1>3, <1>4, <1>5 DEF NewLeaves, KnownLeaves, CAs
<1>7. ASSUME NEW old \in KnownLeaves PROVE Older(old, leaf)
  <2>1. old.ca <= leaf.ca
    BY <1>3 DEF KnownLeaves
  <2> QED BY <1>6, <2>1, NewIsYounger
<1> QED BY <1>1, <1>3, <1>6, <1>7 DEF leaf

-----------------------------------------------------------------------------
(* Which certificates there are *)

BoundTo(n, r) == binding[n].ref = r

LeavesInv ==
    /\ \A n \in Names : binding[n] # Unbound => binding[n].leaf \in KnownLeaves /\ binding[n].leaf.name = n
    /\ \A r \in Refs : record[r] # NoLANLeaf => record[r] \in KnownLeaves

\* A round replaces an older certificate of the host name.
RoundInv ==
    /\ \A pair \in rotation.todo : pair[2] \in KnownLeaves
    /\ rotation.step \notin {"idle", "pick"} => rotation.ref \in Refs /\ rotation.old \in KnownLeaves
    /\ rotation.step \in {"trust", "replace", "record"} =>
         /\ rotation.leaf \in NewLeaves /\ rotation.leaf.name = rotation.old.name
         /\ Older(rotation.old, rotation.leaf)

PreparationInv ==
    /\ prepare.step # "idle" => prepare.ref \in Refs /\ prepare.name \in Names
    /\ prepare.step \notin {"idle", "issue"} =>
         prepare.leaf \in NewLeaves /\ prepare.leaf.name = prepare.name

\* What is bound by Prepare or by a round ends no sooner than what they issue.
BoundInv ==
    /\ prepare.step \in {"activate", "record"} /\ BoundTo(prepare.name, prepare.ref) =>
         binding[prepare.name].leaf \in NewLeaves
    /\ prepare.step = "record" => share[prepare.ref].name \in {prepare.name, NoName}
    /\ rotation.step = "record" /\ BoundTo(rotation.old.name, rotation.ref) =>
         binding[rotation.old.name].leaf \in NewLeaves

\* The share's own host name: its certificate is recorded, but while Remove
\* or Prepare are at it.
Excused(r, n) ==
    \/ removal[r].step = "unbind"
    \/ prepare.step \in {"activate", "record"} /\ prepare.ref = r /\ prepare.name = n
Recorded(r, n) ==
    /\ record[r].name = n
    /\ binding[n].leaf.ca < files.cert \/ Older(record[r], binding[n].leaf)
CoveredInv ==
    \A r \in Refs, n \in Names :
        share[r].name = n /\ BoundTo(n, r) => Excused(r, n) \/ Recorded(r, n)

\* A certificate of the present authority has not ended.
LiveInv ==
    \A r \in Refs, n \in Names :
        share[r].name = n /\ BoundTo(n, r) /\ binding[n].leaf.ca = files.cert => now < binding[n].leaf.until

\* Nor has one of the authority that a handshake has just seen.
Ended(w) ==
    /\ BoundTo(w.name, w.ref)
    /\ binding[w.name].leaf.ca = w.ca
    /\ ~(now < binding[w.name].leaf.until)
VisitSafe(w) ==
    /\ w.step # "idle" => w.name \in Names /\ w.ref \in Refs
    /\ w.checked # "nothing" => w.step # "idle" /\ w.ca <= files.cert
    /\ w.checked = "authority" /\ share[w.ref].name = w.name => ~Ended(w)
    /\ w.checked = "share" => ~Ended(w)
VisitInv == \A v \in Visitors : VisitSafe(visitor[v])

LANInv ==
    /\ CertInv /\ Newest /\ LANTypeOK
    /\ LeavesInv /\ RoundInv /\ PreparationInv /\ BoundInv /\ CoveredInv /\ LiveInv /\ VisitInv

\* What clearing, drawing and unbinding keep.
LEMMA ClearedTyped ==
    ASSUME LANTypeOK, NEW S
    PROVE  Cleared(S) \in [Tokens -> CAs \cup {NoCA}]
BY DEF LANTypeOK, Cleared

LEMMA DrawsTyped ==
    ASSUME LANTypeOK, NEW ca \in CAs, Draws(ca)
    PROVE  /\ drawn' \in 0 .. MaxToken /\ drawn + 1 \in Tokens
           /\ session' \in [Tokens -> CAs \cup {NoCA}]
BY LANBounds DEF LANTypeOK, Draws, Tokens

LEMMA UnbindsTyped ==
    ASSUME LANTypeOK, NEW n, NEW r
    PROVE  Unbinds(n, r) \in [Names -> [ref : Refs, leaf : LANLeaves] \cup {Unbound}]
BY DEF LANTypeOK, Unbinds

LEMMA PassesTyped == ASSUME LANTypeOK, Passes PROVE rotation' \in Rotations
BY DEF LANTypeOK, Rotations, Passes, NotRotating, NoRef, NoToken, NoLANLeaf

LEMMA NotTyped ==
    /\ NotPreparing \in Preparations
    /\ Away \in Visits
    /\ NotRemoving \in [step : {"idle", "unbind", "unshare"}, token : Tokens \cup {NoToken}]
BY DEF NotPreparing, Preparations, Away, Visits, NotRemoving

LEMMA NewTyped ==
    /\ \A leaf \in NewLeaves : leaf \in LANLeaves /\ leaf.ca \in CAs /\ leaf \in KnownLeaves
    /\ \A leaf \in KnownLeaves : leaf \in LANLeaves /\ leaf # NoLANLeaf /\ leaf.name \in Names /\ leaf.ca \in CAs
                                 /\ leaf.ca <= files.cert
BY DEF NewLeaves, KnownLeaves, LANLeaves, NoLANLeaf, CAs, NoCA

\* The invariant, and what the steps of the local network leave alone.
LEMMA LANQuiet ==
    ASSUME LANInv, UNCHANGED certVars
    PROVE  /\ CertInv /\ LANTypeOK /\ LeavesInv /\ RoundInv /\ PreparationInv /\ BoundInv
           /\ CoveredInv /\ LiveInv /\ VisitInv
           /\ CertInv' /\ Newest'
           /\ now' = now /\ files' = files /\ files.cert \in Int /\ Current' = Current
           /\ KnownLeaves' = KnownLeaves /\ NewLeaves' = NewLeaves
<1>1. Ages /\ files' = files /\ KnownLeaves' = KnownLeaves /\ NewLeaves' = NewLeaves /\ Current' = Current
  BY NobodyAges DEF LANInv
<1>2. files.cert \in Int
  BY DEF LANInv, CertInv, CertTypeOK, CAs, NoCA
<1> QED BY <1>1, <1>2 DEF LANInv, Ages

\* A certificate of the present hour has not ended.
LEMMA NewLives == \A leaf \in NewLeaves : now < leaf.until
BY DEF NewLeaves

LEMMA BindingIs ==
    ASSUME LANInv, NEW n \in Names, NEW r \in Refs, BoundTo(n, r)
    PROVE  /\ binding[n] \in [ref : Refs, leaf : LANLeaves]
           /\ binding[n].leaf \in KnownLeaves /\ binding[n].leaf.name = n
<1>1. binding[n] # Unbound
  BY LANBounds DEF BoundTo, Unbound
<1> QED BY <1>1 DEF LANInv, LANTypeOK, LeavesInv

LEMMA CoveredIs ==
    ASSUME LANInv, NEW n \in Names, NEW r \in Refs, share[r].name = n, BoundTo(n, r), ~Excused(r, n)
    PROVE  Recorded(r, n)
BY DEF LANInv, CoveredInv

\* A host name keeps its certificate, loses it, or has a new one; and a host
\* name that a share takes has a new one.
BindsNew == \A n \in Names : \/ binding'[n] = binding[n] \/ binding'[n] = Unbound
                             \/ binding'[n].leaf \in NewLeaves
NamesBound == \A r \in Refs, n \in Names :
    share'[r].name = n /\ binding'[n].ref = r => share[r].name = n \/ binding'[n].leaf \in NewLeaves

\* Such a step keeps what handshakes rely on within the hour.
LEMMA HourKept ==
    ASSUME LANInv, UNCHANGED certVars, BindsNew, NamesBound
    PROVE  LiveInv' /\ (visitor' = visitor => VisitInv')
<1>1. now' = now /\ files' = files
  BY LANQuiet
<1>2. ASSUME NEW r \in Refs, NEW n \in Names, share'[r].name = n, binding'[n].ref = r,
             binding'[n].leaf.ca = files'.cert
      PROVE  now' < binding'[n].leaf.until
  <2>1. CASE binding'[n].leaf \in NewLeaves
    BY <1>1, <2>1, NewLives
  <2>2. CASE ~(binding'[n].leaf \in NewLeaves)
    <3>1. binding'[n] = binding[n] /\ share[r].name = n
      BY <1>2, <2>2, LANBounds DEF BindsNew, NamesBound, Unbound
    <3> QED BY <1>1, <1>2, <3>1 DEF LANInv, LiveInv, BoundTo
  <2> QED BY <2>1, <2>2
<1>3. LiveInv'
  BY <1>2 DEF LiveInv, BoundTo
<1>4. ASSUME NEW w, w.name \in Names, w.ref \in Refs, Ended(w)'
      PROVE  Ended(w) /\ (share'[w.ref].name = w.name => share[w.ref].name = w.name)
  <2>1. binding'[w.name].ref = w.ref /\ ~(now < binding'[w.name].leaf.until)
    BY <1>1, <1>4 DEF Ended, BoundTo
  <2>2. ~(binding'[w.name].leaf \in NewLeaves)
    BY <2>1, NewLives
  <2>3. binding'[w.name] = binding[w.name]
    BY <1>4, <2>1, <2>2, LANBounds DEF BindsNew, Unbound
  <2>4. share'[w.ref].name = w.name => share[w.ref].name = w.name
    BY <1>4, <2>1, <2>2 DEF NamesBound
  <2> QED BY <1>1, <1>4, <2>3, <2>4 DEF Ended, BoundTo
<1>5. ASSUME NEW w, VisitSafe(w) PROVE VisitSafe(w)'
  BY <1>1, <1>4, <1>5 DEF VisitSafe
<1>6. visitor' = visitor => VisitInv'
  BY <1>5 DEF LANInv, VisitInv
<1> QED BY <1>3, <1>6

\* A visitor goes on, and nothing else changes.
LEMMA VisitorMoves ==
    ASSUME LANInv, UNCHANGED certVars, binding' = binding, share' = share, NEW v \in Visitors, NEW w,
           visitor' = [visitor EXCEPT ![v] = w], VisitSafe(w)
    PROVE  VisitInv'
<1>1. now' = now /\ files' = files
  BY LANQuiet
<1>2. \A x : VisitSafe(x) => VisitSafe(x)'
  BY <1>1 DEF VisitSafe, Ended, BoundTo
<1>3. \A u \in Visitors : visitor'[u] = visitor[u] \/ visitor'[u] = w
  BY DEF LANInv, LANTypeOK
<1> QED BY <1>2, <1>3 DEF LANInv, VisitInv

LEMMA AwaySafe == VisitSafe(Away)
BY DEF VisitSafe, Away

-----------------------------------------------------------------------------
(* Every step keeps LANInv: first those of Prepare, then those of a round, *)
(* of shares and their removal, and of devices.                            *)

LEMMA PrepareStartsKept ==
    ASSUME LANInv, NEW r \in Refs, NEW n \in Names, PrepareStarts(r, n)
    PROVE  LANInv'
<1>1. UNCHANGED certVars
  BY DEF PrepareStarts
<1>2. LANTypeOK
  BY DEF LANInv
<1>3. LANTypeOK'
  <2>1. prepare' \in Preparations
    BY <1>1, LANQuiet, NewTyped, NotTyped, DrawsTyped
       DEF LANTypeOK, PreparationInv, NotPreparing, PrepareStarts, Preparations
  <2>2. crossed' \in BOOLEAN
    BY <1>2 DEF LANTypeOK, PrepareStarts, managed, trustVars
  <2> QED BY <1>2, <2>1, <2>2 DEF LANTypeOK, PrepareStarts, managed, trustVars
<1>4. LeavesInv'
  BY <1>1, LANQuiet, NewTyped
     DEF PrepareStarts, managed, trustVars, LeavesInv, LANTypeOK, PreparationInv, RoundInv,
         Unbound, NoLANLeaf
<1>5. RoundInv'
  BY <1>1, LANQuiet, NewTyped
     DEF PrepareStarts, managed, trustVars, RoundInv, NotRotating, LANTypeOK, Rotations
<1>6. PreparationInv'
  BY <1>1, LANQuiet, NewTyped, LANBounds
     DEF PrepareStarts, managed, trustVars, PreparationInv, NotPreparing, LANTypeOK, Preparations
<1>7. BoundInv'
  BY <1>1, LANQuiet, NewTyped, LANBounds
     DEF PrepareStarts, managed, trustVars, BoundInv, BoundTo, PreparationInv, RoundInv,
         LANTypeOK, Preparations, Rotations, NotPreparing, NotRotating
<1>8. CoveredInv'
  BY <1>1, LANQuiet, NewTyped, LANBounds
     DEF PrepareStarts, managed, trustVars, CoveredInv, BoundTo, Excused, Recorded, LANTypeOK,
         NoName, NoRef
<1>9. LiveInv'
  BY <1>1, LANQuiet, NewTyped DEF PrepareStarts, managed, trustVars, LiveInv, BoundTo, LANTypeOK
<1>10. VisitInv'
  BY <1>1, LANQuiet, NewTyped
     DEF PrepareStarts, managed, trustVars, VisitInv, VisitSafe, Ended, BoundTo, LANTypeOK
<1> QED BY <1>1, <1>3, <1>4, <1>5, <1>6, <1>7, <1>8, <1>9, <1>10, LANQuiet DEF LANInv

LEMMA PrepareIssuesKept ==
    ASSUME LANInv, PrepareIssues
    PROVE  LANInv'
<1>1. UNCHANGED certVars
  BY DEF PrepareIssues
<1>2. LANTypeOK
  BY DEF LANInv
<1>3. LANTypeOK'
  <2>1. prepare' \in Preparations
    BY <1>1, LANQuiet, NewTyped, NotTyped, DrawsTyped, IssuedIs
       DEF LANTypeOK, PreparationInv, NotPreparing, PrepareIssues, Preparations
  <2> QED BY <1>2, <2>1 DEF LANTypeOK, PrepareIssues, managed, trustVars
<1>4. LeavesInv'
  BY <1>1, LANQuiet, NewTyped, IssuedIs
     DEF PrepareIssues, managed, trustVars, LeavesInv, LANTypeOK, PreparationInv, RoundInv,
         Unbound, NoLANLeaf
<1>5. RoundInv'
  BY <1>1, LANQuiet, NewTyped, IssuedIs
     DEF PrepareIssues, managed, trustVars, RoundInv, NotRotating, LANTypeOK, Rotations
<1>6. PreparationInv'
  BY <1>1, LANQuiet, NewTyped, IssuedIs, LANBounds
     DEF PrepareIssues, managed, trustVars, PreparationInv, NotPreparing, LANTypeOK, Preparations
<1>7. BoundInv'
  BY <1>1, LANQuiet, NewTyped, IssuedIs, LANBounds
     DEF PrepareIssues, managed, trustVars, BoundInv, BoundTo, PreparationInv, RoundInv,
         LANTypeOK, Preparations, Rotations, NotPreparing, NotRotating
<1>8. CoveredInv'
  BY <1>1, LANQuiet, NewTyped, IssuedIs, LANBounds
     DEF PrepareIssues, managed, trustVars, CoveredInv, BoundTo, Excused, Recorded, LANTypeOK,
         NoName, NoRef
<1>9. LiveInv'
  BY <1>1, LANQuiet, NewTyped, IssuedIs
     DEF PrepareIssues, managed, trustVars, LiveInv, BoundTo, LANTypeOK
<1>10. VisitInv'
  BY <1>1, LANQuiet, NewTyped, IssuedIs
     DEF PrepareIssues, managed, trustVars, VisitInv, VisitSafe, Ended, BoundTo, LANTypeOK
<1> QED BY <1>1, <1>3, <1>4, <1>5, <1>6, <1>7, <1>8, <1>9, <1>10, LANQuiet DEF LANInv

LEMMA PrepareTrustsKept ==
    ASSUME LANInv, PrepareTrusts
    PROVE  LANInv'
<1>1. UNCHANGED certVars
  BY DEF PrepareTrusts
<1>2. LANTypeOK
  BY DEF LANInv
<1>3. LANTypeOK'
  <2>1. prepare' \in Preparations
    BY <1>1, LANQuiet, NewTyped, NotTyped, DrawsTyped
       DEF LANTypeOK, PreparationInv, NotPreparing, PreparationInv, PrepareTrusts, Preparations
  <2>2. drawn' \in 0 .. MaxToken
    BY <1>1, LANQuiet, NewTyped, DrawsTyped DEF LANTypeOK, PreparationInv, PrepareTrusts
  <2>3. session' \in [Tokens -> CAs \cup {NoCA}]
    BY <1>1, LANQuiet, NewTyped, ClearedTyped, DrawsTyped
       DEF LANTypeOK, PreparationInv, PrepareTrusts
  <2> QED BY <1>2, <2>1, <2>2, <2>3 DEF LANTypeOK, PrepareTrusts, managed, trustVars
<1>4. LeavesInv'
  BY <1>1, LANQuiet, NewTyped
     DEF PrepareTrusts, managed, trustVars, LeavesInv, LANTypeOK, PreparationInv, RoundInv,
         Unbound, NoLANLeaf
<1>5. RoundInv'
  BY <1>1, LANQuiet, NewTyped
     DEF PrepareTrusts, managed, trustVars, RoundInv, NotRotating, LANTypeOK, Rotations
<1>6. PreparationInv'
  <2>1. PICK tok : \/ prepare' = NotPreparing
                   \/ prepare' = [prepare EXCEPT !.step = "register", !.token = tok]
    BY DEF PrepareTrusts
  <2>2. prepare.step = "trust" /\ prepare \in Preparations
    BY <1>2 DEF PrepareTrusts, LANTypeOK
  <2>3. \/ prepare'.step = "idle"
        \/ /\ prepare'.step = "register"
           /\ prepare'.ref = prepare.ref /\ prepare'.name = prepare.name /\ prepare'.leaf = prepare.leaf
    <3>1. CASE prepare' = NotPreparing
      BY <3>1 DEF NotPreparing
    <3>2. CASE prepare' = [prepare EXCEPT !.step = "register", !.token = tok]
      BY <2>2, <3>2 DEF Preparations
    <3> QED BY <2>1, <3>1, <3>2
  <2> QED BY <1>1, <2>2, <2>3, LANQuiet DEF PreparationInv
<1>7. BoundInv'
  <2>1. PICK tok : \/ prepare' = NotPreparing
                   \/ prepare' = [prepare EXCEPT !.step = "register", !.token = tok]
    BY DEF PrepareTrusts
  <2>2. prepare.step = "trust" /\ prepare \in Preparations
    BY <1>2 DEF PrepareTrusts, LANTypeOK
  <2>3. \/ prepare'.step = "idle"
        \/ /\ prepare'.step = "register"
           /\ prepare'.ref = prepare.ref /\ prepare'.name = prepare.name /\ prepare'.leaf = prepare.leaf
    <3>1. CASE prepare' = NotPreparing
      BY <3>1 DEF NotPreparing
    <3>2. CASE prepare' = [prepare EXCEPT !.step = "register", !.token = tok]
      BY <2>2, <3>2 DEF Preparations
    <3> QED BY <2>1, <3>1, <3>2
  <2>4. binding' = binding /\ rotation' = rotation
    BY DEF PrepareTrusts
  <2> QED BY <1>1, <2>3, <2>4, LANQuiet DEF BoundInv, BoundTo
<1>8. CoveredInv'
  BY <1>1, LANQuiet, NewTyped, LANBounds
     DEF PrepareTrusts, Draws, Validates, managed, trustVars, CoveredInv, BoundTo, Excused,
         Recorded, LANTypeOK, NoName, NoRef
<1>9. LiveInv'
  BY <1>1, LANQuiet, NewTyped DEF PrepareTrusts, managed, trustVars, LiveInv, BoundTo, LANTypeOK
<1>10. VisitInv'
  BY <1>1, LANQuiet, NewTyped
     DEF PrepareTrusts, managed, trustVars, VisitInv, VisitSafe, Ended, BoundTo, LANTypeOK
<1> QED BY <1>1, <1>3, <1>4, <1>5, <1>6, <1>7, <1>8, <1>9, <1>10, LANQuiet DEF LANInv

LEMMA PrepareRegistersKept ==
    ASSUME LANInv, PrepareRegisters
    PROVE  LANInv'
<1>1. UNCHANGED certVars
  BY DEF PrepareRegisters
<1>2. LANTypeOK
  BY DEF LANInv
<1>3. LANTypeOK'
  <2>1. binding' \in [Names -> [ref : Refs, leaf : LANLeaves] \cup {Unbound}]
    BY <1>1, LANQuiet, NewTyped, UnbindsTyped
       DEF LANTypeOK, PreparationInv, RoundInv, PrepareRegisters
  <2>2. prepare' \in Preparations
    BY <1>1, LANQuiet, NewTyped, NotTyped, DrawsTyped
       DEF LANTypeOK, PreparationInv, NotPreparing, PrepareRegisters, Preparations
  <2>3. session' \in [Tokens -> CAs \cup {NoCA}]
    BY <1>1, LANQuiet, NewTyped, ClearedTyped, DrawsTyped DEF LANTypeOK, PrepareRegisters
  <2> QED BY <1>2, <2>1, <2>2, <2>3 DEF LANTypeOK, PrepareRegisters, managed, trustVars
<1>4. LeavesInv'
  BY <1>1, LANQuiet, NewTyped, LANBounds
     DEF PrepareRegisters, Cleared, managed, trustVars, LeavesInv, LANTypeOK, PreparationInv,
         RoundInv, Unbound, NoLANLeaf
<1>5. RoundInv'
  BY <1>1, LANQuiet, NewTyped
     DEF PrepareRegisters, managed, trustVars, RoundInv, NotRotating, LANTypeOK, Rotations
<1>6. PreparationInv'
  BY <1>1, LANQuiet, NewTyped, LANBounds
     DEF PrepareRegisters, Cleared, managed, trustVars, PreparationInv, NotPreparing, LANTypeOK,
         Preparations
<1>7. BoundInv'
  <2>1. /\ prepare.step = "register" /\ prepare.leaf \in NewLeaves /\ prepare.name \in Names
        /\ rotation' = rotation /\ prepare \in Preparations
    BY <1>1, LANQuiet DEF PrepareRegisters, PreparationInv, LANTypeOK
  <2>2. \A n \in Names : binding'[n] = binding[n] \/ binding'[n].leaf = prepare.leaf
    BY <1>2 DEF PrepareRegisters, LANTypeOK
  <2>3. rotation.step = "record" => rotation.old.name \in Names
    BY <1>1, LANQuiet, NewTyped DEF RoundInv
  <2>4. \/ prepare' = NotPreparing
        \/ prepare' = [prepare EXCEPT !.step = "activate"] /\ binding'[prepare.name].leaf = prepare.leaf
    BY <1>2, <2>1 DEF PrepareRegisters, LANTypeOK
  <2>5. prepare'.step # "record" /\ (prepare'.step = "activate" => prepare'.name = prepare.name)
        /\ (prepare'.step = "activate" => binding'[prepare.name].leaf = prepare.leaf)
    BY <2>1, <2>4 DEF NotPreparing, Preparations
  <2> QED BY <1>1, <2>1, <2>2, <2>3, <2>5, LANQuiet DEF BoundInv, BoundTo
<1>8. CoveredInv'
  <2> SUFFICES ASSUME NEW q \in Refs, NEW n \in Names,
                      share'[q].name = n, BoundTo(n, q)', ~Excused(q, n)'
               PROVE  Recorded(q, n)'
    BY DEF CoveredInv
  <2>1. prepare.step = "register" /\ share' = share /\ record' = record /\ removal' = removal
    BY DEF PrepareRegisters
  <2>2. CASE binding'[n] = binding[n]
    <3>1. ~Excused(q, n)
      BY <2>1 DEF Excused
    <3>2. Recorded(q, n)
      BY <2>1, <2>2, <3>1, CoveredIs DEF BoundTo
    <3> QED BY <1>1, <2>1, <2>2, <3>2, LANQuiet DEF Recorded, Older
  <2>3. CASE binding'[n] # binding[n]
    <3>1. n = prepare.name /\ q = prepare.ref
          /\ prepare' = [prepare EXCEPT !.step = "activate"]
      BY <1>2, <2>3 DEF PrepareRegisters, LANTypeOK, BoundTo
    <3>2. Excused(q, n)'
      BY <1>2, <3>1 DEF Excused, LANTypeOK, Preparations
    <3> QED BY <3>2
  <2> QED BY <2>2, <2>3
<1>9. LiveInv' /\ VisitInv'
  <2>1. prepare.leaf \in NewLeaves /\ prepare.name \in Names
    BY <1>1, LANQuiet DEF PreparationInv, PrepareRegisters
  <2>2. BindsNew
    BY <1>2, <2>1 DEF BindsNew, PrepareRegisters, LANTypeOK
  <2>3. NamesBound
    BY DEF NamesBound, PrepareRegisters
  <2> QED BY <1>1, <2>2, <2>3, HourKept DEF PrepareRegisters
<1> QED BY <1>1, <1>3, <1>4, <1>5, <1>6, <1>7, <1>8, <1>9, LANQuiet DEF LANInv

LEMMA PrepareActivatesKept ==
    ASSUME LANInv, PrepareActivates
    PROVE  LANInv'
<1>1. UNCHANGED certVars
  BY DEF PrepareActivates
<1>2. LANTypeOK
  BY DEF LANInv
<1>3. LANTypeOK'
  <2>1. share' \in [Refs -> [state : {"none", "requested", "active", "suspended"}, name : Names \cup {NoName}]]
    <3>1. share' = share \/ share' = [share EXCEPT ![prepare.ref] = [state |-> "active", name |-> prepare.name]]
      BY DEF PrepareActivates
    <3>2. prepare.step = "activate" /\ prepare.name \in Names
      BY LANQuiet, <1>1 DEF PrepareActivates, PreparationInv
    <3> QED BY <1>2, <3>1, <3>2 DEF LANTypeOK
  <2>2. prepare' \in Preparations
    BY <1>1, LANQuiet, NewTyped, NotTyped, DrawsTyped
       DEF LANTypeOK, PreparationInv, NotPreparing, PrepareActivates, Preparations
  <2>3. binding' \in [Names -> [ref : Refs, leaf : LANLeaves] \cup {Unbound}]
    BY <1>1, LANQuiet, NewTyped, UnbindsTyped
       DEF LANTypeOK, PreparationInv, RoundInv, PrepareActivates
  <2>4. session' \in [Tokens -> CAs \cup {NoCA}]
    BY <1>1, LANQuiet, NewTyped, ClearedTyped, DrawsTyped DEF LANTypeOK, PrepareActivates
  <2> QED BY <1>2, <2>1, <2>2, <2>3, <2>4 DEF LANTypeOK, PrepareActivates, managed, trustVars
<1>4. LeavesInv'
  BY <1>1, LANQuiet, NewTyped, LANBounds
     DEF PrepareActivates, Unbinds, Cleared, managed, trustVars, LeavesInv, LANTypeOK,
         PreparationInv, RoundInv, Unbound, NoLANLeaf
<1>5. RoundInv'
  BY <1>1, LANQuiet, NewTyped
     DEF PrepareActivates, managed, trustVars, RoundInv, NotRotating, LANTypeOK, Rotations
<1>6. PreparationInv'
  BY <1>1, LANQuiet, NewTyped, LANBounds
     DEF PrepareActivates, Unbinds, Cleared, managed, trustVars, PreparationInv, NotPreparing,
         LANTypeOK, Preparations
<1>7. BoundInv'
  <2>1. /\ prepare.step = "activate" /\ prepare.ref \in Refs /\ prepare.name \in Names
        /\ rotation' = rotation /\ prepare \in Preparations
    BY <1>1, LANQuiet DEF PrepareActivates, PreparationInv, LANTypeOK
  <2>2. \A n \in Names : binding'[n] = binding[n] \/ binding'[n] = Unbound
    BY <1>2 DEF PrepareActivates, Unbinds, LANTypeOK
  <2>3. rotation.step = "record" => rotation.old.name \in Names /\ rotation.ref \in Refs
    BY <1>1, LANQuiet, NewTyped DEF RoundInv
  <2>4. rotation.step = "record" /\ BoundTo(rotation.old.name, rotation.ref)' =>
            binding'[rotation.old.name].leaf \in NewLeaves
    BY <1>1, <2>1, <2>2, <2>3, LANQuiet, LANBounds DEF BoundInv, BoundTo, Unbound
  <2>5. CASE prepare' = [prepare EXCEPT !.step = "record"] /\ binding' = binding
             /\ share' = [share EXCEPT ![prepare.ref] = [state |-> "active", name |-> prepare.name]]
    <3>1. /\ prepare'.step = "record" /\ prepare'.name = prepare.name /\ prepare'.ref = prepare.ref
          /\ share'[prepare.ref].name = prepare.name
      BY <1>2, <2>1, <2>5 DEF Preparations, LANTypeOK
    <3> QED BY <1>1, <2>1, <2>4, <2>5, <3>1, LANQuiet DEF BoundInv, BoundTo
  <2>6. CASE prepare' = NotPreparing
    BY <1>1, <2>1, <2>4, <2>6, LANQuiet DEF BoundInv, BoundTo, NotPreparing
  <2> QED BY <2>5, <2>6 DEF PrepareActivates
<1>8. CoveredInv'
  <2> SUFFICES ASSUME NEW q \in Refs, NEW n \in Names,
                      share'[q].name = n, BoundTo(n, q)', ~Excused(q, n)'
               PROVE  Recorded(q, n)'
    BY DEF CoveredInv
  <2>1. prepare.step = "activate" /\ record' = record /\ removal' = removal /\ prepare \in Preparations
        /\ prepare.ref \in Refs /\ prepare.name \in Names
    BY <1>1, LANQuiet DEF PrepareActivates, PreparationInv, LANTypeOK
  <2>2. share[q].name = n /\ binding'[n] = binding[n] /\ ~Excused(q, n)
    <3>1. CASE binding' = binding /\ prepare' = [prepare EXCEPT !.step = "record"]
               /\ share' = [share EXCEPT ![prepare.ref] = [state |-> "active", name |-> prepare.name]]
      <4>1. ~(q = prepare.ref /\ n = prepare.name)
        BY <2>1, <3>1 DEF Excused, Preparations
      <4>2. q # prepare.ref
        BY <1>2, <2>1, <3>1, <4>1 DEF LANTypeOK
      <4> QED BY <1>2, <2>1, <3>1, <4>2 DEF Excused, LANTypeOK
    <3>2. CASE share' = share /\ binding' = Unbinds(prepare.name, prepare.ref)
      <4>1. binding'[n] = binding[n] /\ ~(q = prepare.ref /\ n = prepare.name)
        BY <1>2, <2>1, <3>2, LANBounds DEF Unbinds, LANTypeOK, BoundTo, Unbound
      <4> QED BY <2>1, <3>2, <4>1 DEF Excused
    <3> QED BY <3>1, <3>2 DEF PrepareActivates
  <2>3. Recorded(q, n)
    BY <2>2, CoveredIs DEF BoundTo
  <2> QED BY <1>1, <2>1, <2>2, <2>3, LANQuiet DEF Recorded
<1>9. LiveInv' /\ VisitInv'
  <2>1. prepare.step = "activate" /\ prepare.ref \in Refs /\ prepare.name \in Names
    BY <1>1, LANQuiet DEF PreparationInv, PrepareActivates
  <2>2. BindsNew
    BY <1>2 DEF BindsNew, PrepareActivates, Unbinds, LANTypeOK
  <2>3. NamesBound
    <3>1. CASE share' = share
      BY <3>1 DEF NamesBound
    <3>2. CASE /\ binding' = binding
               /\ share' = [share EXCEPT ![prepare.ref] = [state |-> "active", name |-> prepare.name]]
      BY <1>1, <1>2, <2>1, <3>2, LANQuiet DEF NamesBound, BoundInv, BoundTo, LANTypeOK
    <3> QED BY <3>1, <3>2 DEF PrepareActivates
  <2> QED BY <1>1, <2>2, <2>3, HourKept DEF PrepareActivates
<1> QED BY <1>1, <1>3, <1>4, <1>5, <1>6, <1>7, <1>8, <1>9, LANQuiet DEF LANInv

LEMMA PrepareRecordsKept ==
    ASSUME LANInv, PrepareRecords
    PROVE  LANInv'
<1>1. UNCHANGED certVars
  BY DEF PrepareRecords
<1>2. LANTypeOK
  BY DEF LANInv
<1>3. LANTypeOK'
  <2>1. token' \in [Refs -> Tokens \cup {NoToken}]
    BY <1>1, LANQuiet, NewTyped DEF LANTypeOK, Preparations, PreparationInv, PrepareRecords
  <2>2. record' \in [Refs -> LANLeaves \cup {NoLANLeaf}]
    BY <1>1, LANQuiet, NewTyped DEF LANTypeOK, Preparations, PreparationInv, PrepareRecords
  <2>3. prepare' \in Preparations
    BY <1>1, LANQuiet, NewTyped, NotTyped, DrawsTyped
       DEF LANTypeOK, Preparations, PreparationInv, PrepareRecords, Preparations
  <2> QED BY <1>2, <2>1, <2>2, <2>3 DEF LANTypeOK, PrepareRecords, managed, trustVars
<1>4. LeavesInv'
  BY <1>1, LANQuiet, NewTyped, LANBounds
     DEF PrepareRecords, managed, trustVars, LeavesInv, LANTypeOK, PreparationInv, RoundInv,
         Unbound, NoLANLeaf
<1>5. RoundInv'
  BY <1>1, LANQuiet, NewTyped
     DEF PrepareRecords, managed, trustVars, RoundInv, NotRotating, LANTypeOK, Rotations
<1>6. PreparationInv'
  BY <1>1, LANQuiet, NewTyped, LANBounds
     DEF PrepareRecords, managed, trustVars, PreparationInv, NotPreparing, LANTypeOK, Preparations
<1>7. BoundInv'
  BY <1>1, LANQuiet, NewTyped, LANBounds
     DEF PrepareRecords, managed, trustVars, BoundInv, BoundTo, PreparationInv, RoundInv,
         LANTypeOK, Preparations, Rotations, NotPreparing, NotRotating
<1>8. CoveredInv'
  <2> SUFFICES ASSUME NEW q \in Refs, NEW n \in Names,
                      share'[q].name = n, BoundTo(n, q)', ~Excused(q, n)'
               PROVE  Recorded(q, n)'
    BY DEF CoveredInv
  <2>1. /\ prepare.step = "record" /\ share' = share /\ binding' = binding /\ removal' = removal
        /\ record' = [record EXCEPT ![prepare.ref] = prepare.leaf] /\ prepare.ref \in Refs
        /\ prepare.leaf \in NewLeaves /\ prepare.leaf.name = prepare.name
    BY <1>1, LANQuiet DEF PrepareRecords, PreparationInv
  <2>2. CASE q # prepare.ref
    <3>1. ~Excused(q, n) /\ record'[q] = record[q]
      BY <1>2, <2>1, <2>2 DEF Excused, LANTypeOK
    <3>2. Recorded(q, n)
      BY <2>1, <3>1, CoveredIs DEF BoundTo
    <3> QED BY <1>1, <2>1, <3>1, <3>2, LANQuiet DEF Recorded
  <2>3. CASE q = prepare.ref
    <3>1. n = prepare.name /\ binding[n].leaf \in NewLeaves
      BY <1>1, <2>1, <2>3, LANQuiet, LANBounds DEF BoundInv, BoundTo
    <3>2. prepare.leaf.ca <= files.cert /\ prepare.leaf \in KnownLeaves
      BY <2>1, NewTyped
    <3>3. /\ binding[n].leaf.ca <= files.cert /\ binding[n].leaf.ca \in Int
          /\ files.cert \in Int /\ prepare.leaf.ca \in Int
      BY <1>1, <2>1, <3>1, NewTyped, LANQuiet DEF CAs
    <3>4. binding[n].leaf.ca < files.cert \/ prepare.leaf.ca <= binding[n].leaf.ca
      BY <3>2, <3>3
    <3>5. binding[n].leaf.ca < files.cert \/ Older(prepare.leaf, binding[n].leaf)
      BY <1>1, <3>1, <3>2, <3>4, NewIsYounger, LANQuiet
    <3>6. record'[q] = prepare.leaf
      BY <1>2, <2>1, <2>3 DEF LANTypeOK
    <3> QED BY <1>1, <2>1, <3>1, <3>5, <3>6, LANQuiet DEF Recorded
  <2> QED BY <2>2, <2>3
<1>9. LiveInv'
  BY <1>1, LANQuiet, NewTyped DEF PrepareRecords, managed, trustVars, LiveInv, BoundTo, LANTypeOK
<1>10. VisitInv'
  BY <1>1, LANQuiet, NewTyped
     DEF PrepareRecords, managed, trustVars, VisitInv, VisitSafe, Ended, BoundTo, LANTypeOK
<1> QED BY <1>1, <1>3, <1>4, <1>5, <1>6, <1>7, <1>8, <1>9, <1>10, LANQuiet DEF LANInv

LEMMA PrepareClearsKept ==
    ASSUME LANInv, PrepareClears
    PROVE  LANInv'
<1>1. UNCHANGED certVars
  BY DEF PrepareClears
<1>2. LANTypeOK
  BY DEF LANInv
<1>3. LANTypeOK'
  <2>1. session' \in [Tokens -> CAs \cup {NoCA}]
    BY <1>1, LANQuiet, NewTyped, ClearedTyped, DrawsTyped DEF LANTypeOK, PrepareClears
  <2>2. binding' \in [Names -> [ref : Refs, leaf : LANLeaves] \cup {Unbound}]
    BY <1>1, LANQuiet, NewTyped, UnbindsTyped DEF LANTypeOK, PreparationInv, RoundInv, PrepareClears
  <2>3. prepare' \in Preparations
    BY <1>1, LANQuiet, NewTyped, NotTyped, DrawsTyped
       DEF LANTypeOK, PreparationInv, NotPreparing, PrepareClears, Preparations
  <2> QED BY <1>2, <2>1, <2>2, <2>3 DEF LANTypeOK, PrepareClears, managed, trustVars
<1>4. LeavesInv'
  BY <1>1, LANQuiet, NewTyped, LANBounds
     DEF PrepareClears, Unbinds, Cleared, managed, trustVars, LeavesInv, LANTypeOK,
         PreparationInv, RoundInv, Unbound, NoLANLeaf
<1>5. RoundInv'
  BY <1>1, LANQuiet, NewTyped
     DEF PrepareClears, managed, trustVars, RoundInv, NotRotating, LANTypeOK, Rotations
<1>6. PreparationInv'
  BY <1>1, LANQuiet, NewTyped, LANBounds
     DEF PrepareClears, Unbinds, Cleared, managed, trustVars, PreparationInv, NotPreparing,
         LANTypeOK, Preparations
<1>7. BoundInv'
  <2>1. rotation' = rotation /\ prepare' = NotPreparing
    BY DEF PrepareClears
  <2>2. \A n \in Names : binding'[n] = binding[n] \/ binding'[n] = Unbound
    BY <1>2 DEF PrepareClears, Unbinds, LANTypeOK
  <2>3. rotation.step = "record" => rotation.old.name \in Names /\ rotation.ref \in Refs
    BY <1>1, LANQuiet, NewTyped DEF RoundInv
  <2> QED BY <1>1, <2>1, <2>2, <2>3, LANQuiet, LANBounds
             DEF BoundInv, BoundTo, Unbound, NotPreparing
<1>8. CoveredInv'
  <2> SUFFICES ASSUME NEW q \in Refs, NEW n \in Names,
                      share'[q].name = n, BoundTo(n, q)', ~Excused(q, n)'
               PROVE  Recorded(q, n)'
    BY DEF CoveredInv
  <2>1. prepare.step = "clear" /\ share' = share /\ record' = record /\ removal' = removal
    BY DEF PrepareClears
  <2>2. binding'[n] = binding[n] /\ ~Excused(q, n)
    BY <1>2, <2>1, LANBounds DEF PrepareClears, Unbinds, LANTypeOK, BoundTo, Unbound, Excused
  <2>3. Recorded(q, n)
    BY <2>1, <2>2, CoveredIs DEF BoundTo
  <2> QED BY <1>1, <2>1, <2>2, <2>3, LANQuiet DEF Recorded
<1>9. LiveInv' /\ VisitInv'
  <2>2. BindsNew
    BY <1>2 DEF BindsNew, PrepareClears, Unbinds, LANTypeOK
  <2>3. NamesBound
    BY DEF NamesBound, PrepareClears
  <2> QED BY <1>1, <2>2, <2>3, HourKept DEF PrepareClears
<1> QED BY <1>1, <1>3, <1>4, <1>5, <1>6, <1>7, <1>8, <1>9, LANQuiet DEF LANInv

LEMMA RotationStartsKept ==
    ASSUME LANInv, RotationStarts
    PROVE  LANInv'
<1>1. UNCHANGED certVars
  BY DEF RotationStarts
<1>2. LANTypeOK
  BY DEF LANInv
<1>3. LANTypeOK'
  <2>1. rotation' \in Rotations
    <3>1. \A r \in Refs : Due(record[r], Current) => record[r] \in LANLeaves
      BY <1>2 DEF LANTypeOK, Due
    <3>2. {<<r, record[r]>> : r \in {q \in Refs : Due(record[q], Current)}} \subseteq Refs \X LANLeaves
      BY <3>1
    <3>3. Current \in CAs \cup {NoCA}
      BY LANQuiet, <1>1 DEF Current, Loadable, ValidCA, CertInv, CertTypeOK
    <3> QED BY <3>2, <3>3 DEF RotationStarts, NotRotating, Rotations, NoRef, NoLANLeaf, NoToken
  <2>2. crossed' \in BOOLEAN
    BY <1>2 DEF LANTypeOK, RotationStarts, managed, trustVars
  <2> QED BY <1>2, <2>1, <2>2 DEF LANTypeOK, RotationStarts, managed, trustVars
<1>4. LeavesInv'
  BY <1>1, LANQuiet, NewTyped
     DEF RotationStarts, managed, trustVars, LeavesInv, LANTypeOK, PreparationInv, RoundInv,
         Unbound, NoLANLeaf
<1>5. RoundInv'
  <2>1. \A r \in Refs : Due(record[r], Current) => record[r] \in KnownLeaves
    BY <1>1, LANQuiet DEF LeavesInv, Due
  <2>2. /\ rotation'.step = "pick"
        /\ rotation'.todo = {<<r, record[r]>> : r \in {q \in Refs : Due(record[q], Current)}}
    BY DEF RotationStarts, NotRotating
  <2>3. \A pair \in rotation'.todo : pair[2] \in KnownLeaves
    BY <2>1, <2>2
  <2> QED BY <1>1, <2>2, <2>3, LANQuiet DEF RoundInv
<1>6. PreparationInv'
  BY <1>1, LANQuiet, NewTyped
     DEF RotationStarts, managed, trustVars, PreparationInv, NotPreparing, LANTypeOK, Preparations
<1>7. BoundInv'
  BY <1>1, LANQuiet, NewTyped, LANBounds
     DEF RotationStarts, managed, trustVars, BoundInv, BoundTo, PreparationInv, RoundInv,
         LANTypeOK, Preparations, Rotations, NotPreparing, NotRotating
<1>8. CoveredInv'
  BY <1>1, LANQuiet, NewTyped
     DEF RotationStarts, managed, trustVars, CoveredInv, BoundTo, Excused, Recorded, LANTypeOK,
         NoName, NoRef
<1>9. LiveInv'
  BY <1>1, LANQuiet, NewTyped DEF RotationStarts, managed, trustVars, LiveInv, BoundTo, LANTypeOK
<1>10. VisitInv'
  BY <1>1, LANQuiet, NewTyped
     DEF RotationStarts, managed, trustVars, VisitInv, VisitSafe, Ended, BoundTo, LANTypeOK
<1> QED BY <1>1, <1>3, <1>4, <1>5, <1>6, <1>7, <1>8, <1>9, <1>10, LANQuiet DEF LANInv

LEMMA RotationPicksKept ==
    ASSUME LANInv, NEW r \in Refs, NEW leaf, <<r, leaf>> \in rotation.todo, RotationPicks(r, leaf)
    PROVE  LANInv'
<1>1. UNCHANGED certVars
  BY DEF RotationPicks
<1>2. LANTypeOK
  BY DEF LANInv
<1>3. LANTypeOK'
  <2>1. rotation' \in Rotations
    BY <1>1, LANQuiet, NewTyped, PassesTyped, DrawsTyped
       DEF LANTypeOK, RoundInv, NotRotating, RotationPicks, Rotations
  <2>2. session' \in [Tokens -> CAs \cup {NoCA}]
    BY <1>1, LANQuiet, NewTyped, ClearedTyped, DrawsTyped DEF LANTypeOK, RotationPicks
  <2>3. token' \in [Refs -> Tokens \cup {NoToken}]
    BY <1>1, LANQuiet, NewTyped DEF LANTypeOK, RotationPicks
  <2> QED BY <1>2, <2>1, <2>2, <2>3 DEF LANTypeOK, RotationPicks, managed, trustVars
<1>4. LeavesInv'
  BY <1>1, LANQuiet, NewTyped
     DEF RotationPicks, managed, trustVars, LeavesInv, LANTypeOK, PreparationInv, RoundInv,
         Unbound, NoLANLeaf
<1>5. RoundInv'
  BY <1>1, LANQuiet, NewTyped, LANBounds
     DEF RotationPicks, Cleared, managed, trustVars, RoundInv, NotRotating, LANTypeOK, Rotations
<1>6. PreparationInv'
  BY <1>1, LANQuiet, NewTyped
     DEF RotationPicks, managed, trustVars, PreparationInv, NotPreparing, LANTypeOK, Preparations
<1>7. BoundInv'
  BY <1>1, LANQuiet, NewTyped, LANBounds
     DEF RotationPicks, Cleared, managed, trustVars, BoundInv, BoundTo, PreparationInv, RoundInv,
         LANTypeOK, Preparations, Rotations, NotPreparing, NotRotating
<1>8. CoveredInv'
  BY <1>1, LANQuiet, NewTyped
     DEF RotationPicks, managed, trustVars, CoveredInv, BoundTo, Excused, Recorded, LANTypeOK,
         NoName, NoRef
<1>9. LiveInv'
  BY <1>1, LANQuiet, NewTyped DEF RotationPicks, managed, trustVars, LiveInv, BoundTo, LANTypeOK
<1>10. VisitInv'
  BY <1>1, LANQuiet, NewTyped
     DEF RotationPicks, managed, trustVars, VisitInv, VisitSafe, Ended, BoundTo, LANTypeOK
<1> QED BY <1>1, <1>3, <1>4, <1>5, <1>6, <1>7, <1>8, <1>9, <1>10, LANQuiet DEF LANInv

LEMMA RotationIssuesKept ==
    ASSUME LANInv, RotationIssues
    PROVE  LANInv'
<1>1. UNCHANGED certVars
  BY DEF RotationIssues
<1>2. LANTypeOK
  BY DEF LANInv
<1>3. LANTypeOK'
  <2>1. rotation' \in Rotations
    <3>1. rotation.old \in KnownLeaves /\ rotation.old.name \in Names /\ rotation \in Rotations
      BY LANQuiet, <1>1, NewTyped DEF RoundInv, RotationIssues, LANTypeOK
    <3>2. Loadable => LANIssued(rotation.old.name) \in LANLeaves
      BY LANQuiet, <1>1, <3>1, IssuedIs, NewTyped
    <3>3. CASE Loadable
      BY <3>1, <3>2, <3>3 DEF RotationIssues, Rotations
    <3>4. CASE ~Loadable
      BY <1>2, <3>4, PassesTyped DEF RotationIssues
    <3> QED BY <3>3, <3>4
  <2> QED BY <1>2, <2>1 DEF LANTypeOK, RotationIssues, managed, trustVars
<1>4. LeavesInv'
  BY <1>1, LANQuiet, NewTyped, IssuedIs
     DEF RotationIssues, managed, trustVars, LeavesInv, LANTypeOK, PreparationInv, RoundInv,
         Unbound, NoLANLeaf
<1>5. RoundInv'
  <2>1. rotation.old \in KnownLeaves /\ rotation.old.name \in Names /\ rotation \in Rotations /\ RoundInv
    BY <1>1, LANQuiet, NewTyped DEF RoundInv, RotationIssues, LANTypeOK
  <2>2. CASE Loadable
    <3>1. /\ LANIssued(rotation.old.name) \in NewLeaves
          /\ LANIssued(rotation.old.name).name = rotation.old.name
          /\ Older(rotation.old, LANIssued(rotation.old.name))
      BY <1>1, <2>1, <2>2, LANQuiet, IssuedIs
    <3>2. rotation' = [rotation EXCEPT !.step = "trust", !.leaf = LANIssued(rotation.old.name)]
          /\ rotation.step = "issue"
      BY <2>2 DEF RotationIssues
    <3> QED BY <1>1, <2>1, <3>1, <3>2, LANQuiet DEF RoundInv, Rotations
  <2>3. CASE ~Loadable
    BY <1>1, <2>1, <2>3, LANQuiet DEF RoundInv, RotationIssues, Passes, NotRotating
  <2> QED BY <2>2, <2>3
<1>6. PreparationInv'
  BY <1>1, LANQuiet, NewTyped, IssuedIs
     DEF RotationIssues, managed, trustVars, PreparationInv, NotPreparing, LANTypeOK, Preparations
<1>7. BoundInv'
  <2>1. rotation'.step \in {"idle", "pick", "trust"} /\ prepare' = prepare /\ binding' = binding /\ share' = share
    BY <1>2 DEF RotationIssues, Passes, NotRotating, LANTypeOK, Rotations, managed
  <2> QED BY <1>1, <2>1, LANQuiet DEF BoundInv, BoundTo
<1>8. CoveredInv'
  BY <1>1, LANQuiet, NewTyped, IssuedIs
     DEF RotationIssues, managed, trustVars, CoveredInv, BoundTo, Excused, Recorded, LANTypeOK,
         NoName, NoRef
<1>9. LiveInv'
  BY <1>1, LANQuiet, NewTyped, IssuedIs
     DEF RotationIssues, managed, trustVars, LiveInv, BoundTo, LANTypeOK
<1>10. VisitInv'
  BY <1>1, LANQuiet, NewTyped, IssuedIs
     DEF RotationIssues, managed, trustVars, VisitInv, VisitSafe, Ended, BoundTo, LANTypeOK
<1> QED BY <1>1, <1>3, <1>4, <1>5, <1>6, <1>7, <1>8, <1>9, <1>10, LANQuiet DEF LANInv

LEMMA RotationTrustsKept ==
    ASSUME LANInv, RotationTrusts
    PROVE  LANInv'
<1>1. UNCHANGED certVars
  BY DEF RotationTrusts
<1>2. LANTypeOK
  BY DEF LANInv
<1>3. LANTypeOK'
  <2>1. rotation' \in Rotations
    BY <1>1, LANQuiet, NewTyped, PassesTyped, DrawsTyped
       DEF LANTypeOK, RoundInv, NotRotating, RoundInv, RotationTrusts, Rotations
  <2>2. drawn' \in 0 .. MaxToken
    BY <1>1, LANQuiet, NewTyped, DrawsTyped DEF LANTypeOK, RoundInv, RotationTrusts
  <2>3. session' \in [Tokens -> CAs \cup {NoCA}]
    BY <1>1, LANQuiet, NewTyped, ClearedTyped, DrawsTyped DEF LANTypeOK, RoundInv, RotationTrusts
  <2> QED BY <1>2, <2>1, <2>2, <2>3 DEF LANTypeOK, RotationTrusts, managed, trustVars
<1>4. LeavesInv'
  BY <1>1, LANQuiet, NewTyped
     DEF RotationTrusts, managed, trustVars, LeavesInv, LANTypeOK, PreparationInv, RoundInv,
         Unbound, NoLANLeaf
<1>5. RoundInv'
  BY <1>1, LANQuiet, NewTyped, LANBounds
     DEF RotationTrusts, Passes, Draws, Validates, managed, trustVars, RoundInv, NotRotating,
         LANTypeOK, Rotations
<1>6. PreparationInv'
  BY <1>1, LANQuiet, NewTyped
     DEF RotationTrusts, managed, trustVars, PreparationInv, NotPreparing, LANTypeOK, Preparations
<1>7. BoundInv'
  BY <1>1, LANQuiet, NewTyped, LANBounds
     DEF RotationTrusts, Passes, Draws, Validates, managed, trustVars, BoundInv, BoundTo,
         PreparationInv, RoundInv, LANTypeOK, Preparations, Rotations, NotPreparing, NotRotating
<1>8. CoveredInv'
  BY <1>1, LANQuiet, NewTyped
     DEF RotationTrusts, managed, trustVars, CoveredInv, BoundTo, Excused, Recorded, LANTypeOK,
         NoName, NoRef
<1>9. LiveInv'
  BY <1>1, LANQuiet, NewTyped DEF RotationTrusts, managed, trustVars, LiveInv, BoundTo, LANTypeOK
<1>10. VisitInv'
  BY <1>1, LANQuiet, NewTyped
     DEF RotationTrusts, managed, trustVars, VisitInv, VisitSafe, Ended, BoundTo, LANTypeOK
<1> QED BY <1>1, <1>3, <1>4, <1>5, <1>6, <1>7, <1>8, <1>9, <1>10, LANQuiet DEF LANInv

LEMMA RotationReplacesKept ==
    ASSUME LANInv, RotationReplaces
    PROVE  LANInv'
<1>1. UNCHANGED certVars
  BY DEF RotationReplaces
<1>2. LANTypeOK
  BY DEF LANInv
<1>3. LANTypeOK'
  <2>1. binding' \in [Names -> [ref : Refs, leaf : LANLeaves] \cup {Unbound}]
    <3>1. /\ rotation.leaf \in LANLeaves /\ rotation.ref \in Refs
          /\ rotation.old.name \in Names
      BY LANQuiet, <1>1, NewTyped DEF RoundInv, RotationReplaces
    <3>2. binding[rotation.old.name].ref = rotation.ref =>
            binding[rotation.old.name] \in [ref : Refs, leaf : LANLeaves]
      BY <3>1, BindingIs DEF BoundTo
    <3> QED BY <1>2, <3>1, <3>2 DEF LANTypeOK, RotationReplaces
  <2>2. rotation' \in Rotations
    BY <1>1, LANQuiet, NewTyped, PassesTyped, DrawsTyped
       DEF LANTypeOK, RoundInv, NotRotating, RotationReplaces, Rotations
  <2>3. session' \in [Tokens -> CAs \cup {NoCA}]
    BY <1>1, LANQuiet, NewTyped, ClearedTyped, DrawsTyped DEF LANTypeOK, RotationReplaces
  <2> QED BY <1>2, <2>1, <2>2, <2>3 DEF LANTypeOK, RotationReplaces, managed, trustVars
<1>4. LeavesInv'
  <2>1. rotation.leaf \in NewLeaves /\ rotation.leaf.name = rotation.old.name /\ rotation.old.name \in Names
    BY <1>1, LANQuiet, NewTyped DEF RoundInv, RotationReplaces
  <2>2. ASSUME NEW n \in Names, binding'[n] # Unbound
        PROVE  binding'[n].leaf \in KnownLeaves /\ binding'[n].leaf.name = n
    <3>1. CASE binding'[n] = binding[n]
      BY <1>1, <2>2, <3>1, LANQuiet DEF LeavesInv
    <3>2. CASE binding'[n] # binding[n]
      <4>1. n = rotation.old.name /\ binding'[n].leaf = rotation.leaf
        BY <1>2, <3>2 DEF RotationReplaces, LANTypeOK, Unbound
      <4> QED BY <2>1, <4>1, NewTyped
    <3> QED BY <3>1, <3>2
  <2>3. record' = record
    BY DEF RotationReplaces
  <2> QED BY <1>1, <2>2, <2>3, LANQuiet DEF LeavesInv
<1>5. RoundInv'
  BY <1>1, LANQuiet, NewTyped, LANBounds
     DEF RotationReplaces, Passes, Cleared, managed, trustVars, RoundInv, NotRotating, LANTypeOK,
         Rotations
<1>6. PreparationInv'
  BY <1>1, LANQuiet, NewTyped
     DEF RotationReplaces, managed, trustVars, PreparationInv, NotPreparing, LANTypeOK,
         Preparations
<1>7. BoundInv'
  <2>1. /\ prepare' = prepare /\ share' = share /\ rotation.leaf \in NewLeaves /\ rotation.old.name \in Names
        /\ rotation \in Rotations
    BY <1>1, LANQuiet, NewTyped DEF RotationReplaces, RoundInv, LANTypeOK
  <2>2. \A n \in Names :
           \/ binding'[n] = binding[n]
           \/ binding'[n].leaf = rotation.leaf /\ binding'[n].ref = binding[n].ref
    BY <1>2 DEF RotationReplaces, LANTypeOK, Unbound
  <2>3. prepare.step # "idle" => prepare.name \in Names
    BY <1>1, LANQuiet DEF PreparationInv
  <2>4. rotation'.step = "record" =>
           rotation'.old = rotation.old /\ binding'[rotation.old.name].leaf = rotation.leaf
    <3>1. CASE binding' = [binding EXCEPT ![rotation.old.name].leaf = rotation.leaf]
               /\ rotation' = [rotation EXCEPT !.step = "record"]
      <4>1. binding'[rotation.old.name].leaf = rotation.leaf
        BY <1>2, <2>1, <3>1 DEF LANTypeOK, Unbound
      <4> QED BY <2>1, <3>1, <4>1 DEF Rotations
    <3>2. CASE Passes
      BY <3>2 DEF Passes, NotRotating
    <3> QED BY <3>1, <3>2 DEF RotationReplaces
  <2>5. /\ prepare.step \in {"activate", "record"} /\ BoundTo(prepare.name, prepare.ref)' =>
             binding'[prepare.name].leaf \in NewLeaves
        /\ prepare.step = "record" => share[prepare.ref].name \in {prepare.name, NoName}
    BY <1>1, <2>1, <2>2, <2>3, LANQuiet DEF BoundInv, BoundTo
  <2> QED BY <1>1, <2>1, <2>4, <2>5, LANQuiet DEF BoundInv, BoundTo
<1>8. CoveredInv'
  <2> SUFFICES ASSUME NEW q \in Refs, NEW n \in Names,
                      share'[q].name = n, BoundTo(n, q)', ~Excused(q, n)'
               PROVE  Recorded(q, n)'
    BY DEF CoveredInv
  <2>1. share' = share /\ record' = record /\ removal' = removal /\ prepare' = prepare
        /\ rotation.leaf \in NewLeaves
    BY <1>1, LANQuiet DEF RotationReplaces, RoundInv
  <2>2. BoundTo(n, q) /\ ~Excused(q, n) /\ binding'[n].leaf \in {binding[n].leaf, rotation.leaf}
    <3>1. binding' = binding \/ binding' = [binding EXCEPT ![rotation.old.name].leaf = rotation.leaf]
      BY DEF RotationReplaces
    <3>2. binding[n] \in [ref : Refs, leaf : LANLeaves] \/ binding[n] = Unbound
      BY <1>2 DEF LANTypeOK
    <3>3. binding'[n].ref = binding[n].ref /\ binding'[n].leaf \in {binding[n].leaf, rotation.leaf}
      BY <1>2, <3>1, <3>2 DEF LANTypeOK, Unbound
    <3> QED BY <2>1, <3>3 DEF BoundTo, Excused
  <2>3. Recorded(q, n)
    BY <2>1, <2>2, CoveredIs
  <2>4. Older(record[q], rotation.leaf) \/ rotation.leaf.ca < files.cert
    <3>1. record[q] \in KnownLeaves
      BY <1>1, <2>3, LANQuiet, LANBounds DEF Recorded, LeavesInv, NoLANLeaf
    <3>2. /\ record[q].ca <= files.cert /\ rotation.leaf.ca <= files.cert
          /\ record[q].ca \in Int /\ rotation.leaf.ca \in Int /\ files.cert \in Int
      BY <1>1, <2>1, <3>1, NewTyped, LANQuiet DEF CAs
    <3>3. rotation.leaf.ca < files.cert \/ record[q].ca <= rotation.leaf.ca
      BY <3>2
    <3> QED BY <1>1, <2>1, <3>1, <3>3, NewIsYounger, LANQuiet
  <2> QED BY <1>1, <2>1, <2>2, <2>3, <2>4, LANQuiet DEF Recorded
<1>9. LiveInv' /\ VisitInv'
  <2>1. rotation.leaf \in NewLeaves
    BY <1>1, LANQuiet DEF RoundInv, RotationReplaces
  <2>2. BindsNew
    BY <1>2, <2>1 DEF BindsNew, RotationReplaces, LANTypeOK, Unbound
  <2>3. NamesBound
    BY DEF NamesBound, RotationReplaces
  <2> QED BY <1>1, <2>2, <2>3, HourKept DEF RotationReplaces
<1> QED BY <1>1, <1>3, <1>4, <1>5, <1>6, <1>7, <1>8, <1>9, LANQuiet DEF LANInv

LEMMA RotationRecordsKept ==
    ASSUME LANInv, RotationRecords
    PROVE  LANInv'
<1>1. UNCHANGED certVars
  BY DEF RotationRecords
<1>2. LANTypeOK
  BY DEF LANInv
<1>3. LANTypeOK'
  <2>1. record' \in [Refs -> LANLeaves \cup {NoLANLeaf}]
    BY <1>1, LANQuiet, NewTyped DEF LANTypeOK, Rotations, RoundInv, RotationRecords
  <2>2. token' \in [Refs -> Tokens \cup {NoToken}]
    BY <1>1, LANQuiet, NewTyped DEF LANTypeOK, Rotations, RoundInv, RotationRecords
  <2>3. session' \in [Tokens -> CAs \cup {NoCA}]
    BY <1>1, LANQuiet, NewTyped, ClearedTyped, DrawsTyped
       DEF LANTypeOK, Rotations, RoundInv, RotationRecords
  <2>4. rotation' \in Rotations
    BY <1>1, LANQuiet, NewTyped, PassesTyped, DrawsTyped
       DEF LANTypeOK, Rotations, RoundInv, RotationRecords, Rotations
  <2> QED BY <1>2, <2>1, <2>2, <2>3, <2>4 DEF LANTypeOK, RotationRecords, managed, trustVars
<1>4. LeavesInv'
  BY <1>1, LANQuiet, NewTyped, LANBounds
     DEF RotationRecords, Passes, Cleared, managed, trustVars, LeavesInv, LANTypeOK,
         PreparationInv, RoundInv, Unbound, NoLANLeaf
<1>5. RoundInv'
  BY <1>1, LANQuiet, NewTyped, LANBounds
     DEF RotationRecords, Passes, Cleared, managed, trustVars, RoundInv, NotRotating, LANTypeOK,
         Rotations
<1>6. PreparationInv'
  BY <1>1, LANQuiet, NewTyped
     DEF RotationRecords, managed, trustVars, PreparationInv, NotPreparing, LANTypeOK,
         Preparations
<1>7. BoundInv'
  BY <1>1, LANQuiet, NewTyped, LANBounds
     DEF RotationRecords, Passes, Cleared, managed, trustVars, BoundInv, BoundTo, PreparationInv,
         RoundInv, LANTypeOK, Preparations, Rotations, NotPreparing, NotRotating
<1>8. CoveredInv'
  <2> SUFFICES ASSUME NEW q \in Refs, NEW n \in Names,
                      share'[q].name = n, BoundTo(n, q)', ~Excused(q, n)'
               PROVE  Recorded(q, n)'
    BY DEF CoveredInv
  <2>1. /\ share' = share /\ binding' = binding /\ removal' = removal /\ prepare' = prepare
        /\ rotation.step = "record" /\ rotation.ref \in Refs
        /\ rotation.leaf \in NewLeaves /\ rotation.leaf.name = rotation.old.name
    BY <1>1, LANQuiet DEF RotationRecords, RoundInv
  <2>2. Recorded(q, n)
    BY <2>1, CoveredIs DEF BoundTo, Excused
  <2>3. CASE record'[q] = record[q]
    BY <1>1, <2>1, <2>2, <2>3, LANQuiet DEF Recorded
  <2>4. CASE record'[q] # record[q]
    <3>1. q = rotation.ref /\ record[q] = rotation.old /\ record'[q] = rotation.leaf
      BY <1>2, <2>1, <2>4 DEF RotationRecords, LANTypeOK
    <3>2. n = rotation.old.name /\ rotation.leaf.name = n
      BY <2>1, <2>2, <3>1 DEF Recorded
    <3>3. binding[n].leaf \in NewLeaves
      BY <1>1, <2>1, <3>1, <3>2, LANQuiet DEF BoundInv, BoundTo
    <3>4. /\ rotation.leaf.ca <= files.cert /\ binding[n].leaf.ca <= files.cert /\ rotation.leaf \in KnownLeaves
          /\ rotation.leaf.ca \in Int /\ binding[n].leaf.ca \in Int /\ files.cert \in Int
      BY <1>1, <2>1, <3>3, NewTyped, LANQuiet DEF CAs
    <3>5. binding[n].leaf.ca < files.cert \/ rotation.leaf.ca <= binding[n].leaf.ca
      BY <3>4
    <3>6. binding[n].leaf.ca < files.cert \/ Older(rotation.leaf, binding[n].leaf)
      BY <1>1, <3>3, <3>4, <3>5, NewIsYounger, LANQuiet
    <3> QED BY <1>1, <2>1, <3>1, <3>2, <3>6, LANQuiet DEF Recorded
  <2> QED BY <2>3, <2>4
<1>9. LiveInv'
  BY <1>1, LANQuiet, NewTyped DEF RotationRecords, managed, trustVars, LiveInv, BoundTo, LANTypeOK
<1>10. VisitInv'
  BY <1>1, LANQuiet, NewTyped
     DEF RotationRecords, managed, trustVars, VisitInv, VisitSafe, Ended, BoundTo, LANTypeOK
<1> QED BY <1>1, <1>3, <1>4, <1>5, <1>6, <1>7, <1>8, <1>9, <1>10, LANQuiet DEF LANInv

LEMMA RequestKept ==
    ASSUME LANInv, NEW r \in Refs, Request(r)
    PROVE  LANInv'
<1>1. UNCHANGED certVars
  BY DEF Request
<1>2. LANTypeOK
  BY DEF LANInv
<1>3. LANTypeOK'
  <2>1. share' \in [Refs -> [state : {"none", "requested", "active", "suspended"}, name : Names \cup {NoName}]]
    BY <1>2 DEF LANTypeOK, Request
  <2> QED BY <1>2, <2>1 DEF LANTypeOK, Request, managed, trustVars
<1>4. LeavesInv'
  BY <1>1, LANQuiet, NewTyped
     DEF Request, managed, trustVars, LeavesInv, LANTypeOK, PreparationInv, RoundInv, Unbound,
         NoLANLeaf
<1>5. RoundInv'
  BY <1>1, LANQuiet, NewTyped
     DEF Request, managed, trustVars, RoundInv, NotRotating, LANTypeOK, Rotations
<1>6. PreparationInv'
  BY <1>1, LANQuiet, NewTyped
     DEF Request, managed, trustVars, PreparationInv, NotPreparing, LANTypeOK, Preparations
<1>7. BoundInv'
  BY <1>1, LANQuiet, NewTyped, LANBounds
     DEF Request, managed, trustVars, BoundInv, BoundTo, PreparationInv, RoundInv, LANTypeOK,
         Preparations, Rotations, NotPreparing, NotRotating
<1>8. CoveredInv'
  BY <1>1, LANQuiet, NewTyped, LANBounds
     DEF Request, managed, trustVars, CoveredInv, BoundTo, Excused, Recorded, LANTypeOK, NoName,
         NoRef
<1>9. LiveInv'
  BY <1>1, LANQuiet, NewTyped, LANBounds
     DEF Request, managed, trustVars, LiveInv, BoundTo, LANTypeOK
<1>10. VisitInv'
  BY <1>1, LANQuiet, NewTyped, LANBounds
     DEF Request, managed, trustVars, VisitInv, VisitSafe, Ended, BoundTo, LANTypeOK
<1> QED BY <1>1, <1>3, <1>4, <1>5, <1>6, <1>7, <1>8, <1>9, <1>10, LANQuiet DEF LANInv

LEMMA SuspendKept ==
    ASSUME LANInv, NEW r \in Refs, Suspend(r)
    PROVE  LANInv'
<1>1. UNCHANGED certVars
  BY DEF Suspend
<1>2. LANTypeOK
  BY DEF LANInv
<1>3. LANTypeOK'
  <2>1. share' \in [Refs -> [state : {"none", "requested", "active", "suspended"}, name : Names \cup {NoName}]]
    BY <1>2 DEF LANTypeOK, Suspend
  <2> QED BY <1>2, <2>1 DEF LANTypeOK, Suspend, managed, trustVars
<1>4. LeavesInv'
  BY <1>1, LANQuiet, NewTyped
     DEF Suspend, managed, trustVars, LeavesInv, LANTypeOK, PreparationInv, RoundInv, Unbound,
         NoLANLeaf
<1>5. RoundInv'
  BY <1>1, LANQuiet, NewTyped
     DEF Suspend, managed, trustVars, RoundInv, NotRotating, LANTypeOK, Rotations
<1>6. PreparationInv'
  BY <1>1, LANQuiet, NewTyped
     DEF Suspend, managed, trustVars, PreparationInv, NotPreparing, LANTypeOK, Preparations
<1>7. BoundInv'
  BY <1>1, LANQuiet, NewTyped, LANBounds
     DEF Suspend, managed, trustVars, BoundInv, BoundTo, PreparationInv, RoundInv, LANTypeOK,
         Preparations, Rotations, NotPreparing, NotRotating
<1>8. CoveredInv'
  <2> SUFFICES ASSUME NEW q \in Refs, NEW n \in Names,
                      share'[q].name = n, BoundTo(n, q)', ~Excused(q, n)'
               PROVE  Recorded(q, n)'
    BY DEF CoveredInv
  <2>1. share[q].name = n /\ binding' = binding /\ record' = record /\ removal' = removal /\ prepare' = prepare
    BY <1>2 DEF Suspend, LANTypeOK
  <2>2. Recorded(q, n)
    BY <2>1, CoveredIs DEF BoundTo, Excused
  <2> QED BY <1>1, <2>1, <2>2, LANQuiet DEF Recorded
<1>9. LiveInv'
  BY <1>1, LANQuiet, NewTyped, LANBounds
     DEF Suspend, managed, trustVars, LiveInv, BoundTo, LANTypeOK
<1>10. VisitInv'
  BY <1>1, LANQuiet, NewTyped, LANBounds
     DEF Suspend, managed, trustVars, VisitInv, VisitSafe, Ended, BoundTo, LANTypeOK
<1> QED BY <1>1, <1>3, <1>4, <1>5, <1>6, <1>7, <1>8, <1>9, <1>10, LANQuiet DEF LANInv

LEMMA RemoveTakesKept ==
    ASSUME LANInv, NEW r \in Refs, RemoveTakes(r)
    PROVE  LANInv'
<1>1. UNCHANGED certVars
  BY DEF RemoveTakes
<1>2. LANTypeOK
  BY DEF LANInv
<1>3. LANTypeOK'
  <2>1. removal' \in [Refs -> [step : {"idle", "unbind", "unshare"}, token : Tokens \cup {NoToken}]]
    BY <1>2, NotTyped DEF LANTypeOK, RemoveTakes
  <2>2. token' \in [Refs -> Tokens \cup {NoToken}]
    BY <1>2 DEF LANTypeOK, RemoveTakes
  <2>3. record' \in [Refs -> LANLeaves \cup {NoLANLeaf}]
    BY <1>2 DEF LANTypeOK, RemoveTakes
  <2>4. crossed' \in BOOLEAN
    BY <1>2 DEF LANTypeOK, RemoveTakes
  <2> QED BY <1>2, <2>1, <2>2, <2>3, <2>4 DEF LANTypeOK, RemoveTakes, managed, trustVars
<1>4. LeavesInv'
  BY <1>1, LANQuiet, NewTyped, LANBounds
     DEF RemoveTakes, managed, trustVars, LeavesInv, LANTypeOK, PreparationInv, RoundInv, Unbound,
         NoLANLeaf
<1>5. RoundInv'
  BY <1>1, LANQuiet, NewTyped
     DEF RemoveTakes, managed, trustVars, RoundInv, NotRotating, LANTypeOK, Rotations
<1>6. PreparationInv'
  BY <1>1, LANQuiet, NewTyped
     DEF RemoveTakes, managed, trustVars, PreparationInv, NotPreparing, LANTypeOK, Preparations
<1>7. BoundInv'
  BY <1>1, LANQuiet, NewTyped
     DEF RemoveTakes, managed, trustVars, BoundInv, BoundTo, PreparationInv, RoundInv, LANTypeOK,
         Preparations, Rotations, NotPreparing, NotRotating
<1>8. CoveredInv'
  <2> SUFFICES ASSUME NEW q \in Refs, NEW n \in Names,
                      share'[q].name = n, BoundTo(n, q)', ~Excused(q, n)'
               PROVE  Recorded(q, n)'
    BY DEF CoveredInv
  <2>1. /\ share' = share /\ binding' = binding /\ prepare' = prepare
        /\ removal' = [removal EXCEPT ![r] = [step |-> "unbind", token |-> token[r]]]
        /\ record' = [record EXCEPT ![r] = NoLANLeaf]
    BY DEF RemoveTakes
  <2>2. q # r
    BY <1>2, <2>1 DEF Excused, LANTypeOK
  <2>3. ~Excused(q, n) /\ record'[q] = record[q]
    BY <1>2, <2>1, <2>2 DEF Excused, LANTypeOK
  <2>4. Recorded(q, n)
    BY <2>1, <2>3, CoveredIs DEF BoundTo
  <2> QED BY <1>1, <2>1, <2>3, <2>4, LANQuiet DEF Recorded
<1>9. LiveInv'
  BY <1>1, LANQuiet, NewTyped DEF RemoveTakes, managed, trustVars, LiveInv, BoundTo, LANTypeOK
<1>10. VisitInv'
  BY <1>1, LANQuiet, NewTyped
     DEF RemoveTakes, managed, trustVars, VisitInv, VisitSafe, Ended, BoundTo, LANTypeOK
<1> QED BY <1>1, <1>3, <1>4, <1>5, <1>6, <1>7, <1>8, <1>9, <1>10, LANQuiet DEF LANInv

LEMMA RemoveUnbindsKept ==
    ASSUME LANInv, NEW r \in Refs, RemoveUnbinds(r)
    PROVE  LANInv'
<1>1. UNCHANGED certVars
  BY DEF RemoveUnbinds
<1>2. LANTypeOK
  BY DEF LANInv
<1>3. LANTypeOK'
  <2>1. binding' \in [Names -> [ref : Refs, leaf : LANLeaves] \cup {Unbound}]
    BY <1>2, UnbindsTyped DEF LANTypeOK, RemoveUnbinds
  <2>2. session' \in [Tokens -> CAs \cup {NoCA}]
    BY <1>2, ClearedTyped, DrawsTyped DEF LANTypeOK, RemoveUnbinds
  <2>3. removal' \in [Refs -> [step : {"idle", "unbind", "unshare"}, token : Tokens \cup {NoToken}]]
    BY <1>2, NotTyped DEF LANTypeOK, RemoveUnbinds
  <2> QED BY <1>2, <2>1, <2>2, <2>3 DEF LANTypeOK, RemoveUnbinds, managed, trustVars
<1>4. LeavesInv'
  BY <1>1, LANQuiet, NewTyped, LANBounds
     DEF RemoveUnbinds, Cleared, managed, trustVars, LeavesInv, LANTypeOK, PreparationInv,
         RoundInv, Unbound, NoLANLeaf
<1>5. RoundInv'
  BY <1>1, LANQuiet, NewTyped
     DEF RemoveUnbinds, managed, trustVars, RoundInv, NotRotating, LANTypeOK, Rotations
<1>6. PreparationInv'
  BY <1>1, LANQuiet, NewTyped
     DEF RemoveUnbinds, managed, trustVars, PreparationInv, NotPreparing, LANTypeOK, Preparations
<1>7. BoundInv'
  <2>1. rotation' = rotation /\ prepare' = prepare /\ share' = share
    BY DEF RemoveUnbinds
  <2>2. \A n \in Names : binding'[n] = binding[n] \/ binding'[n] = Unbound
    BY <1>2 DEF RemoveUnbinds, LANTypeOK
  <2>3. rotation.step = "record" => rotation.old.name \in Names /\ rotation.ref \in Refs
    BY <1>1, LANQuiet, NewTyped DEF RoundInv
  <2>4. prepare.step # "idle" => prepare.name \in Names /\ prepare.ref \in Refs
    BY <1>1, LANQuiet DEF PreparationInv
  <2> QED BY <1>1, <2>1, <2>2, <2>3, <2>4, LANQuiet, LANBounds DEF BoundInv, BoundTo, Unbound
<1>8. CoveredInv'
  <2> SUFFICES ASSUME NEW q \in Refs, NEW n \in Names,
                      share'[q].name = n, BoundTo(n, q)', ~Excused(q, n)'
               PROVE  Recorded(q, n)'
    BY DEF CoveredInv
  <2>1. q # r /\ binding'[n] = binding[n] /\ share' = share /\ record' = record
    BY LANBounds DEF RemoveUnbinds, BoundTo, Unbound
  <2>2. ~Excused(q, n)
    BY <1>2, <2>1 DEF Excused, LANTypeOK, RemoveUnbinds
  <2>3. Recorded(q, n)
    BY <2>1, <2>2, CoveredIs DEF BoundTo
  <2> QED BY <1>1, <2>1, <2>3, LANQuiet DEF Recorded
<1>9. LiveInv' /\ VisitInv'
  <2>2. BindsNew
    BY DEF BindsNew, RemoveUnbinds
  <2>3. NamesBound
    BY DEF NamesBound, RemoveUnbinds
  <2> QED BY <1>1, <2>2, <2>3, HourKept DEF RemoveUnbinds
<1> QED BY <1>1, <1>3, <1>4, <1>5, <1>6, <1>7, <1>8, <1>9, LANQuiet DEF LANInv

LEMMA RemoveShareKept ==
    ASSUME LANInv, NEW r \in Refs, RemoveShare(r)
    PROVE  LANInv'
<1>1. UNCHANGED certVars
  BY DEF RemoveShare
<1>2. LANTypeOK
  BY DEF LANInv
<1>3. LANTypeOK'
  <2>1. share' \in [Refs -> [state : {"none", "requested", "active", "suspended"}, name : Names \cup {NoName}]]
    BY <1>2 DEF LANTypeOK, RemoveShare
  <2>2. removal' \in [Refs -> [step : {"idle", "unbind", "unshare"}, token : Tokens \cup {NoToken}]]
    BY <1>2, NotTyped DEF LANTypeOK, RemoveShare
  <2> QED BY <1>2, <2>1, <2>2 DEF LANTypeOK, RemoveShare, managed, trustVars
<1>4. LeavesInv'
  BY <1>1, LANQuiet, NewTyped
     DEF RemoveShare, managed, trustVars, LeavesInv, LANTypeOK, PreparationInv, RoundInv, Unbound,
         NoLANLeaf
<1>5. RoundInv'
  BY <1>1, LANQuiet, NewTyped
     DEF RemoveShare, managed, trustVars, RoundInv, NotRotating, LANTypeOK, Rotations
<1>6. PreparationInv'
  BY <1>1, LANQuiet, NewTyped
     DEF RemoveShare, managed, trustVars, PreparationInv, NotPreparing, LANTypeOK, Preparations
<1>7. BoundInv'
  BY <1>1, LANQuiet, NewTyped, LANBounds
     DEF RemoveShare, managed, trustVars, BoundInv, BoundTo, PreparationInv, RoundInv, LANTypeOK,
         Preparations, Rotations, NotPreparing, NotRotating
<1>8. CoveredInv'
  BY <1>1, LANQuiet, NewTyped, LANBounds
     DEF RemoveShare, managed, trustVars, CoveredInv, BoundTo, Excused, Recorded, LANTypeOK,
         NoName, NoRef
<1>9. LiveInv'
  BY <1>1, LANQuiet, NewTyped, LANBounds
     DEF RemoveShare, managed, trustVars, LiveInv, BoundTo, LANTypeOK
<1>10. VisitInv'
  BY <1>1, LANQuiet, NewTyped, LANBounds
     DEF RemoveShare, managed, trustVars, VisitInv, VisitSafe, Ended, BoundTo, LANTypeOK
<1> QED BY <1>1, <1>3, <1>4, <1>5, <1>6, <1>7, <1>8, <1>9, <1>10, LANQuiet DEF LANInv

LEMMA VisitSetupPageKept ==
    ASSUME LANInv, NEW t \in Tokens, VisitSetupPage(t)
    PROVE  LANInv'
<1>1. UNCHANGED certVars
  BY DEF VisitSetupPage
<1>2. LANTypeOK
  BY DEF LANInv
<1>3. LANTypeOK'
  <2>1. session' \in [Tokens -> CAs \cup {NoCA}]
    BY <1>2, ClearedTyped, DrawsTyped DEF LANTypeOK, VisitSetupPage
  <2> QED BY <1>2, <2>1 DEF LANTypeOK, VisitSetupPage, managed, trustVars
<1>4. LeavesInv'
  BY <1>1, LANQuiet, NewTyped
     DEF VisitSetupPage, managed, trustVars, LeavesInv, LANTypeOK, PreparationInv, RoundInv,
         Unbound, NoLANLeaf
<1>5. RoundInv'
  BY <1>1, LANQuiet, NewTyped
     DEF VisitSetupPage, managed, trustVars, RoundInv, NotRotating, LANTypeOK, Rotations
<1>6. PreparationInv'
  BY <1>1, LANQuiet, NewTyped
     DEF VisitSetupPage, managed, trustVars, PreparationInv, NotPreparing, LANTypeOK, Preparations
<1>7. BoundInv'
  BY <1>1, LANQuiet, NewTyped
     DEF VisitSetupPage, managed, trustVars, BoundInv, BoundTo, PreparationInv, RoundInv,
         LANTypeOK, Preparations, Rotations, NotPreparing, NotRotating
<1>8. CoveredInv'
  BY <1>1, LANQuiet, NewTyped
     DEF VisitSetupPage, managed, trustVars, CoveredInv, BoundTo, Excused, Recorded, LANTypeOK,
         NoName, NoRef
<1>9. LiveInv'
  BY <1>1, LANQuiet, NewTyped DEF VisitSetupPage, managed, trustVars, LiveInv, BoundTo, LANTypeOK
<1>10. VisitInv'
  BY <1>1, LANQuiet, NewTyped
     DEF VisitSetupPage, managed, trustVars, VisitInv, VisitSafe, Ended, BoundTo, LANTypeOK
<1> QED BY <1>1, <1>3, <1>4, <1>5, <1>6, <1>7, <1>8, <1>9, <1>10, LANQuiet DEF LANInv

LEMMA ArrivesKept ==
    ASSUME LANInv, NEW v \in Visitors, NEW n \in Names, Arrives(v, n)
    PROVE  LANInv'
<1>1. UNCHANGED certVars
  BY DEF Arrives
<1>2. LANTypeOK
  BY DEF LANInv
<1>3. LANTypeOK'
  <2>1. visitor' \in [Visitors -> Visits]
    <3>1. binding[n].ref \in Refs /\ binding[n].leaf.ca \in CAs
      BY <1>2 DEF LANTypeOK, LANLeaves, Arrives
    <3>2. [Away EXCEPT !.step = "hello", !.name = n, !.ref = binding[n].ref, !.ca = binding[n].leaf.ca] \in Visits
      BY <3>1 DEF Away, Visits, NoLANLeaf
    <3> QED BY <1>2, <3>2 DEF LANTypeOK, Arrives
  <2> QED BY <1>2, <2>1 DEF LANTypeOK, Arrives, managed, trustVars
<1>4. LeavesInv'
  BY <1>1, LANQuiet, NewTyped
     DEF Arrives, managed, trustVars, LeavesInv, LANTypeOK, PreparationInv, RoundInv, Unbound,
         NoLANLeaf
<1>5. RoundInv'
  BY <1>1, LANQuiet, NewTyped
     DEF Arrives, managed, trustVars, RoundInv, NotRotating, LANTypeOK, Rotations
<1>6. PreparationInv'
  BY <1>1, LANQuiet, NewTyped
     DEF Arrives, managed, trustVars, PreparationInv, NotPreparing, LANTypeOK, Preparations
<1>7. BoundInv'
  BY <1>1, LANQuiet, NewTyped
     DEF Arrives, managed, trustVars, BoundInv, BoundTo, PreparationInv, RoundInv, LANTypeOK,
         Preparations, Rotations, NotPreparing, NotRotating
<1>8. CoveredInv'
  BY <1>1, LANQuiet, NewTyped
     DEF Arrives, managed, trustVars, CoveredInv, BoundTo, Excused, Recorded, LANTypeOK, NoName,
         NoRef
<1>9. LiveInv'
  BY <1>1, LANQuiet, NewTyped DEF Arrives, managed, trustVars, LiveInv, BoundTo, LANTypeOK
<1>10. VisitInv'
  <2> DEFINE w == [Away EXCEPT !.step = "hello", !.name = n, !.ref = binding[n].ref, !.ca = binding[n].leaf.ca]
  <2>1. binding[n].ref \in Refs
    BY <1>2 DEF LANTypeOK, Arrives
  <2>2. VisitSafe(w)
    BY <2>1 DEF VisitSafe, Away
  <2>3. visitor' = [visitor EXCEPT ![v] = w] /\ binding' = binding /\ share' = share
    BY DEF Arrives, managed
  <2> HIDE DEF w
  <2> QED BY <1>1, <2>2, <2>3, VisitorMoves
<1> QED BY <1>1, <1>3, <1>4, <1>5, <1>6, <1>7, <1>8, <1>9, <1>10, LANQuiet DEF LANInv

LEMMA CheckAuthorityKept ==
    ASSUME LANInv, NEW v \in Visitors, CheckAuthority(v)
    PROVE  LANInv'
<1>1. UNCHANGED certVars
  BY DEF CheckAuthority
<1>2. LANTypeOK
  BY DEF LANInv
<1>3. LANTypeOK'
  <2>1. visitor' \in [Visitors -> Visits]
    <3>1. visitor[v] \in Visits
      BY <1>2 DEF LANTypeOK
    <3>2. [visitor[v] EXCEPT !.checked = "authority"] \in Visits
      BY <3>1 DEF Visits
    <3> QED BY <1>2, <3>2, NotTyped DEF LANTypeOK, CheckAuthority
  <2> QED BY <1>2, <2>1 DEF LANTypeOK, CheckAuthority, managed, trustVars
<1>4. LeavesInv'
  BY <1>1, LANQuiet, NewTyped
     DEF CheckAuthority, managed, trustVars, LeavesInv, LANTypeOK, PreparationInv, RoundInv,
         Unbound, NoLANLeaf
<1>5. RoundInv'
  BY <1>1, LANQuiet, NewTyped
     DEF CheckAuthority, managed, trustVars, RoundInv, NotRotating, LANTypeOK, Rotations
<1>6. PreparationInv'
  BY <1>1, LANQuiet, NewTyped
     DEF CheckAuthority, managed, trustVars, PreparationInv, NotPreparing, LANTypeOK, Preparations
<1>7. BoundInv'
  BY <1>1, LANQuiet, NewTyped
     DEF CheckAuthority, managed, trustVars, BoundInv, BoundTo, PreparationInv, RoundInv,
         LANTypeOK, Preparations, Rotations, NotPreparing, NotRotating
<1>8. CoveredInv'
  BY <1>1, LANQuiet, NewTyped
     DEF CheckAuthority, managed, trustVars, CoveredInv, BoundTo, Excused, Recorded, LANTypeOK,
         NoName, NoRef
<1>9. LiveInv'
  BY <1>1, LANQuiet, NewTyped DEF CheckAuthority, managed, trustVars, LiveInv, BoundTo, LANTypeOK
<1>10. VisitInv'
  <2> DEFINE w == [visitor[v] EXCEPT !.checked = "authority"]
  <2>1. binding' = binding /\ share' = share
        /\ visitor[v].step \in {"hello", "certificate", "verify"} /\ visitor[v] \in Visits
    BY <1>2 DEF CheckAuthority, managed, Checking, LANTypeOK
  <2>2. visitor[v].name \in Names /\ visitor[v].ref \in Refs
    BY <1>1, <2>1, LANQuiet DEF VisitInv, VisitSafe
  <2>3. ASSUME Bound(v), Current = visitor[v].ca PROVE VisitSafe(w)
    <3>1. BoundTo(visitor[v].name, visitor[v].ref) /\ binding[visitor[v].name].leaf.ca = visitor[v].ca
      BY <2>3 DEF Bound, BoundTo
    <3>2. visitor[v].ca \in CAs
      BY <2>2, <3>1, BindingIs, NewTyped
    <3>3. visitor[v].ca = files.cert /\ files.cert \in Int
      BY <1>1, <2>3, <3>2, LANQuiet DEF Current, CAs, NoCA
    <3>4. share[visitor[v].ref].name = visitor[v].name => now < binding[visitor[v].name].leaf.until
      BY <1>1, <2>2, <3>1, <3>3, LANQuiet DEF LiveInv
    <3>5. /\ w.step = visitor[v].step /\ w.name = visitor[v].name /\ w.ref = visitor[v].ref
          /\ w.ca = visitor[v].ca /\ w.checked = "authority"
      BY <2>1 DEF Visits
    <3> HIDE DEF w
    <3> QED BY <2>1, <2>2, <3>3, <3>4, <3>5 DEF VisitSafe, Ended
  <2>4. \/ visitor' = [visitor EXCEPT ![v] = w] /\ Bound(v) /\ Current = visitor[v].ca
        \/ visitor' = [visitor EXCEPT ![v] = Away]
    BY <1>2 DEF CheckAuthority, LANTypeOK
  <2> HIDE DEF w
  <2> QED BY <1>1, <2>1, <2>3, <2>4, VisitorMoves, AwaySafe
<1> QED BY <1>1, <1>3, <1>4, <1>5, <1>6, <1>7, <1>8, <1>9, <1>10, LANQuiet DEF LANInv

LEMMA CheckShareKept ==
    ASSUME LANInv, NEW v \in Visitors, CheckShare(v)
    PROVE  LANInv'
<1>1. UNCHANGED certVars
  BY DEF CheckShare
<1>2. LANTypeOK
  BY DEF LANInv
<1>3. LANTypeOK'
  <2>1. visitor' \in [Visitors -> Visits]
    <3>1. visitor[v] \in Visits
      BY <1>2 DEF LANTypeOK
    <3>2. [visitor[v] EXCEPT !.checked = "share"] \in Visits
      BY <3>1 DEF Visits
    <3> QED BY <1>2, <3>2, NotTyped DEF LANTypeOK, CheckShare
  <2> QED BY <1>2, <2>1 DEF LANTypeOK, CheckShare, managed, trustVars
<1>4. LeavesInv'
  BY <1>1, LANQuiet, NewTyped
     DEF CheckShare, managed, trustVars, LeavesInv, LANTypeOK, PreparationInv, RoundInv, Unbound,
         NoLANLeaf
<1>5. RoundInv'
  BY <1>1, LANQuiet, NewTyped
     DEF CheckShare, managed, trustVars, RoundInv, NotRotating, LANTypeOK, Rotations
<1>6. PreparationInv'
  BY <1>1, LANQuiet, NewTyped
     DEF CheckShare, managed, trustVars, PreparationInv, NotPreparing, LANTypeOK, Preparations
<1>7. BoundInv'
  BY <1>1, LANQuiet, NewTyped
     DEF CheckShare, managed, trustVars, BoundInv, BoundTo, PreparationInv, RoundInv, LANTypeOK,
         Preparations, Rotations, NotPreparing, NotRotating
<1>8. CoveredInv'
  BY <1>1, LANQuiet, NewTyped
     DEF CheckShare, managed, trustVars, CoveredInv, BoundTo, Excused, Recorded, LANTypeOK,
         NoName, NoRef
<1>9. LiveInv'
  BY <1>1, LANQuiet, NewTyped DEF CheckShare, managed, trustVars, LiveInv, BoundTo, LANTypeOK
<1>10. VisitInv'
  <2> DEFINE w == [visitor[v] EXCEPT !.checked = "share"]
  <2>1. /\ binding' = binding /\ share' = share /\ visitor[v].checked = "authority"
        /\ visitor[v] \in Visits
    BY <1>2 DEF CheckShare, managed, Checking, LANTypeOK
  <2>2. VisitSafe(visitor[v])
    BY <1>1, LANQuiet DEF VisitInv
  <2>3. ASSUME Shared(v) PROVE VisitSafe(w)
    <3>1. share[visitor[v].ref].name = visitor[v].name
      BY <2>3 DEF Shared
    <3>2. /\ w.step = visitor[v].step /\ w.name = visitor[v].name /\ w.ref = visitor[v].ref
          /\ w.ca = visitor[v].ca /\ w.checked = "share"
      BY <2>1 DEF Visits
    <3> HIDE DEF w
    <3> QED BY <2>1, <2>2, <3>1, <3>2 DEF VisitSafe, Ended
  <2>4. \/ visitor' = [visitor EXCEPT ![v] = w] /\ Shared(v)
        \/ visitor' = [visitor EXCEPT ![v] = Away]
    BY <1>2 DEF CheckShare, LANTypeOK
  <2> HIDE DEF w
  <2> QED BY <1>1, <2>1, <2>3, <2>4, VisitorMoves, AwaySafe
<1> QED BY <1>1, <1>3, <1>4, <1>5, <1>6, <1>7, <1>8, <1>9, <1>10, LANQuiet DEF LANInv

LEMMA CheckBindingKept ==
    ASSUME LANInv, NEW v \in Visitors, CheckBinding(v)
    PROVE  LANInv'
<1>1. UNCHANGED certVars
  BY DEF CheckBinding
<1>2. LANTypeOK
  BY DEF LANInv
<1>3. LANTypeOK'
  <2>1. visitor' \in [Visitors -> Visits]
    <3>1. visitor[v] \in Visits /\ visitor[v].step \in {"hello", "certificate", "verify"}
      BY <1>2 DEF LANTypeOK, CheckBinding, Checking
    <3>2. visitor[v].name \in Names => binding[visitor[v].name].leaf \in LANLeaves \cup {NoLANLeaf}
      BY <1>2 DEF LANTypeOK, Unbound
    <3>3. visitor[v].name \in Names
      BY LANQuiet, <1>1, <3>1 DEF VisitInv, VisitSafe
    <3>4. /\ Following[visitor[v].step] \in {"certificate", "verify", "open"}
          /\ visitor[v].leaf \in LANLeaves \cup {NoLANLeaf}
      BY <3>1 DEF Following, Visits
    <3> DEFINE leaf == IF visitor[v].step = "certificate" THEN binding[visitor[v].name].leaf ELSE visitor[v].leaf
    <3>5. leaf \in LANLeaves \cup {NoLANLeaf}
      BY <3>2, <3>3, <3>4
    <3> HIDE DEF leaf
    <3>6. [visitor[v] EXCEPT !.step = Following[visitor[v].step], !.checked = "nothing", !.leaf = leaf] \in Visits
      BY <3>1, <3>4, <3>5 DEF Visits
    <3>7. CASE Bound(v)
      <4>1. visitor' = [visitor EXCEPT ![v] = [visitor[v] EXCEPT !.step = Following[visitor[v].step],
                                                   !.checked = "nothing", !.leaf = leaf]]
        BY <3>1, <3>7 DEF CheckBinding, leaf
      <4> QED BY <1>2, <3>6, <4>1 DEF LANTypeOK
    <3>8. CASE ~Bound(v)
      BY <1>2, <3>8, NotTyped DEF LANTypeOK, CheckBinding
    <3> QED BY <3>7, <3>8
  <2> QED BY <1>2, <2>1 DEF LANTypeOK, CheckBinding, managed, trustVars
<1>4. LeavesInv'
  BY <1>1, LANQuiet, NewTyped
     DEF CheckBinding, managed, trustVars, LeavesInv, LANTypeOK, PreparationInv, RoundInv,
         Unbound, NoLANLeaf
<1>5. RoundInv'
  BY <1>1, LANQuiet, NewTyped
     DEF CheckBinding, managed, trustVars, RoundInv, NotRotating, LANTypeOK, Rotations
<1>6. PreparationInv'
  BY <1>1, LANQuiet, NewTyped
     DEF CheckBinding, managed, trustVars, PreparationInv, NotPreparing, LANTypeOK, Preparations
<1>7. BoundInv'
  BY <1>1, LANQuiet, NewTyped
     DEF CheckBinding, managed, trustVars, BoundInv, BoundTo, PreparationInv, RoundInv, LANTypeOK,
         Preparations, Rotations, NotPreparing, NotRotating
<1>8. CoveredInv'
  BY <1>1, LANQuiet, NewTyped
     DEF CheckBinding, managed, trustVars, CoveredInv, BoundTo, Excused, Recorded, LANTypeOK,
         NoName, NoRef
<1>9. LiveInv'
  BY <1>1, LANQuiet, NewTyped DEF CheckBinding, managed, trustVars, LiveInv, BoundTo, LANTypeOK
<1>10. VisitInv'
  <2>1. /\ binding' = binding /\ share' = share /\ visitor[v] \in Visits
        /\ visitor[v].step \in {"hello", "certificate", "verify"}
    BY <1>2 DEF CheckBinding, managed, Checking, LANTypeOK
  <2>2. VisitSafe(visitor[v])
    BY <1>1, LANQuiet DEF VisitInv
  <2>3. PICK step, leaf :
           \/ visitor' = [visitor EXCEPT ![v] =
                   [visitor[v] EXCEPT !.step = step, !.checked = "nothing", !.leaf = leaf]]
           \/ visitor' = [visitor EXCEPT ![v] = Away]
    BY <1>2 DEF CheckBinding, LANTypeOK
  <2>4. VisitSafe([visitor[v] EXCEPT !.step = step, !.checked = "nothing", !.leaf = leaf])
    BY <2>1, <2>2 DEF VisitSafe, Visits
  <2> QED BY <1>1, <2>1, <2>3, <2>4, VisitorMoves, AwaySafe
<1> QED BY <1>1, <1>3, <1>4, <1>5, <1>6, <1>7, <1>8, <1>9, <1>10, LANQuiet DEF LANInv

LEMMA DepartsKept ==
    ASSUME LANInv, NEW v \in Visitors, Departs(v)
    PROVE  LANInv'
<1>1. UNCHANGED certVars
  BY DEF Departs
<1>2. LANTypeOK
  BY DEF LANInv
<1>3. LANTypeOK'
  <2>1. visitor' \in [Visitors -> Visits]
    BY <1>2, NotTyped DEF LANTypeOK, Departs, Visits
  <2> QED BY <1>2, <2>1 DEF LANTypeOK, Departs, managed, trustVars
<1>4. LeavesInv'
  BY <1>1, LANQuiet, NewTyped
     DEF Departs, managed, trustVars, LeavesInv, LANTypeOK, PreparationInv, RoundInv, Unbound,
         NoLANLeaf
<1>5. RoundInv'
  BY <1>1, LANQuiet, NewTyped
     DEF Departs, managed, trustVars, RoundInv, NotRotating, LANTypeOK, Rotations
<1>6. PreparationInv'
  BY <1>1, LANQuiet, NewTyped
     DEF Departs, managed, trustVars, PreparationInv, NotPreparing, LANTypeOK, Preparations
<1>7. BoundInv'
  BY <1>1, LANQuiet, NewTyped
     DEF Departs, managed, trustVars, BoundInv, BoundTo, PreparationInv, RoundInv, LANTypeOK,
         Preparations, Rotations, NotPreparing, NotRotating
<1>8. CoveredInv'
  BY <1>1, LANQuiet, NewTyped
     DEF Departs, managed, trustVars, CoveredInv, BoundTo, Excused, Recorded, LANTypeOK, NoName,
         NoRef
<1>9. LiveInv'
  BY <1>1, LANQuiet, NewTyped DEF Departs, managed, trustVars, LiveInv, BoundTo, LANTypeOK
<1>10. VisitInv'
  BY <1>1, VisitorMoves, AwaySafe DEF Departs, managed
<1> QED BY <1>1, <1>3, <1>4, <1>5, <1>6, <1>7, <1>8, <1>9, <1>10, LANQuiet DEF LANInv

\* A setup replaces the authority.
LEMMA LANSetupKept ==
    ASSUME LANInv, NEW s \in Setups, SetupStep(s), UNCHANGED lanVars
    PROVE  LANInv'
<1>1. Ages /\ CertInv /\ CertInv'
  BY SetupAges DEF LANInv, Ages
<1>2. /\ share' = share /\ binding' = binding /\ record' = record /\ token' = token
      /\ session' = session /\ drawn' = drawn /\ prepare' = prepare /\ rotation' = rotation
      /\ removal' = removal /\ visitor' = visitor /\ crossed' = crossed
  BY DEF lanVars, managed, trustVars
<1>3. /\ LANTypeOK /\ LeavesInv /\ RoundInv /\ PreparationInv /\ BoundInv /\ CoveredInv /\ LiveInv /\ VisitInv
      /\ files.cert \in Int /\ files'.cert \in Int /\ files.cert <= files'.cert /\ now' = now
      /\ KnownLeaves \subseteq KnownLeaves' /\ NewLeaves \subseteq NewLeaves'
  BY <1>1 DEF LANInv, Ages, CertInv, CertTypeOK, CAs, NoCA
<1>4. LANTypeOK'
  BY <1>2, <1>3 DEF LANTypeOK
<1>5. LeavesInv' /\ RoundInv' /\ PreparationInv'
  BY <1>2, <1>3 DEF LeavesInv, RoundInv, PreparationInv, Older
<1>6. BoundInv'
  BY <1>2, <1>3 DEF BoundInv, BoundTo
<1>7. ASSUME NEW r \in Refs, NEW n \in Names, BoundTo(n, r)
      PROVE  /\ binding[n].leaf.ca \in Int /\ binding[n].leaf.ca <= files.cert
             /\ binding[n].leaf.ca < files.cert => binding[n].leaf.ca < files'.cert
             /\ binding[n].leaf.ca = files'.cert => binding[n].leaf.ca = files.cert
  <2>1. binding[n].leaf.ca \in Int /\ binding[n].leaf.ca <= files.cert
    BY <1>7, BindingIs, NewTyped DEF CAs
  <2> QED BY <1>3, <2>1
<1>8. CoveredInv'
  BY <1>2, <1>3, <1>7 DEF CoveredInv, BoundTo, Excused, Recorded, Older
<1>9. LiveInv'
  BY <1>2, <1>3, <1>7 DEF LiveInv, BoundTo
<1>10. VisitInv'
  <2>1. ASSUME NEW v \in Visitors PROVE VisitSafe(visitor[v])'
    <3>1. VisitSafe(visitor[v]) /\ visitor[v].ca \in Int
      BY <1>3 DEF VisitInv, LANTypeOK, Visits, CAs, NoCA
    <3>2. visitor[v].ca <= files.cert => visitor[v].ca <= files'.cert
      BY <1>3, <3>1
    <3> QED BY <1>2, <1>3, <3>1, <3>2 DEF VisitSafe, Ended, BoundTo
  <2> QED BY <1>2, <2>1 DEF VisitInv
<1> QED BY <1>1, <1>4, <1>5, <1>6, <1>8, <1>9, <1>10 DEF LANInv, Ages

\* An hour passes: what is recorded is not due, so that what is bound has not
\* ended.
LEMMA LANTickKept ==
    ASSUME LANInv, LANCalm, CertTick, UNCHANGED lanVars
    PROVE  LANInv'
<1>1. /\ share' = share /\ binding' = binding /\ record' = record /\ token' = token
      /\ session' = session /\ drawn' = drawn /\ prepare' = prepare /\ rotation' = rotation
      /\ removal' = removal /\ visitor' = visitor /\ crossed' = crossed
  BY DEF lanVars, managed, trustVars
<1>2. /\ CertInv /\ Newest /\ LANTypeOK /\ LeavesInv /\ RoundInv /\ PreparationInv /\ BoundInv
      /\ CoveredInv /\ LiveInv /\ VisitInv
  BY DEF LANInv
<1>3. CertInv'
  BY <1>2, StepCertInv DEF CertNext
<1>4. files' = files /\ ends' = ends /\ made' = made /\ setup' = setup /\ now' = now + 1 /\ now \in Int
  BY <1>2, Bounds DEF CertTick, CertInv, CertTypeOK
<1>5. Newest'
  BY <1>2, <1>4 DEF Newest
<1>6. KnownLeaves \subseteq KnownLeaves'
  <2>1. ASSUME NEW leaf \in KnownLeaves PROVE leaf \in KnownLeaves'
    <3>1. leaf \in LANLeaves /\ leaf.until \in Int /\ ends[leaf.ca] \in Int /\ LANLeafLife \in Int
      BY <1>2, Bounds, LANBounds DEF KnownLeaves, LANLeaves, CertInv, CertTypeOK
    <3>2. leaf.until <= LeafEnd(leaf.ca, LANLeafLife) => leaf.until <= LeafEnd(leaf.ca, LANLeafLife)'
      BY <1>4, <3>1 DEF LeafEnd
    <3> QED BY <1>4, <2>1, <3>2 DEF KnownLeaves
  <2> QED BY <2>1
<1>7. prepare.step = "idle" /\ rotation.step = "idle" /\ \A r \in Refs : removal[r].step = "idle"
  BY DEF LANCalm, AtRest
<1>8. LANTypeOK'
  BY <1>1, <1>2 DEF LANTypeOK
<1>9. LeavesInv' /\ RoundInv' /\ PreparationInv' /\ BoundInv'
  BY <1>1, <1>2, <1>6, <1>7 DEF LeavesInv, RoundInv, PreparationInv, BoundInv
<1>10. CoveredInv'
  BY <1>1, <1>2, <1>4 DEF CoveredInv, BoundTo, Excused, Recorded, Older
<1>11. ASSUME NEW r \in Refs, NEW n \in Names, share[r].name = n, BoundTo(n, r),
              binding[n].leaf.ca = files.cert
       PROVE  now + 1 < binding[n].leaf.until
  <2>1. Recorded(r, n)
    BY <1>7, <1>11, CoveredIs DEF Excused
  <2>2. record[r] # NoLANLeaf /\ record[r] \in KnownLeaves
    BY <1>2, <2>1, LANBounds DEF Recorded, NoLANLeaf, LeavesInv
  <2>3. ~Due(record[r], files.cert)
    BY DEF LANCalm
  <2>4. /\ record[r].ca = files.cert /\ files.cert \in Int /\ record[r].until \in Int
        /\ binding[n].leaf.until \in Int /\ RotateBefore \in Nat /\ RotateBefore > 0
    BY <1>2, <1>11, <2>2, <2>3, BindingIs, Bounds, LANBounds
       DEF Due, KnownLeaves, LANLeaves, CertInv, CertTypeOK, CAs, NoCA
  <2>5. ~(record[r].until <= now + RotateBefore)
    BY <2>2, <2>3 DEF Due
  <2>6. record[r].until <= binding[n].leaf.until
    BY <1>11, <2>1, <2>4 DEF Recorded, Older
  <2> QED BY <1>4, <2>4, <2>5, <2>6
<1>12. LiveInv'
  BY <1>1, <1>4, <1>11 DEF LiveInv, BoundTo
<1>13. VisitInv'
  <2>1. \A v \in Visitors : visitor[v].checked = "nothing"
    BY DEF LANCalm
  <2> QED BY <1>1, <1>2, <2>1 DEF VisitInv, VisitSafe
<1> QED BY <1>3, <1>5, <1>8, <1>9, <1>10, <1>12, <1>13 DEF LANInv

LEMMA InitLANInv == CertInit /\ LANInit => LANInv
<1> SUFFICES ASSUME CertInit, LANInit PROVE LANInv
  OBVIOUS
<1>1. CertInv /\ Newest
  BY InitCertInv, NewestInit
<1>2. LANTypeOK
  <2>1. NotRotating \in Rotations
    BY DEF NotRotating, Rotations
  <2>2. drawn \in 0 .. MaxToken
    BY LANBounds DEF LANInit
  <2> QED BY <2>1, <2>2, NotTyped DEF LANInit, LANTypeOK
<1>3. LeavesInv /\ RoundInv /\ PreparationInv /\ BoundInv
  BY DEF LANInit, LeavesInv, RoundInv, PreparationInv, BoundInv, NotPreparing, NotRotating
<1>4. CoveredInv /\ LiveInv
  BY LANBounds DEF LANInit, CoveredInv, LiveInv, BoundTo, Unbound
<1>5. VisitInv
  BY AwaySafe DEF LANInit, VisitInv
<1> QED BY <1>1, <1>2, <1>3, <1>4, <1>5 DEF LANInv

LEMMA LANNextKept == ASSUME LANInv, LANNext PROVE LANInv'
<1>1. CASE PrepareStep
  BY <1>1, PrepareIssuesKept, PrepareTrustsKept, PrepareRegistersKept, PrepareActivatesKept,
     PrepareRecordsKept, PrepareClearsKept DEF PrepareStep
<1>2. CASE RotationStep
  <2>1. ASSUME NEW r \in Refs, NEW pair \in rotation.todo, pair[1] = r, RotationPicks(r, pair[2])
        PROVE  LANInv'
    <3>1. pair = <<r, pair[2]>>
      <4>1. pair \in Refs \X LANLeaves
        BY DEF LANInv, LANTypeOK, Rotations
      <4> QED BY <2>1, <4>1
    <3> QED BY <2>1, <3>1, RotationPicksKept
  <2> QED BY <1>2, <2>1, RotationStartsKept, RotationIssuesKept, RotationTrustsKept,
             RotationReplacesKept, RotationRecordsKept DEF RotationStep
<1>3. CASE \E t \in Tokens : VisitSetupPage(t)
  BY <1>3, VisitSetupPageKept
<1>4. CASE \E r \in Refs :
              \/ Request(r) \/ Suspend(r) \/ RemoveTakes(r) \/ RemoveUnbinds(r) \/ RemoveShare(r)
              \/ \E n \in Names : PrepareStarts(r, n)
  BY <1>4, RequestKept, SuspendKept, RemoveTakesKept, RemoveUnbindsKept, RemoveShareKept,
     PrepareStartsKept
<1>5. CASE \E v \in Visitors :
              \/ CheckAuthority(v) \/ CheckShare(v) \/ CheckBinding(v) \/ Departs(v)
              \/ \E n \in Names : Arrives(v, n)
  BY <1>5, CheckAuthorityKept, CheckShareKept, CheckBindingKept, DepartsKept, ArrivesKept
<1> QED BY <1>1, <1>2, <1>3, <1>4, <1>5 DEF LANNext

LEMMA LANStays == ASSUME LANInv, UNCHANGED <<lanVars, certVars>> PROVE LANInv'
<1>1. UNCHANGED certVars /\ UNCHANGED lanVars
  OBVIOUS
<1>2. /\ share' = share /\ binding' = binding /\ record' = record /\ token' = token
      /\ session' = session /\ drawn' = drawn /\ prepare' = prepare /\ rotation' = rotation
      /\ removal' = removal /\ visitor' = visitor /\ crossed' = crossed
  BY <1>1 DEF lanVars, managed, trustVars
<1>3. LANTypeOK' /\ LeavesInv' /\ RoundInv' /\ PreparationInv'
  BY <1>1, <1>2, LANQuiet DEF LANTypeOK, LeavesInv, RoundInv, PreparationInv
<1>4. BoundInv' /\ CoveredInv' /\ LiveInv'
  BY <1>1, <1>2, LANQuiet DEF BoundInv, CoveredInv, LiveInv, BoundTo, Excused, Recorded
<1>5. VisitInv'
  BY <1>1, <1>2, LANQuiet DEF VisitInv, VisitSafe, Ended, BoundTo
<1> QED BY <1>1, <1>3, <1>4, <1>5, LANQuiet DEF LANInv

LEMMA StepLANInv == LANInv /\ [LANStep]_<<lanVars, certVars>> => LANInv'
BY LANNextKept, LANSetupKept, LANTickKept, LANStays DEF LANStep

\* The variables of the local network keep their types; and a binding is
\* recorded, or is noticed to be of another authority, while its share has
\* that host name.
LEMMA LANInvHolds == LANSpec => []LANInv
BY InitLANInv, StepLANInv, PTL DEF LANSpec

\* The certificate that a device is shown has not ended, and is for the host
\* name and of the authority of its ClientHello: out of whatever order of
\* rounds, preparations, removals and setups, two on the same share included.
THEOREM ShownRight == LANSpec => LANHandshakeSound
<1> DEFINE Right(v) ==
      visitor[v].step # "verify" /\ visitor'[v].step = "verify" =>
         LET leaf == visitor'[v].leaf IN
           /\ now < leaf.until
           /\ leaf.name = visitor[v].name
           /\ leaf.ca = visitor[v].ca
<1>1. ASSUME LANInv, LANStep, NEW v \in Visitors, visitor[v].step # "verify", visitor'[v].step = "verify"
      PROVE  /\ now < visitor'[v].leaf.until
             /\ visitor'[v].leaf.name = visitor[v].name
             /\ visitor'[v].leaf.ca = visitor[v].ca
  <2>1. visitor \in [Visitors -> Visits] /\ visitor[v] \in Visits /\ VisitSafe(visitor[v])
    BY <1>1 DEF LANInv, LANTypeOK, VisitInv
  <2>2. PICK u \in Visitors : \/ CheckAuthority(u) \/ CheckShare(u) \/ CheckBinding(u) \/ Departs(u)
                              \/ \E n \in Names : Arrives(u, n)
    <3>1. visitor' # visitor
      BY <1>1
    <3> QED BY <1>1, <3>1 DEF LANStep, LANNext, lanVars, PrepareStep, PrepareIssues, PrepareTrusts,
              PrepareRegisters, PrepareActivates, PrepareRecords, PrepareClears, RotationStep,
              RotationStarts, RotationPicks, RotationIssues, RotationTrusts, RotationReplaces,
              RotationRecords, VisitSetupPage, Request, Suspend, RemoveTakes, RemoveUnbinds,
              RemoveShare, PrepareStarts
  <2>3. u = v
    BY <1>1, <2>1, <2>2 DEF CheckAuthority, CheckShare, CheckBinding, Departs, Arrives
  <2>4. CheckBinding(v) /\ Bound(v)
    <3>1. ~Departs(v) /\ \A n : ~Arrives(v, n)
      <4>1. Departs(v) => visitor'[v].step = "idle"
        BY <2>1 DEF Departs, Away
      <4>2. ASSUME NEW n, Arrives(v, n) PROVE visitor'[v].step = "hello"
        <5> DEFINE w == [Away EXCEPT !.step = "hello", !.name = n, !.ref = binding[n].ref,
                                     !.ca = binding[n].leaf.ca]
        <5>1. w.step = "hello"
          BY DEF Away
        <5>2. visitor'[v] = w
          BY <2>1, <4>2 DEF Arrives
        <5> QED BY <5>1, <5>2
      <4> QED BY <1>1, <4>1, <4>2
    <3>2. ~CheckAuthority(v) /\ ~CheckShare(v)
      BY <1>1, <2>1 DEF CheckAuthority, CheckShare, Away, Visits
    <3>3. CheckBinding(v)
      BY <2>2, <2>3, <3>1, <3>2
    <3>4. ~Bound(v) => visitor'[v] = Away
      BY <2>1, <3>3 DEF CheckBinding
    <3> QED BY <1>1, <3>3, <3>4 DEF Away
  <2>5. /\ visitor[v].step = "certificate" /\ visitor[v].checked = "share"
        /\ visitor'[v].leaf = binding[visitor[v].name].leaf
    <3>1. /\ visitor[v].checked = "share" /\ visitor[v].step \in {"hello", "certificate", "verify"}
          /\ visitor'[v].step = Following[visitor[v].step]
          /\ visitor'[v].leaf = IF visitor[v].step = "certificate"
                                THEN binding[visitor[v].name].leaf ELSE visitor[v].leaf
      BY <2>1, <2>4 DEF CheckBinding, Checking, Visits
    <3>2. visitor[v].step = "certificate"
      BY <1>1, <3>1 DEF Following
    <3> QED BY <3>1, <3>2
  <2>6. /\ visitor[v].name \in Names /\ visitor[v].ref \in Refs
        /\ BoundTo(visitor[v].name, visitor[v].ref)
        /\ binding[visitor[v].name].leaf.ca = visitor[v].ca
        /\ ~Ended(visitor[v])
    BY <2>1, <2>4, <2>5 DEF VisitSafe, Bound, BoundTo
  <2>7. now < binding[visitor[v].name].leaf.until
    BY <2>6 DEF Ended
  <2>8. binding[visitor[v].name].leaf.name = visitor[v].name
    BY <1>1, <2>6, BindingIs
  <2> QED BY <2>5, <2>6, <2>7, <2>8
<1> DEFINE AllRight == \A v \in Visitors : Right(v)
<1>2. LANInv /\ [LANStep]_<<lanVars, certVars>> => [AllRight]_<<lanVars, certVars>>
  BY <1>1
<1> HIDE DEF AllRight
<1>3. LANSpec => [][AllRight]_<<lanVars, certVars>>
  BY <1>2, LANInvHolds, PTL DEF LANSpec
<1> QED BY <1>3 DEF LANHandshakeSound, AllRight

-----------------------------------------------------------------------------
(* As long as no two have worked on a share at a time *)

\* A Prepare has its share for itself.
PrepareAlone ==
    prepare.step # "idle" =>
      /\ rotation.step = "idle" /\ removal[prepare.ref].step = "idle"
      /\ share[prepare.ref].state # "none"
      /\ share[prepare.ref].name =
            IF prepare.step \in {"record", "clear"} THEN prepare.name ELSE prepare.previous
      /\ prepare.step \in {"activate", "record"} /\ BoundTo(prepare.name, prepare.ref) =>
            binding[prepare.name].leaf = prepare.leaf

\* A round goes by records that nobody has changed, or that are gone.
RoundAlone ==
    /\ rotation.step = "idle" => rotation.todo = {}
    /\ \A p, q \in rotation.todo : p[1] = q[1] => p = q
    /\ \A p \in rotation.todo : record[p[1]] \in {p[2], NoLANLeaf}
    /\ rotation.step \notin {"idle", "pick"} =>
         /\ \A p \in rotation.todo : p[1] # rotation.ref
         /\ record[rotation.ref] \in {rotation.old, NoLANLeaf}
    /\ rotation.step = "record" /\ BoundTo(rotation.old.name, rotation.ref) =>
         binding[rotation.old.name].leaf = rotation.leaf
    /\ rotation.step \in {"replace", "record"} /\ rotation.token = NoToken =>
         rotation.leaf.ca = rotation.old.ca

\* Nothing is kept of a share that is removed or is being removed.
Forgotten ==
    \A r \in Refs : removal[r].step # "idle" \/ share[r].state = "none" =>
        record[r] = NoLANLeaf /\ token[r] = NoToken

\* A host name that is bound is the share's, with a record of it or of an
\* older certificate; Remove and Prepare know of the others.
Leaving(r, n) ==
    /\ prepare.step \in {"record", "clear"} /\ prepare.ref = r
    /\ prepare.previous = n /\ prepare.name # n
Standing(r, n) ==
    share[r].name = n /\ record[r].name = n /\ Older(record[r], binding[n].leaf)
StandsInv ==
    \A r \in Refs, n \in Names :
        BoundTo(n, r) => Excused(r, n) \/ Leaving(r, n) \/ Standing(r, n)

\* Whose a setup page is.
OfShare(t) ==
    \E r \in Refs : token[r] = t /\ share[r].state # "none" /\ record[r].ca = session[t]
OfPrepare(t) ==
    /\ prepare.token = t
    /\ \/ prepare.step \in {"register", "activate", "record"} /\ prepare.leaf.ca = session[t]
       \/ prepare.step = "clear"
OfRound(t) ==
    rotation.token = t /\ rotation.step \in {"replace", "record"} /\ rotation.leaf.ca = session[t]
OfRemoval(t) == \E r \in Refs : removal[r].token = t /\ removal[r].step = "unbind"
OwnersInv ==
    \A t \in Tokens : session[t] # NoCA =>
        t <= drawn /\ (OfShare(t) \/ OfPrepare(t) \/ OfRound(t) \/ OfRemoval(t))

Uncrossed == PrepareAlone /\ RoundAlone /\ Forgotten /\ StandsInv /\ OwnersInv
CalmInv == ~crossed => Uncrossed

\* Who works on a share alone, and has done so far.
LEMMA CalmQuiet ==
    ASSUME LANInv, CalmInv, LANNext, UNCHANGED certVars, ~crossed'
    PROVE  /\ ~crossed /\ PrepareAlone /\ RoundAlone /\ Forgotten /\ StandsInv /\ OwnersInv
           /\ LANTypeOK /\ LANTypeOK' /\ LANInv'
           /\ LeavesInv /\ RoundInv /\ PreparationInv /\ LeavesInv' /\ RoundInv' /\ PreparationInv'
           /\ NewLeaves' = NewLeaves /\ KnownLeaves' = KnownLeaves /\ files' = files /\ now' = now
           /\ Current' = Current
<1>1. crossed' = crossed \/ crossed' = TRUE
  <2>1. \E p \in BOOLEAN : crossed' = (crossed \/ p) \/ crossed' = crossed
    BY DEF LANNext, PrepareStep, PrepareIssues, PrepareTrusts, PrepareRegisters, PrepareActivates,
           PrepareRecords, PrepareClears, RotationStep, RotationStarts, RotationPicks,
           RotationIssues, RotationTrusts, RotationReplaces, RotationRecords, VisitSetupPage,
           Request, Suspend, RemoveTakes, RemoveUnbinds, RemoveShare, PrepareStarts, Arrives,
           CheckAuthority, CheckShare, CheckBinding, Departs
  <2> QED BY <2>1 DEF LANInv, LANTypeOK
<1>2. ~crossed
  BY <1>1 DEF LANInv, LANTypeOK
<1>3. LANInv'
  BY LANNextKept
<1> QED BY <1>2, <1>3, LANQuiet DEF CalmInv, Uncrossed, LANInv

\* What is left of the setup pages after some are cleared, or one is drawn.
LEMMA ClearedIs ==
    ASSUME LANTypeOK, NEW S, NEW t \in Tokens, session' = Cleared(S), session'[t] # NoCA
    PROVE  t \notin S /\ session[t] # NoCA /\ session'[t] = session[t]
BY DEF Cleared

LEMMA DrawsIs ==
    ASSUME LANTypeOK, NEW ca, Draws(ca), NEW t \in Tokens
    PROVE  /\ drawn' = drawn + 1 /\ drawn + 1 \in Tokens
           /\ t <= drawn => t <= drawn'
           /\ t = drawn + 1 => session'[t] = ca /\ t <= drawn'
           /\ t # drawn + 1 => session'[t] = session[t]
BY LANBounds DEF LANTypeOK, Draws, Tokens

\* A binding that is there before and after a step that takes some away.
LEMMA StillBound ==
    ASSUME LANTypeOK, NEW n \in Names, NEW r \in Refs, NEW m, NEW q,
           binding' = Unbinds(m, q), BoundTo(n, r)'
    PROVE  binding'[n] = binding[n] /\ BoundTo(n, r) /\ (m # NoName => ~(n = m /\ r = q))
BY LANBounds DEF LANTypeOK, Unbinds, BoundTo, Unbound

\* A round that is done with a share goes on with the others.
LEMMA PassesIs ==
    ASSUME LANTypeOK, RoundAlone, rotation.step \notin {"idle", "pick"}, Passes,
           \A r \in Refs \ {rotation.ref} : record'[r] = record[r]
    PROVE  RoundAlone'
<1>1. /\ rotation'.todo = rotation.todo /\ rotation'.step \in {"idle", "pick"}
      /\ rotation'.step = "idle" => rotation.todo = {}
  BY DEF Passes, NotRotating
<1>2. \A p \in rotation.todo : p[1] \in Refs /\ p[1] # rotation.ref
  BY DEF LANTypeOK, Rotations, RoundAlone
<1> QED BY <1>1, <1>2 DEF RoundAlone

\* What the round has of a share.
LEMMA RoundIs ==
    ASSUME LANTypeOK, RoundInv, rotation.step \notin {"idle", "pick"}
    PROVE  /\ rotation.ref \in Refs /\ rotation.old \in LANLeaves /\ rotation.old # NoLANLeaf
           /\ rotation.old.name \in Names
           /\ rotation.step \in {"trust", "replace", "record"} => rotation.leaf \in LANLeaves
<1>1. rotation.ref \in Refs /\ rotation.old \in LANLeaves
  BY NewTyped DEF RoundInv
<1>2. rotation.old.name \in Names /\ rotation.old # NoLANLeaf
  BY <1>1, LANBounds DEF LANLeaves, NoLANLeaf
<1> QED BY <1>1, <1>2, NewTyped DEF RoundInv

-----------------------------------------------------------------------------
(* Every step keeps CalmInv, in the same order *)

LEMMA PrepareStartsCalm ==
    ASSUME LANInv, CalmInv, NEW r \in Refs, NEW n \in Names, PrepareStarts(r, n)
    PROVE  CalmInv'
<1> SUFFICES ASSUME ~crossed' PROVE Uncrossed'
  BY DEF CalmInv
<1>1. UNCHANGED certVars
  BY DEF PrepareStarts
<1>2. LANNext
  BY DEF LANNext
<1>3. PrepareAlone'
  BY <1>1, <1>2, CalmQuiet, NewTyped, LANBounds
     DEF PrepareStarts, managed, trustVars, PrepareAlone, BoundTo, PreparationInv, NotPreparing,
         LANTypeOK, Preparations
<1>4. RoundAlone'
  BY <1>1, <1>2, CalmQuiet
     DEF PrepareStarts, managed, trustVars, RoundAlone, BoundTo, RoundInv, NotRotating, LANTypeOK,
         Rotations
<1>5. Forgotten'
  BY <1>1, <1>2, CalmQuiet DEF PrepareStarts, managed, trustVars, Forgotten, LANTypeOK
<1>6. StandsInv'
  BY <1>1, <1>2, CalmQuiet, NewTyped, LANBounds
     DEF PrepareStarts, managed, trustVars, StandsInv, Excused, Leaving, Standing, BoundTo,
         LANTypeOK, PreparationInv
<1>7. OwnersInv'
  BY <1>1, <1>2, CalmQuiet, NewTyped, LANBounds
     DEF PrepareStarts, managed, trustVars, OwnersInv, OfShare, OfPrepare, OfRound, OfRemoval,
         LANTypeOK
<1> QED BY <1>3, <1>4, <1>5, <1>6, <1>7 DEF Uncrossed

LEMMA PrepareIssuesCalm ==
    ASSUME LANInv, CalmInv, PrepareIssues
    PROVE  CalmInv'
<1> SUFFICES ASSUME ~crossed' PROVE Uncrossed'
  BY DEF CalmInv
<1>1. UNCHANGED certVars
  BY DEF PrepareIssues
<1>2. LANNext
  BY DEF LANNext, PrepareStep
<1>3. PrepareAlone'
  BY <1>1, <1>2, CalmQuiet, NewTyped, LANBounds
     DEF PrepareIssues, managed, trustVars, PrepareAlone, BoundTo, PreparationInv, NotPreparing,
         LANTypeOK, Preparations
<1>4. RoundAlone'
  BY <1>1, <1>2, CalmQuiet
     DEF PrepareIssues, managed, trustVars, RoundAlone, BoundTo, RoundInv, NotRotating, LANTypeOK,
         Rotations
<1>5. Forgotten'
  BY <1>1, <1>2, CalmQuiet DEF PrepareIssues, managed, trustVars, Forgotten, LANTypeOK
<1>6. StandsInv'
  BY <1>1, <1>2, CalmQuiet, NewTyped, LANBounds
     DEF PrepareIssues, managed, trustVars, StandsInv, Excused, Leaving, Standing, BoundTo,
         LANTypeOK, PreparationInv
<1>7. OwnersInv'
  BY <1>1, <1>2, CalmQuiet, NewTyped, LANBounds
     DEF PrepareIssues, managed, trustVars, OwnersInv, OfShare, OfPrepare, OfRound, OfRemoval,
         LANTypeOK
<1> QED BY <1>3, <1>4, <1>5, <1>6, <1>7 DEF Uncrossed

LEMMA PrepareTrustsCalm ==
    ASSUME LANInv, CalmInv, PrepareTrusts
    PROVE  CalmInv'
<1> SUFFICES ASSUME ~crossed' PROVE Uncrossed'
  BY DEF CalmInv
<1>1. UNCHANGED certVars
  BY DEF PrepareTrusts
<1>2. LANNext
  BY DEF LANNext, PrepareStep
<1>3. PrepareAlone'
  <2>1. PICK tok : \/ prepare' = NotPreparing
                   \/ prepare' = [prepare EXCEPT !.step = "register", !.token = tok]
    BY DEF PrepareTrusts
  <2>2. prepare.step = "trust" /\ prepare \in Preparations
    BY <1>1, <1>2, CalmQuiet DEF PrepareTrusts, LANTypeOK
  <2>3. \/ prepare'.step = "idle"
        \/ /\ prepare'.step = "register" /\ prepare'.previous = prepare.previous
           /\ prepare'.ref = prepare.ref /\ prepare'.name = prepare.name /\ prepare'.leaf = prepare.leaf
    <3>1. CASE prepare' = NotPreparing
      BY <3>1 DEF NotPreparing
    <3>2. CASE prepare' = [prepare EXCEPT !.step = "register", !.token = tok]
      BY <2>2, <3>2 DEF Preparations
    <3> QED BY <2>1, <3>1, <3>2
  <2>4. rotation' = rotation /\ removal' = removal /\ share' = share
    BY DEF PrepareTrusts
  <2> QED BY <1>1, <1>2, <2>2, <2>3, <2>4, CalmQuiet DEF PrepareAlone
<1>4. RoundAlone'
  BY <1>1, <1>2, CalmQuiet
     DEF PrepareTrusts, managed, trustVars, RoundAlone, BoundTo, RoundInv, NotRotating, LANTypeOK,
         Rotations
<1>5. Forgotten'
  BY <1>1, <1>2, CalmQuiet DEF PrepareTrusts, managed, trustVars, Forgotten, LANTypeOK
<1>6. StandsInv'
  BY <1>1, <1>2, CalmQuiet, NewTyped, LANBounds
     DEF PrepareTrusts, Draws, Validates, managed, trustVars, StandsInv, Excused, Leaving,
         Standing, BoundTo, LANTypeOK, PreparationInv
<1>7. OwnersInv'
  <2> SUFFICES ASSUME NEW t \in Tokens, session'[t] # NoCA
               PROVE  t <= drawn' /\ (OfShare(t)' \/ OfPrepare(t)' \/ OfRound(t)' \/ OfRemoval(t)')
    BY DEF OwnersInv
  <2>0. /\ LANTypeOK
        /\ session[t] # NoCA => t <= drawn /\ (OfShare(t) \/ OfPrepare(t) \/ OfRound(t) \/ OfRemoval(t))
    BY <1>1, <1>2, CalmQuiet DEF OwnersInv
  <2>1. /\ token' = token /\ share' = share /\ record' = record /\ rotation' = rotation /\ removal' = removal
        /\ prepare.step = "trust" /\ prepare \in Preparations
    BY <2>0 DEF PrepareTrusts, LANTypeOK
  <2>2. ASSUME t <= drawn', session'[t] = session[t]
        PROVE  t <= drawn' /\ (OfShare(t)' \/ OfRound(t)' \/ OfRemoval(t)')
    BY <2>0, <2>1, <2>2 DEF OfShare, OfPrepare, OfRound, OfRemoval
  <2>3. CASE /\ Draws(prepare.leaf.ca)
             /\ prepare' = [prepare EXCEPT !.step = "register", !.token = drawn + 1]
    <3>1. CASE t = drawn + 1
      <4>1. session'[t] = prepare.leaf.ca /\ t <= drawn'
        BY <2>0, <2>3, <3>1, DrawsIs
      <4>2. prepare' = [prepare EXCEPT !.step = "register", !.token = t]
        BY <2>3, <3>1
      <4>3. prepare'.token = t /\ prepare'.step = "register" /\ prepare'.leaf = prepare.leaf
        BY <2>1, <4>2 DEF Preparations
      <4> QED BY <4>1, <4>3 DEF OfPrepare
    <3>2. CASE t # drawn + 1
      <4>1. session'[t] = session[t] /\ (t <= drawn => t <= drawn')
        BY <2>0, <2>3, <3>2, DrawsIs
      <4> QED BY <2>0, <2>2, <4>1
    <3> QED BY <3>1, <3>2
  <2>4. CASE session' = session /\ drawn' = drawn
    BY <2>0, <2>2, <2>4
  <2> QED BY <2>3, <2>4 DEF PrepareTrusts
<1> QED BY <1>3, <1>4, <1>5, <1>6, <1>7 DEF Uncrossed

LEMMA PrepareRegistersCalm ==
    ASSUME LANInv, CalmInv, PrepareRegisters
    PROVE  CalmInv'
<1> SUFFICES ASSUME ~crossed' PROVE Uncrossed'
  BY DEF CalmInv
<1>1. UNCHANGED certVars
  BY DEF PrepareRegisters
<1>2. LANNext
  BY DEF LANNext, PrepareStep
<1>3. PrepareAlone'
  BY <1>1, <1>2, CalmQuiet, NewTyped, LANBounds
     DEF PrepareRegisters, Cleared, managed, trustVars, PrepareAlone, BoundTo, PreparationInv,
         NotPreparing, LANTypeOK, Preparations
<1>4. RoundAlone'
  <2>1. rotation.step = "idle" /\ rotation' = rotation /\ rotation.todo = {}
    BY <1>1, <1>2, CalmQuiet DEF PrepareAlone, RoundAlone, PrepareRegisters
  <2> QED BY <2>1 DEF RoundAlone
<1>5. Forgotten'
  BY <1>1, <1>2, CalmQuiet DEF PrepareRegisters, managed, trustVars, Forgotten, LANTypeOK
<1>6. StandsInv'
  <2> SUFFICES ASSUME NEW q \in Refs, NEW n \in Names, BoundTo(n, q)', ~Excused(q, n)'
               PROVE  Leaving(q, n)' \/ Standing(q, n)'
    BY DEF StandsInv
  <2>0. /\ LANTypeOK /\ prepare \in Preparations
        /\ BoundTo(n, q) => Excused(q, n) \/ Leaving(q, n) \/ Standing(q, n)
    BY <1>1, <1>2, CalmQuiet DEF StandsInv, LANTypeOK
  <2>1. prepare.step = "register" /\ share' = share /\ record' = record /\ removal' = removal
    BY DEF PrepareRegisters
  <2>2. CASE binding'[n] = binding[n]
    BY <2>0, <2>1, <2>2 DEF BoundTo, Excused, Leaving, Standing
  <2>3. CASE binding'[n] # binding[n]
    <3>1. n = prepare.name /\ q = prepare.ref /\ prepare' = [prepare EXCEPT !.step = "activate"]
      BY <2>0, <2>3 DEF PrepareRegisters, LANTypeOK, BoundTo
    <3>2. Excused(q, n)'
      BY <2>0, <3>1 DEF Excused, Preparations
    <3> QED BY <3>2
  <2> QED BY <2>2, <2>3
<1>7. OwnersInv'
  <2> SUFFICES ASSUME NEW t \in Tokens, session'[t] # NoCA
               PROVE  t <= drawn' /\ (OfShare(t)' \/ OfPrepare(t)' \/ OfRound(t)' \/ OfRemoval(t)')
    BY DEF OwnersInv
  <2>0. /\ LANTypeOK
        /\ session[t] # NoCA => t <= drawn /\ (OfShare(t) \/ OfPrepare(t) \/ OfRound(t) \/ OfRemoval(t))
    BY <1>1, <1>2, CalmQuiet DEF OwnersInv
  <2>1. /\ token' = token /\ share' = share /\ record' = record /\ rotation' = rotation /\ removal' = removal
        /\ drawn' = drawn /\ prepare.step = "register" /\ prepare \in Preparations
    BY <2>0 DEF PrepareRegisters, LANTypeOK
  <2>2. CASE prepare' = [prepare EXCEPT !.step = "activate"] /\ session' = session
    <3>1. prepare'.step = "activate" /\ prepare'.token = prepare.token /\ prepare'.leaf = prepare.leaf
      BY <2>1, <2>2 DEF Preparations
    <3> QED BY <2>0, <2>1, <2>2, <3>1 DEF OfShare, OfPrepare, OfRound, OfRemoval
  <2>3. CASE session' = Cleared({prepare.token})
    <3>1. t # prepare.token /\ session[t] # NoCA /\ session'[t] = session[t]
      BY <2>0, <2>3, ClearedIs
    <3> QED BY <2>0, <2>1, <3>1 DEF OfShare, OfPrepare, OfRound, OfRemoval
  <2> QED BY <2>2, <2>3 DEF PrepareRegisters
<1> QED BY <1>3, <1>4, <1>5, <1>6, <1>7 DEF Uncrossed

LEMMA PrepareActivatesCalm ==
    ASSUME LANInv, CalmInv, PrepareActivates
    PROVE  CalmInv'
<1> SUFFICES ASSUME ~crossed' PROVE Uncrossed'
  BY DEF CalmInv
<1>1. UNCHANGED certVars
  BY DEF PrepareActivates
<1>2. LANNext
  BY DEF LANNext, PrepareStep
<1>3. PrepareAlone'
  <2>1. /\ prepare.step = "activate" /\ prepare \in Preparations /\ prepare.ref \in Refs
        /\ rotation' = rotation /\ removal' = removal /\ LANTypeOK /\ PrepareAlone
    BY <1>1, <1>2, CalmQuiet DEF PrepareActivates, LANTypeOK, PreparationInv
  <2>2. CASE prepare' = NotPreparing
    BY <2>2 DEF PrepareAlone, NotPreparing
  <2>3. CASE prepare' = [prepare EXCEPT !.step = "record"] /\ binding' = binding
             /\ share' = [share EXCEPT ![prepare.ref] = [state |-> "active", name |-> prepare.name]]
    <3>1. /\ prepare'.step = "record" /\ prepare'.ref = prepare.ref /\ prepare'.name = prepare.name
          /\ prepare'.leaf = prepare.leaf
      BY <2>1, <2>3 DEF Preparations
    <3>2. share'[prepare.ref].state = "active" /\ share'[prepare.ref].name = prepare.name
      BY <2>1, <2>3 DEF LANTypeOK
    <3> QED BY <2>1, <2>3, <3>1, <3>2 DEF PrepareAlone, BoundTo
  <2> QED BY <2>2, <2>3 DEF PrepareActivates
<1>4. RoundAlone'
  <2>1. rotation.step = "idle" /\ rotation' = rotation /\ rotation.todo = {}
    BY <1>1, <1>2, CalmQuiet DEF PrepareAlone, RoundAlone, PrepareActivates
  <2> QED BY <2>1 DEF RoundAlone
<1>5. Forgotten'
  BY <1>1, <1>2, CalmQuiet, NewTyped, LANBounds
     DEF PrepareActivates, Unbinds, Cleared, managed, trustVars, Forgotten, LANTypeOK
<1>6. StandsInv'
  <2> SUFFICES ASSUME NEW q \in Refs, NEW n \in Names, BoundTo(n, q)', ~Excused(q, n)'
               PROVE  Leaving(q, n)' \/ Standing(q, n)'
    BY DEF StandsInv
  <2>0. /\ LANTypeOK /\ prepare \in Preparations
        /\ BoundTo(n, q) => Excused(q, n) \/ Leaving(q, n) \/ Standing(q, n)
    BY <1>1, <1>2, CalmQuiet DEF StandsInv, LANTypeOK
  <2>1. /\ prepare.step = "activate" /\ record' = record /\ removal' = removal
        /\ prepare.ref \in Refs /\ prepare.name \in Names /\ share[prepare.ref].name = prepare.previous
    BY <1>1, <1>2, CalmQuiet DEF PrepareActivates, PreparationInv, PrepareAlone
  <2>2. CASE prepare' = [prepare EXCEPT !.step = "record"] /\ binding' = binding
             /\ share' = [share EXCEPT ![prepare.ref] = [state |-> "active", name |-> prepare.name]]
    <3>1. /\ prepare'.step = "record" /\ prepare'.ref = prepare.ref /\ prepare'.name = prepare.name
          /\ prepare'.previous = prepare.previous
      BY <2>0, <2>2 DEF Preparations
    <3>2. ~Excused(q, n) /\ ~(q = prepare.ref /\ n = prepare.name)
      BY <2>1, <3>1 DEF Excused
    <3>3. Standing(q, n)
      BY <2>0, <2>1, <2>2, <3>2 DEF BoundTo, Leaving
    <3>4. CASE q = prepare.ref
      BY <2>1, <3>1, <3>2, <3>3, <3>4 DEF Leaving, Standing
    <3>5. CASE q # prepare.ref
      <4>1. share'[q] = share[q]
        BY <2>0, <2>2, <3>5 DEF LANTypeOK
      <4> QED BY <2>1, <2>2, <3>3, <4>1 DEF Standing
    <3> QED BY <3>4, <3>5
  <2>3. CASE share' = share /\ binding' = Unbinds(prepare.name, prepare.ref)
    <3>1. binding'[n] = binding[n] /\ BoundTo(n, q) /\ ~(n = prepare.name /\ q = prepare.ref)
      BY <2>0, <2>1, <2>3, LANBounds, StillBound
    <3>2. ~Excused(q, n) /\ ~Leaving(q, n)
      BY <2>1, <3>1 DEF Excused, Leaving
    <3> QED BY <2>0, <2>1, <2>3, <3>1, <3>2 DEF Standing
  <2> QED BY <2>2, <2>3 DEF PrepareActivates
<1>7. OwnersInv'
  <2> SUFFICES ASSUME NEW t \in Tokens, session'[t] # NoCA
               PROVE  t <= drawn' /\ (OfShare(t)' \/ OfPrepare(t)' \/ OfRound(t)' \/ OfRemoval(t)')
    BY DEF OwnersInv
  <2>0. /\ LANTypeOK
        /\ session[t] # NoCA => t <= drawn /\ (OfShare(t) \/ OfPrepare(t) \/ OfRound(t) \/ OfRemoval(t))
    BY <1>1, <1>2, CalmQuiet DEF OwnersInv
  <2>1. /\ token' = token /\ record' = record /\ rotation' = rotation /\ removal' = removal
        /\ drawn' = drawn /\ prepare.step = "activate" /\ prepare \in Preparations
    BY <2>0 DEF PrepareActivates, LANTypeOK
  <2>2. CASE prepare' = [prepare EXCEPT !.step = "record"] /\ session' = session
             /\ share' = [share EXCEPT ![prepare.ref] = [state |-> "active", name |-> prepare.name]]
    <3>1. prepare'.step = "record" /\ prepare'.token = prepare.token /\ prepare'.leaf = prepare.leaf
      BY <2>1, <2>2 DEF Preparations
    <3>2. \A r \in Refs : share[r].state # "none" => share'[r].state # "none"
      BY <2>0, <2>2 DEF LANTypeOK
    <3> QED BY <2>0, <2>1, <2>2, <3>1, <3>2 DEF OfShare, OfPrepare, OfRound, OfRemoval
  <2>3. CASE session' = Cleared({prepare.token}) /\ share' = share
    <3>1. t # prepare.token /\ session[t] # NoCA /\ session'[t] = session[t]
      BY <2>0, <2>3, ClearedIs
    <3> QED BY <2>0, <2>1, <2>3, <3>1 DEF OfShare, OfPrepare, OfRound, OfRemoval
  <2> QED BY <2>2, <2>3 DEF PrepareActivates
<1> QED BY <1>3, <1>4, <1>5, <1>6, <1>7 DEF Uncrossed

LEMMA PrepareRecordsCalm ==
    ASSUME LANInv, CalmInv, PrepareRecords
    PROVE  CalmInv'
<1> SUFFICES ASSUME ~crossed' PROVE Uncrossed'
  BY DEF CalmInv
<1>1. UNCHANGED certVars
  BY DEF PrepareRecords
<1>2. LANNext
  BY DEF LANNext, PrepareStep
<1>3. PrepareAlone'
  BY <1>1, <1>2, CalmQuiet, NewTyped, LANBounds
     DEF PrepareRecords, managed, trustVars, PrepareAlone, BoundTo, PreparationInv, NotPreparing,
         LANTypeOK, Preparations
<1>4. RoundAlone'
  <2>1. rotation.step = "idle" /\ rotation' = rotation /\ rotation.todo = {}
    BY <1>1, <1>2, CalmQuiet DEF PrepareAlone, RoundAlone, PrepareRecords
  <2> QED BY <2>1 DEF RoundAlone
<1>5. Forgotten'
  <2>1. /\ share' = share /\ removal' = removal /\ prepare.ref \in Refs
        /\ removal[prepare.ref].step = "idle" /\ share[prepare.ref].state # "none" /\ Forgotten
    BY <1>1, <1>2, CalmQuiet DEF PrepareRecords, PrepareAlone, PreparationInv
  <2>2. \A r \in Refs \ {prepare.ref} : record'[r] = record[r] /\ token'[r] = token[r]
    BY <1>1, <1>2, CalmQuiet DEF PrepareRecords, LANTypeOK
  <2> QED BY <2>1, <2>2 DEF Forgotten
<1>6. StandsInv'
  <2> SUFFICES ASSUME NEW q \in Refs, NEW n \in Names, BoundTo(n, q)', ~Excused(q, n)'
               PROVE  Leaving(q, n)' \/ Standing(q, n)'
    BY DEF StandsInv
  <2>0. /\ LANTypeOK /\ prepare \in Preparations
        /\ BoundTo(n, q) => Excused(q, n) \/ Leaving(q, n) \/ Standing(q, n)
    BY <1>1, <1>2, CalmQuiet DEF StandsInv, LANTypeOK
  <2>1. /\ prepare.step = "record" /\ binding' = binding /\ share' = share /\ removal' = removal
        /\ prepare.ref \in Refs /\ prepare.leaf.name = prepare.name
        /\ share[prepare.ref].name = prepare.name
        /\ BoundTo(prepare.name, prepare.ref) => binding[prepare.name].leaf = prepare.leaf
    BY <1>1, <1>2, CalmQuiet DEF PrepareRecords, PreparationInv, PrepareAlone
  <2>2. /\ prepare'.step = "clear" /\ prepare'.ref = prepare.ref
        /\ prepare'.name = prepare.name /\ prepare'.previous = prepare.previous
    <3>1. PICK tok : prepare' = [prepare EXCEPT !.step = "clear", !.token = tok]
      BY DEF PrepareRecords
    <3> QED BY <2>0, <3>1 DEF Preparations
  <2>3. CASE Leaving(q, n)
    BY <2>2, <2>3 DEF Leaving
  <2>4. CASE q = prepare.ref /\ n = prepare.name
    <3>1. record'[q] = prepare.leaf
      BY <2>0, <2>1, <2>4 DEF PrepareRecords, LANTypeOK
    <3>2. prepare.leaf \in LANLeaves
      BY <1>1, <1>2, <2>1, CalmQuiet, NewTyped DEF PreparationInv
    <3>3. Older(prepare.leaf, prepare.leaf)
      BY <3>2, Bounds, LANBounds DEF Older, LANLeaves
    <3> QED BY <2>1, <2>4, <3>1, <3>3 DEF Standing, BoundTo
  <2>5. CASE ~Leaving(q, n) /\ ~(q = prepare.ref /\ n = prepare.name)
    <3>1. ~Excused(q, n)
      BY <2>1, <2>5 DEF Excused
    <3>2. Standing(q, n)
      BY <2>0, <2>1, <2>5, <3>1 DEF BoundTo
    <3>3. q # prepare.ref
      BY <2>1, <2>5, <3>2 DEF Standing
    <3>4. record'[q] = record[q]
      BY <2>0, <3>3 DEF PrepareRecords, LANTypeOK
    <3> QED BY <2>1, <3>2, <3>4 DEF Standing
  <2> QED BY <2>3, <2>4, <2>5
<1>7. OwnersInv'
  <2> SUFFICES ASSUME NEW t \in Tokens, session'[t] # NoCA
               PROVE  t <= drawn' /\ (OfShare(t)' \/ OfPrepare(t)' \/ OfRound(t)' \/ OfRemoval(t)')
    BY DEF OwnersInv
  <2>0. /\ LANTypeOK
        /\ session[t] # NoCA => t <= drawn /\ (OfShare(t) \/ OfPrepare(t) \/ OfRound(t) \/ OfRemoval(t))
    BY <1>1, <1>2, CalmQuiet DEF OwnersInv
  <2>1. /\ session' = session /\ share' = share /\ rotation' = rotation /\ removal' = removal
        /\ drawn' = drawn /\ prepare.step = "record" /\ prepare \in Preparations /\ prepare.ref \in Refs
        /\ share[prepare.ref].state # "none"
    BY <1>1, <1>2, <2>0, CalmQuiet DEF PrepareRecords, LANTypeOK, PreparationInv, PrepareAlone
  <2>2. prepare'.step = "clear" /\ prepare'.token = token[prepare.ref]
    <3>1. PICK tok : prepare' = [prepare EXCEPT !.step = "clear", !.token = tok] /\ tok = token[prepare.ref]
      BY DEF PrepareRecords
    <3> QED BY <2>1, <3>1 DEF Preparations
  <2>3. /\ token'[prepare.ref] = prepare.token /\ record'[prepare.ref] = prepare.leaf
        /\ \A r \in Refs \ {prepare.ref} : token'[r] = token[r] /\ record'[r] = record[r]
    BY <2>0, <2>1 DEF PrepareRecords, LANTypeOK
  <2>4. CASE OfShare(t)
    <3>1. PICK r \in Refs : token[r] = t /\ share[r].state # "none" /\ record[r].ca = session[t]
      BY <2>4 DEF OfShare
    <3>2. CASE r = prepare.ref
      BY <2>0, <2>1, <2>2, <3>1, <3>2 DEF OfPrepare
    <3>3. CASE r # prepare.ref
      BY <2>0, <2>1, <2>3, <3>1, <3>3 DEF OfShare
    <3> QED BY <3>2, <3>3
  <2>5. CASE OfPrepare(t)
    BY <2>0, <2>1, <2>3, <2>5 DEF OfPrepare, OfShare
  <2>6. CASE OfRound(t) \/ OfRemoval(t)
    BY <2>0, <2>1, <2>6 DEF OfRound, OfRemoval
  <2> QED BY <2>0, <2>1, <2>4, <2>5, <2>6
<1> QED BY <1>3, <1>4, <1>5, <1>6, <1>7 DEF Uncrossed

LEMMA PrepareClearsCalm ==
    ASSUME LANInv, CalmInv, PrepareClears
    PROVE  CalmInv'
<1> SUFFICES ASSUME ~crossed' PROVE Uncrossed'
  BY DEF CalmInv
<1>1. UNCHANGED certVars
  BY DEF PrepareClears
<1>2. LANNext
  BY DEF LANNext, PrepareStep
<1>3. PrepareAlone'
  BY <1>1, <1>2, CalmQuiet, NewTyped, LANBounds
     DEF PrepareClears, Unbinds, Cleared, managed, trustVars, PrepareAlone, BoundTo,
         PreparationInv, NotPreparing, LANTypeOK, Preparations
<1>4. RoundAlone'
  <2>1. rotation.step = "idle" /\ rotation' = rotation /\ rotation.todo = {}
    BY <1>1, <1>2, CalmQuiet DEF PrepareAlone, RoundAlone, PrepareClears
  <2> QED BY <2>1 DEF RoundAlone
<1>5. Forgotten'
  BY <1>1, <1>2, CalmQuiet DEF PrepareClears, managed, trustVars, Forgotten, LANTypeOK
<1>6. StandsInv'
  <2> SUFFICES ASSUME NEW q \in Refs, NEW n \in Names, BoundTo(n, q)', ~Excused(q, n)'
               PROVE  Leaving(q, n)' \/ Standing(q, n)'
    BY DEF StandsInv
  <2>0. /\ LANTypeOK /\ prepare \in Preparations
        /\ BoundTo(n, q) => Excused(q, n) \/ Leaving(q, n) \/ Standing(q, n)
    BY <1>1, <1>2, CalmQuiet DEF StandsInv, LANTypeOK
  <2>1. prepare.step = "clear" /\ share' = share /\ record' = record /\ removal' = removal
    BY DEF PrepareClears
  <2>2. binding'[n] = binding[n] /\ BoundTo(n, q) /\ ~Leaving(q, n)
    <3>1. CASE binding' = binding /\ prepare.previous = prepare.name
      BY <3>1 DEF Leaving, BoundTo
    <3>2. CASE binding' = Unbinds(prepare.previous, prepare.ref)
      <4>1. binding'[n] = binding[n] /\ BoundTo(n, q)
            /\ (prepare.previous # NoName => ~(n = prepare.previous /\ q = prepare.ref))
        BY <2>0, <3>2, StillBound
      <4> QED BY <4>1, LANBounds DEF Leaving
    <3> QED BY <3>1, <3>2 DEF PrepareClears
  <2>3. ~Excused(q, n)
    BY <2>1 DEF Excused
  <2> QED BY <2>0, <2>1, <2>2, <2>3 DEF Standing
<1>7. OwnersInv'
  BY <1>1, <1>2, CalmQuiet, NewTyped, LANBounds
     DEF PrepareClears, Unbinds, Cleared, managed, trustVars, OwnersInv, OfShare, OfPrepare,
         OfRound, OfRemoval, LANTypeOK
<1> QED BY <1>3, <1>4, <1>5, <1>6, <1>7 DEF Uncrossed

LEMMA RotationStartsCalm ==
    ASSUME LANInv, CalmInv, RotationStarts
    PROVE  CalmInv'
<1> SUFFICES ASSUME ~crossed' PROVE Uncrossed'
  BY DEF CalmInv
<1>1. UNCHANGED certVars
  BY DEF RotationStarts
<1>2. LANNext
  BY DEF LANNext, RotationStep
<1>3. PrepareAlone'
  BY <1>1, <1>2, CalmQuiet, NewTyped, LANBounds
     DEF RotationStarts, managed, trustVars, PrepareAlone, BoundTo, PreparationInv, NotPreparing,
         LANTypeOK, Preparations
<1>4. RoundAlone'
  <2>0. /\ LANTypeOK /\ RoundAlone /\ RoundInv /\ rotation \in Rotations /\ Forgotten
    BY <1>1, <1>2, CalmQuiet DEF LANTypeOK
  <2>1. DEFINE S == {q \in Refs : Due(record[q], Current)}
  <2>2. rotation'.step = "pick" /\ rotation'.todo = {<<r, record[r]>> : r \in S} /\ record' = record
    BY DEF RotationStarts, NotRotating, managed
  <2>3. \A p \in rotation'.todo : \E r \in Refs : p = <<r, record[r]>>
    BY <2>2
  <2>4. \A p \in rotation'.todo : p[1] \in Refs /\ p = <<p[1], record[p[1]]>> /\ record[p[1]] = p[2]
    BY <2>3
  <2> HIDE DEF S
  <2>5. \A p, q \in rotation'.todo : p[1] = q[1] => p = q
    BY <2>4
  <2>6. \A p \in rotation'.todo : record'[p[1]] \in {p[2], NoLANLeaf}
    BY <2>2, <2>4
  <2> QED BY <2>2, <2>5, <2>6 DEF RoundAlone
<1>5. Forgotten'
  BY <1>1, <1>2, CalmQuiet DEF RotationStarts, managed, trustVars, Forgotten, LANTypeOK
<1>6. StandsInv'
  BY <1>1, <1>2, CalmQuiet
     DEF RotationStarts, managed, trustVars, StandsInv, Excused, Leaving, Standing, BoundTo,
         LANTypeOK, PreparationInv
<1>7. OwnersInv'
  BY <1>1, <1>2, CalmQuiet, NewTyped, LANBounds
     DEF RotationStarts, managed, trustVars, OwnersInv, OfShare, OfPrepare, OfRound, OfRemoval,
         LANTypeOK
<1> QED BY <1>3, <1>4, <1>5, <1>6, <1>7 DEF Uncrossed

LEMMA RotationPicksCalm ==
    ASSUME LANInv, CalmInv, NEW r \in Refs, NEW leaf, <<r, leaf>> \in rotation.todo, RotationPicks(r, leaf)
    PROVE  CalmInv'
<1> SUFFICES ASSUME ~crossed' PROVE Uncrossed'
  BY DEF CalmInv
<1>1. UNCHANGED certVars
  BY DEF RotationPicks
<1>2. LANNext
  <2>1. RotationPicks(<<r, leaf>>[1], <<r, leaf>>[2])
    OBVIOUS
  <2> QED BY <2>1 DEF LANNext, RotationStep
<1>3. PrepareAlone'
  BY <1>1, <1>2, CalmQuiet, NewTyped, LANBounds
     DEF RotationPicks, Cleared, managed, trustVars, PrepareAlone, BoundTo, PreparationInv,
         NotPreparing, LANTypeOK, Preparations
<1>4. RoundAlone'
  BY <1>1, <1>2, CalmQuiet, NewTyped, LANBounds
     DEF RotationPicks, Cleared, managed, trustVars, RoundAlone, BoundTo, RoundInv, NotRotating,
         LANTypeOK, Rotations
<1>5. Forgotten'
  BY <1>1, <1>2, CalmQuiet, NewTyped, LANBounds
     DEF RotationPicks, Cleared, managed, trustVars, Forgotten, LANTypeOK
<1>6. StandsInv'
  BY <1>1, <1>2, CalmQuiet
     DEF RotationPicks, managed, trustVars, StandsInv, Excused, Leaving, Standing, BoundTo,
         LANTypeOK, PreparationInv
<1>7. OwnersInv'
  BY <1>1, <1>2, CalmQuiet, NewTyped, LANBounds
     DEF RotationPicks, Cleared, managed, trustVars, OwnersInv, OfShare, OfPrepare, OfRound,
         OfRemoval, LANTypeOK
<1> QED BY <1>3, <1>4, <1>5, <1>6, <1>7 DEF Uncrossed

LEMMA RotationIssuesCalm ==
    ASSUME LANInv, CalmInv, RotationIssues
    PROVE  CalmInv'
<1> SUFFICES ASSUME ~crossed' PROVE Uncrossed'
  BY DEF CalmInv
<1>1. UNCHANGED certVars
  BY DEF RotationIssues
<1>2. LANNext
  BY DEF LANNext, RotationStep
<1>3. PrepareAlone'
  BY <1>1, <1>2, CalmQuiet, NewTyped, LANBounds
     DEF RotationIssues, Passes, managed, trustVars, PrepareAlone, BoundTo, PreparationInv,
         NotPreparing, LANTypeOK, Preparations
<1>4. RoundAlone'
  <2>0. /\ LANTypeOK /\ RoundAlone /\ RoundInv /\ rotation \in Rotations /\ Forgotten
    BY <1>1, <1>2, CalmQuiet DEF LANTypeOK
  <2>1. /\ rotation.step = "issue" /\ record' = record /\ binding' = binding
    BY DEF RotationIssues, managed
  <2>2. CASE Passes
    BY <2>0, <2>1, <2>2, PassesIs
  <2>3. CASE rotation' = [rotation EXCEPT !.step = "trust", !.leaf = LANIssued(rotation.old.name)]
    <3>1. /\ rotation'.step = "trust" /\ rotation'.todo = rotation.todo /\ rotation'.ref = rotation.ref
          /\ rotation'.old = rotation.old
      BY <2>0, <2>3 DEF Rotations
    <3> QED BY <2>0, <2>1, <3>1 DEF RoundAlone
  <2> QED BY <2>2, <2>3 DEF RotationIssues
<1>5. Forgotten'
  BY <1>1, <1>2, CalmQuiet DEF RotationIssues, managed, trustVars, Forgotten, LANTypeOK
<1>6. StandsInv'
  BY <1>1, <1>2, CalmQuiet
     DEF RotationIssues, managed, trustVars, StandsInv, Excused, Leaving, Standing, BoundTo,
         LANTypeOK, PreparationInv
<1>7. OwnersInv'
  BY <1>1, <1>2, CalmQuiet, NewTyped, LANBounds
     DEF RotationIssues, Passes, managed, trustVars, OwnersInv, OfShare, OfPrepare, OfRound,
         OfRemoval, LANTypeOK
<1> QED BY <1>3, <1>4, <1>5, <1>6, <1>7 DEF Uncrossed

LEMMA RotationTrustsCalm ==
    ASSUME LANInv, CalmInv, RotationTrusts
    PROVE  CalmInv'
<1> SUFFICES ASSUME ~crossed' PROVE Uncrossed'
  BY DEF CalmInv
<1>1. UNCHANGED certVars
  BY DEF RotationTrusts
<1>2. LANNext
  BY DEF LANNext, RotationStep
<1>3. PrepareAlone'
  BY <1>1, <1>2, CalmQuiet, NewTyped, LANBounds
     DEF RotationTrusts, Passes, Draws, Validates, managed, trustVars, PrepareAlone, BoundTo,
         PreparationInv, NotPreparing, LANTypeOK, Preparations
<1>4. RoundAlone'
  <2>0. /\ LANTypeOK /\ RoundAlone /\ RoundInv /\ rotation \in Rotations /\ Forgotten
    BY <1>1, <1>2, CalmQuiet DEF LANTypeOK
  <2>1. rotation.step = "trust" /\ record' = record /\ binding' = binding
    BY DEF RotationTrusts
  <2>2. CASE rotation' = [rotation EXCEPT !.step = "replace", !.token = drawn + 1]
    <3>1. /\ rotation'.step = "replace" /\ rotation'.todo = rotation.todo /\ rotation'.ref = rotation.ref
          /\ rotation'.old = rotation.old /\ rotation'.token = drawn + 1
      BY <2>0, <2>2 DEF Rotations
    <3>2. drawn + 1 # NoToken
      BY <2>0, LANBounds DEF LANTypeOK, NoToken
    <3> QED BY <2>0, <2>1, <3>1, <3>2 DEF RoundAlone
  <2>3. CASE rotation.leaf.ca = rotation.old.ca /\ rotation' = [rotation EXCEPT !.step = "replace"]
    <3>1. /\ rotation'.step = "replace" /\ rotation'.todo = rotation.todo /\ rotation'.ref = rotation.ref
          /\ rotation'.old = rotation.old /\ rotation'.leaf = rotation.leaf
      BY <2>0, <2>3 DEF Rotations
    <3> QED BY <2>0, <2>1, <2>3, <3>1 DEF RoundAlone
  <2>4. CASE Passes
    BY <2>0, <2>1, <2>4, PassesIs
  <2> QED BY <2>2, <2>3, <2>4 DEF RotationTrusts
<1>5. Forgotten'
  BY <1>1, <1>2, CalmQuiet DEF RotationTrusts, managed, trustVars, Forgotten, LANTypeOK
<1>6. StandsInv'
  BY <1>1, <1>2, CalmQuiet
     DEF RotationTrusts, managed, trustVars, StandsInv, Excused, Leaving, Standing, BoundTo,
         LANTypeOK, PreparationInv
<1>7. OwnersInv'
  <2> SUFFICES ASSUME NEW t \in Tokens, session'[t] # NoCA
               PROVE  t <= drawn' /\ (OfShare(t)' \/ OfPrepare(t)' \/ OfRound(t)' \/ OfRemoval(t)')
    BY DEF OwnersInv
  <2>0. /\ LANTypeOK
        /\ session[t] # NoCA => t <= drawn /\ (OfShare(t) \/ OfPrepare(t) \/ OfRound(t) \/ OfRemoval(t))
    BY <1>1, <1>2, CalmQuiet DEF OwnersInv
  <2>a. /\ RoundAlone /\ RoundInv /\ rotation \in Rotations /\ Forgotten /\ PrepareAlone
    BY <1>1, <1>2, CalmQuiet DEF LANTypeOK
  <2>1. /\ token' = token /\ share' = share /\ record' = record /\ prepare' = prepare /\ removal' = removal
        /\ rotation.step = "trust"
    BY DEF RotationTrusts
  <2>2. ASSUME t <= drawn', session'[t] = session[t]
        PROVE  t <= drawn' /\ (OfShare(t)' \/ OfPrepare(t)' \/ OfRemoval(t)')
    BY <2>0, <2>1, <2>2 DEF OfShare, OfPrepare, OfRound, OfRemoval
  <2>3. CASE /\ Draws(rotation.leaf.ca)
             /\ rotation' = [rotation EXCEPT !.step = "replace", !.token = drawn + 1]
    <3>1. CASE t = drawn + 1
      <4>1. session'[t] = rotation.leaf.ca /\ t <= drawn'
        BY <2>0, <2>3, <3>1, DrawsIs
      <4>2. rotation' = [rotation EXCEPT !.step = "replace", !.token = t]
        BY <2>3, <3>1
      <4>3. rotation'.token = t /\ rotation'.step = "replace" /\ rotation'.leaf = rotation.leaf
        BY <2>a, <4>2 DEF Rotations
      <4> QED BY <4>1, <4>3 DEF OfRound
    <3>2. CASE t # drawn + 1
      <4>1. session'[t] = session[t] /\ (t <= drawn => t <= drawn')
        BY <2>0, <2>3, <3>2, DrawsIs
      <4> QED BY <2>0, <2>2, <4>1
    <3> QED BY <3>1, <3>2
  <2>4. CASE session' = session /\ drawn' = drawn
    BY <2>0, <2>2, <2>4
  <2> QED BY <2>3, <2>4 DEF RotationTrusts
<1> QED BY <1>3, <1>4, <1>5, <1>6, <1>7 DEF Uncrossed

LEMMA RotationReplacesCalm ==
    ASSUME LANInv, CalmInv, RotationReplaces
    PROVE  CalmInv'
<1> SUFFICES ASSUME ~crossed' PROVE Uncrossed'
  BY DEF CalmInv
<1>1. UNCHANGED certVars
  BY DEF RotationReplaces
<1>2. LANNext
  BY DEF LANNext, RotationStep
<1>3. PrepareAlone'
  BY <1>1, <1>2, CalmQuiet, NewTyped, LANBounds
     DEF RotationReplaces, Passes, Cleared, managed, trustVars, PrepareAlone, BoundTo,
         PreparationInv, NotPreparing, LANTypeOK, Preparations
<1>4. RoundAlone'
  <2>0. /\ LANTypeOK /\ RoundAlone /\ RoundInv /\ rotation \in Rotations /\ Forgotten
    BY <1>1, <1>2, CalmQuiet DEF LANTypeOK
  <2>1. rotation.step = "replace" /\ record' = record
    BY DEF RotationReplaces
  <2>2. CASE /\ binding' = [binding EXCEPT ![rotation.old.name].leaf = rotation.leaf]
             /\ binding[rotation.old.name].ref = rotation.ref
             /\ rotation' = [rotation EXCEPT !.step = "record"]
    <3>1. /\ rotation'.step = "record" /\ rotation'.todo = rotation.todo /\ rotation'.ref = rotation.ref
          /\ rotation'.old = rotation.old /\ rotation'.leaf = rotation.leaf /\ rotation'.token = rotation.token
      BY <2>0, <2>2 DEF Rotations
    <3>2. rotation.old.name \in Names /\ rotation.ref \in Refs
      BY <2>0, <2>1, RoundIs
    <3>3. binding[rotation.old.name] \in [ref : Refs, leaf : LANLeaves]
      BY <2>0, <2>2, <3>2, LANBounds DEF LANTypeOK, Unbound
    <3>4. binding'[rotation.old.name].leaf = rotation.leaf
      BY <2>0, <2>2, <3>2, <3>3 DEF LANTypeOK
    <3> QED BY <2>0, <2>1, <3>1, <3>4 DEF RoundAlone
  <2>3. CASE Passes
    BY <2>0, <2>1, <2>3, PassesIs
  <2> QED BY <2>2, <2>3 DEF RotationReplaces
<1>5. Forgotten'
  BY <1>1, <1>2, CalmQuiet DEF RotationReplaces, managed, trustVars, Forgotten, LANTypeOK
<1>6. StandsInv'
  <2> SUFFICES ASSUME NEW q \in Refs, NEW n \in Names, BoundTo(n, q)', ~Excused(q, n)'
               PROVE  Leaving(q, n)' \/ Standing(q, n)'
    BY DEF StandsInv
  <2>0. /\ LANTypeOK /\ prepare \in Preparations
        /\ BoundTo(n, q) => Excused(q, n) \/ Leaving(q, n) \/ Standing(q, n)
    BY <1>1, <1>2, CalmQuiet DEF StandsInv, LANTypeOK
  <2>a. /\ RoundAlone /\ RoundInv /\ rotation \in Rotations /\ Forgotten /\ PrepareAlone
    BY <1>1, <1>2, CalmQuiet DEF LANTypeOK
  <2>1. /\ rotation.step = "replace" /\ share' = share /\ record' = record
        /\ removal' = removal /\ prepare' = prepare
    BY DEF RotationReplaces
  <2>2. rotation.old.name \in Names /\ rotation.ref \in Refs /\ Older(rotation.old, rotation.leaf)
    BY <2>0, <2>a, <2>1, RoundIs DEF RoundInv
  <2>3. CASE /\ binding[rotation.old.name].ref = rotation.ref
             /\ binding' = [binding EXCEPT ![rotation.old.name].leaf = rotation.leaf]
    <3>1. CASE n = rotation.old.name
      <4>1. binding[n] \in [ref : Refs, leaf : LANLeaves]
        BY <2>0, <2>2, <2>3, <3>1, LANBounds DEF LANTypeOK, Unbound
      <4>2. binding'[n].ref = rotation.ref /\ binding'[n].leaf = rotation.leaf
        BY <2>0, <2>2, <2>3, <3>1, <4>1 DEF LANTypeOK
      <4>3. q = rotation.ref /\ BoundTo(n, q)
        BY <2>3, <3>1, <4>2 DEF BoundTo
      <4>4. CASE Excused(q, n) \/ Leaving(q, n)
        BY <2>1, <4>4 DEF Excused, Leaving
      <4>5. CASE Standing(q, n)
        <5>1. record[q] = rotation.old
          BY <2>a, <2>1, <4>3, <4>5, LANBounds DEF RoundAlone, Standing, NoLANLeaf
        <5> QED BY <2>1, <2>2, <4>2, <4>5, <5>1 DEF Standing
      <4> QED BY <2>0, <4>3, <4>4, <4>5
    <3>2. CASE n # rotation.old.name
      <4>1. binding'[n] = binding[n]
        BY <2>0, <2>3, <3>2 DEF LANTypeOK
      <4> QED BY <2>0, <2>1, <4>1 DEF BoundTo, Excused, Leaving, Standing
    <3> QED BY <3>1, <3>2
  <2>4. CASE binding' = binding
    BY <2>0, <2>1, <2>4 DEF BoundTo, Excused, Leaving, Standing
  <2> QED BY <2>3, <2>4 DEF RotationReplaces
<1>7. OwnersInv'
  <2> SUFFICES ASSUME NEW t \in Tokens, session'[t] # NoCA
               PROVE  t <= drawn' /\ (OfShare(t)' \/ OfPrepare(t)' \/ OfRound(t)' \/ OfRemoval(t)')
    BY DEF OwnersInv
  <2>0. /\ LANTypeOK
        /\ session[t] # NoCA => t <= drawn /\ (OfShare(t) \/ OfPrepare(t) \/ OfRound(t) \/ OfRemoval(t))
    BY <1>1, <1>2, CalmQuiet DEF OwnersInv
  <2>a. /\ RoundAlone /\ RoundInv /\ rotation \in Rotations /\ Forgotten /\ PrepareAlone
    BY <1>1, <1>2, CalmQuiet DEF LANTypeOK
  <2>1. /\ token' = token /\ share' = share /\ record' = record /\ prepare' = prepare /\ removal' = removal
        /\ drawn' = drawn /\ rotation.step = "replace"
    BY DEF RotationReplaces
  <2>2. CASE rotation' = [rotation EXCEPT !.step = "record"] /\ session' = session
    <3>1. rotation'.step = "record" /\ rotation'.token = rotation.token /\ rotation'.leaf = rotation.leaf
      BY <2>a, <2>2 DEF Rotations
    <3> QED BY <2>0, <2>1, <2>2, <3>1 DEF OfShare, OfPrepare, OfRound, OfRemoval
  <2>3. CASE session' = Cleared({rotation.token})
    <3>1. t # rotation.token /\ session[t] # NoCA /\ session'[t] = session[t]
      BY <2>0, <2>3, ClearedIs
    <3> QED BY <2>0, <2>1, <3>1 DEF OfShare, OfPrepare, OfRound, OfRemoval
  <2> QED BY <2>2, <2>3 DEF RotationReplaces
<1> QED BY <1>3, <1>4, <1>5, <1>6, <1>7 DEF Uncrossed

LEMMA RotationRecordsCalm ==
    ASSUME LANInv, CalmInv, RotationRecords
    PROVE  CalmInv'
<1> SUFFICES ASSUME ~crossed' PROVE Uncrossed'
  BY DEF CalmInv
<1>1. UNCHANGED certVars
  BY DEF RotationRecords
<1>2. LANNext
  BY DEF LANNext, RotationStep
<1>3. PrepareAlone'
  BY <1>1, <1>2, CalmQuiet, NewTyped, LANBounds
     DEF RotationRecords, Passes, Cleared, managed, trustVars, PrepareAlone, BoundTo,
         PreparationInv, NotPreparing, LANTypeOK, Preparations
<1>4. RoundAlone'
  <2>0. /\ LANTypeOK /\ RoundAlone /\ RoundInv /\ rotation \in Rotations /\ Forgotten
    BY <1>1, <1>2, CalmQuiet DEF LANTypeOK
  <2>1. rotation.step = "record" /\ Passes
    BY DEF RotationRecords
  <2>2. \A r \in Refs \ {rotation.ref} : record'[r] = record[r]
    BY <2>0 DEF RotationRecords, LANTypeOK
  <2> QED BY <2>0, <2>1, <2>2, PassesIs
<1>5. Forgotten'
  <2>0. /\ LANTypeOK /\ RoundAlone /\ RoundInv /\ rotation \in Rotations /\ Forgotten
    BY <1>1, <1>2, CalmQuiet DEF LANTypeOK
  <2>1. share' = share /\ removal' = removal /\ rotation.step = "record"
    BY DEF RotationRecords
  <2>2. CASE record' = record /\ token' = token
    BY <2>0, <2>1, <2>2 DEF Forgotten
  <2>3. CASE record[rotation.ref] = rotation.old
    <3>1. rotation.old # NoLANLeaf /\ rotation.ref \in Refs
      BY <2>0, <2>1, RoundIs
    <3>2. removal[rotation.ref].step = "idle" /\ share[rotation.ref].state # "none"
      BY <2>0, <2>3, <3>1 DEF Forgotten
    <3>3. \A r \in Refs \ {rotation.ref} : record'[r] = record[r] /\ token'[r] = token[r]
      BY <2>0 DEF RotationRecords, LANTypeOK
    <3> QED BY <2>0, <2>1, <3>2, <3>3 DEF Forgotten
  <2> QED BY <2>2, <2>3 DEF RotationRecords
<1>6. StandsInv'
  <2> SUFFICES ASSUME NEW q \in Refs, NEW n \in Names, BoundTo(n, q)', ~Excused(q, n)'
               PROVE  Leaving(q, n)' \/ Standing(q, n)'
    BY DEF StandsInv
  <2>0. /\ LANTypeOK /\ prepare \in Preparations
        /\ BoundTo(n, q) => Excused(q, n) \/ Leaving(q, n) \/ Standing(q, n)
    BY <1>1, <1>2, CalmQuiet DEF StandsInv, LANTypeOK
  <2>a. /\ RoundAlone /\ RoundInv /\ rotation \in Rotations /\ Forgotten /\ PrepareAlone
    BY <1>1, <1>2, CalmQuiet DEF LANTypeOK
  <2>1. /\ rotation.step = "record" /\ share' = share /\ binding' = binding /\ removal' = removal
        /\ prepare' = prepare
    BY DEF RotationRecords
  <2>2. CASE Excused(q, n) \/ Leaving(q, n)
    BY <2>1, <2>2 DEF Excused, Leaving
  <2>3. CASE Standing(q, n)
    <3>1. CASE record'[q] = record[q]
      BY <2>1, <2>3, <3>1 DEF Standing
    <3>2. CASE record'[q] # record[q]
      <4>1. q = rotation.ref /\ record[q] = rotation.old /\ record'[q] = rotation.leaf
        BY <2>0, <3>2 DEF RotationRecords, LANTypeOK
      <4>2. rotation.leaf \in LANLeaves /\ rotation.leaf.name = rotation.old.name
        BY <2>0, <2>a, <2>1, RoundIs DEF RoundInv
      <4>3. n = rotation.old.name /\ BoundTo(n, q)
        BY <2>1, <2>3, <4>1 DEF Standing, BoundTo
      <4>4. binding[n].leaf = rotation.leaf
        BY <2>a, <2>1, <4>1, <4>3 DEF RoundAlone
      <4>5. Older(rotation.leaf, rotation.leaf)
        BY <4>2, Bounds, LANBounds DEF Older, LANLeaves
      <4> QED BY <2>1, <2>3, <4>1, <4>2, <4>3, <4>4, <4>5 DEF Standing
    <3> QED BY <3>1, <3>2
  <2> QED BY <2>0, <2>1, <2>2, <2>3 DEF BoundTo
<1>7. OwnersInv'
  <2> SUFFICES ASSUME NEW t \in Tokens, session'[t] # NoCA
               PROVE  t <= drawn' /\ (OfShare(t)' \/ OfPrepare(t)' \/ OfRound(t)' \/ OfRemoval(t)')
    BY DEF OwnersInv
  <2>0. /\ LANTypeOK
        /\ session[t] # NoCA => t <= drawn /\ (OfShare(t) \/ OfPrepare(t) \/ OfRound(t) \/ OfRemoval(t))
    BY <1>1, <1>2, CalmQuiet DEF OwnersInv
  <2>a. /\ RoundAlone /\ RoundInv /\ rotation \in Rotations /\ Forgotten /\ PrepareAlone
    BY <1>1, <1>2, CalmQuiet DEF LANTypeOK
  <2> DEFINE w == rotation.ref
             new == rotation.token
  <2>1. /\ share' = share /\ prepare' = prepare /\ removal' = removal /\ drawn' = drawn
        /\ rotation.step = "record"
    BY DEF RotationRecords
  <2>2. w \in Refs /\ rotation.old # NoLANLeaf
    BY <2>0, <2>a, <2>1, RoundIs
  <2>3. CASE /\ record[w] = rotation.old /\ record' = [record EXCEPT ![w] = rotation.leaf]
             /\ token' = IF new = NoToken THEN token ELSE [token EXCEPT ![w] = new]
             /\ session' = IF new = NoToken THEN session ELSE Cleared({token[w]})
    <3>1. share[w].state # "none"
      BY <2>a, <2>2, <2>3 DEF Forgotten
    <3>2. /\ session'[t] = session[t] /\ session[t] # NoCA /\ (new # NoToken => t # token[w])
      BY <2>0, <2>3, ClearedIs
    <3>3. /\ record'[w] = rotation.leaf
          /\ new # NoToken => token'[w] = new
          /\ new = NoToken => token'[w] = token[w]
          /\ \A r \in Refs \ {w} : record'[r] = record[r] /\ token'[r] = token[r]
      BY <2>0, <2>2, <2>3 DEF LANTypeOK
    <3>4. CASE OfShare(t)
      <4>1. PICK r \in Refs : token[r] = t /\ share[r].state # "none" /\ record[r].ca = session[t]
        BY <3>4 DEF OfShare
      <4>2. CASE r = w
        <5>1. new = NoToken /\ rotation.leaf.ca = record[w].ca
          BY <2>a, <2>1, <2>3, <3>2, <4>1, <4>2 DEF RoundAlone
        <5> QED BY <2>1, <2>2, <3>1, <3>2, <3>3, <4>1, <4>2, <5>1, <2>0 DEF OfShare
      <4>3. CASE r # w
        BY <2>0, <2>1, <3>2, <3>3, <4>1, <4>3 DEF OfShare
      <4> QED BY <4>2, <4>3
    <3>5. CASE OfRound(t)
      <4>1. new = t /\ rotation.leaf.ca = session[t] /\ new # NoToken
        BY <3>5, LANBounds DEF OfRound, Tokens, NoToken
      <4> QED BY <2>0, <2>1, <2>2, <3>1, <3>2, <3>3, <4>1 DEF OfShare
    <3>6. CASE OfPrepare(t) \/ OfRemoval(t)
      BY <2>0, <2>1, <3>2, <3>6 DEF OfPrepare, OfRemoval
    <3> QED BY <2>0, <3>2, <3>4, <3>5, <3>6
  <2>4. CASE session' = Cleared({new}) /\ record' = record /\ token' = token
    <3>1. t # new /\ session[t] # NoCA /\ session'[t] = session[t]
      BY <2>0, <2>4, ClearedIs
    <3> QED BY <2>0, <2>1, <2>4, <3>1 DEF OfShare, OfPrepare, OfRound, OfRemoval
  <2> QED BY <2>3, <2>4 DEF RotationRecords
<1> QED BY <1>3, <1>4, <1>5, <1>6, <1>7 DEF Uncrossed

LEMMA RequestCalm ==
    ASSUME LANInv, CalmInv, NEW r \in Refs, Request(r)
    PROVE  CalmInv'
<1> SUFFICES ASSUME ~crossed' PROVE Uncrossed'
  BY DEF CalmInv
<1>1. UNCHANGED certVars
  BY DEF Request
<1>2. LANNext
  BY DEF LANNext
<1>3. PrepareAlone'
  BY <1>1, <1>2, CalmQuiet, NewTyped, LANBounds
     DEF Request, managed, trustVars, PrepareAlone, BoundTo, PreparationInv, NotPreparing,
         LANTypeOK, Preparations
<1>4. RoundAlone'
  BY <1>1, <1>2, CalmQuiet
     DEF Request, managed, trustVars, RoundAlone, BoundTo, RoundInv, NotRotating, LANTypeOK,
         Rotations
<1>5. Forgotten'
  BY <1>1, <1>2, CalmQuiet, NewTyped, LANBounds
     DEF Request, managed, trustVars, Forgotten, LANTypeOK
<1>6. StandsInv'
  <2> SUFFICES ASSUME NEW q \in Refs, NEW n \in Names, BoundTo(n, q)', ~Excused(q, n)'
               PROVE  Leaving(q, n)' \/ Standing(q, n)'
    BY DEF StandsInv
  <2>0. /\ LANTypeOK /\ prepare \in Preparations
        /\ BoundTo(n, q) => Excused(q, n) \/ Leaving(q, n) \/ Standing(q, n)
    BY <1>1, <1>2, CalmQuiet DEF StandsInv, LANTypeOK
  <2>a. /\ RoundAlone /\ RoundInv /\ rotation \in Rotations /\ Forgotten /\ PrepareAlone
    BY <1>1, <1>2, CalmQuiet DEF LANTypeOK
  <2>1. /\ share[r].state = "none" /\ binding' = binding /\ record' = record /\ removal' = removal
        /\ prepare' = prepare
    BY DEF Request, trustVars
  <2>2. record[r] = NoLANLeaf
    BY <2>a, <2>1 DEF Forgotten
  <2>3. ~Standing(r, n)
    BY <2>2, LANBounds DEF Standing, NoLANLeaf
  <2>4. q # r => share'[q] = share[q]
    BY <2>0 DEF Request, LANTypeOK
  <2> QED BY <2>0, <2>1, <2>3, <2>4 DEF BoundTo, Excused, Leaving, Standing
<1>7. OwnersInv'
  BY <1>1, <1>2, CalmQuiet, NewTyped, LANBounds
     DEF Request, managed, trustVars, OwnersInv, OfShare, OfPrepare, OfRound, OfRemoval, LANTypeOK
<1> QED BY <1>3, <1>4, <1>5, <1>6, <1>7 DEF Uncrossed

LEMMA SuspendCalm ==
    ASSUME LANInv, CalmInv, NEW r \in Refs, Suspend(r)
    PROVE  CalmInv'
<1> SUFFICES ASSUME ~crossed' PROVE Uncrossed'
  BY DEF CalmInv
<1>1. UNCHANGED certVars
  BY DEF Suspend
<1>2. LANNext
  BY DEF LANNext
<1>3. PrepareAlone'
  BY <1>1, <1>2, CalmQuiet, NewTyped, LANBounds
     DEF Suspend, managed, trustVars, PrepareAlone, BoundTo, PreparationInv, NotPreparing,
         LANTypeOK, Preparations
<1>4. RoundAlone'
  BY <1>1, <1>2, CalmQuiet
     DEF Suspend, managed, trustVars, RoundAlone, BoundTo, RoundInv, NotRotating, LANTypeOK,
         Rotations
<1>5. Forgotten'
  BY <1>1, <1>2, CalmQuiet, NewTyped, LANBounds
     DEF Suspend, managed, trustVars, Forgotten, LANTypeOK
<1>6. StandsInv'
  BY <1>1, <1>2, CalmQuiet, NewTyped, LANBounds
     DEF Suspend, managed, trustVars, StandsInv, Excused, Leaving, Standing, BoundTo, LANTypeOK,
         PreparationInv
<1>7. OwnersInv'
  BY <1>1, <1>2, CalmQuiet, NewTyped, LANBounds
     DEF Suspend, managed, trustVars, OwnersInv, OfShare, OfPrepare, OfRound, OfRemoval, LANTypeOK
<1> QED BY <1>3, <1>4, <1>5, <1>6, <1>7 DEF Uncrossed

LEMMA RemoveTakesCalm ==
    ASSUME LANInv, CalmInv, NEW r \in Refs, RemoveTakes(r)
    PROVE  CalmInv'
<1> SUFFICES ASSUME ~crossed' PROVE Uncrossed'
  BY DEF CalmInv
<1>1. UNCHANGED certVars
  BY DEF RemoveTakes
<1>2. LANNext
  BY DEF LANNext
<1>3. PrepareAlone'
  BY <1>1, <1>2, CalmQuiet, NewTyped, LANBounds
     DEF RemoveTakes, managed, trustVars, PrepareAlone, BoundTo, PreparationInv, NotPreparing,
         LANTypeOK, Preparations
<1>4. RoundAlone'
  BY <1>1, <1>2, CalmQuiet, NewTyped, LANBounds
     DEF RemoveTakes, managed, trustVars, RoundAlone, BoundTo, RoundInv, NotRotating, LANTypeOK,
         Rotations
<1>5. Forgotten'
  BY <1>1, <1>2, CalmQuiet, NewTyped, LANBounds
     DEF RemoveTakes, managed, trustVars, Forgotten, LANTypeOK
<1>6. StandsInv'
  BY <1>1, <1>2, CalmQuiet, NewTyped, LANBounds
     DEF RemoveTakes, managed, trustVars, StandsInv, Excused, Leaving, Standing, BoundTo,
         LANTypeOK, PreparationInv
<1>7. OwnersInv'
  <2> SUFFICES ASSUME NEW t \in Tokens, session'[t] # NoCA
               PROVE  t <= drawn' /\ (OfShare(t)' \/ OfPrepare(t)' \/ OfRound(t)' \/ OfRemoval(t)')
    BY DEF OwnersInv
  <2>0. /\ LANTypeOK
        /\ session[t] # NoCA => t <= drawn /\ (OfShare(t) \/ OfPrepare(t) \/ OfRound(t) \/ OfRemoval(t))
    BY <1>1, <1>2, CalmQuiet DEF OwnersInv
  <2>1. /\ removal[r].step = "idle" /\ share' = share /\ session' = session /\ drawn' = drawn
        /\ prepare' = prepare /\ rotation' = rotation
    BY DEF RemoveTakes
  <2>2. /\ removal'[r].step = "unbind" /\ removal'[r].token = token[r]
        /\ \A q \in Refs \ {r} : removal'[q] = removal[q] /\ token'[q] = token[q] /\ record'[q] = record[q]
    BY <2>0 DEF RemoveTakes, LANTypeOK
  <2>3. CASE OfShare(t)
    <3>1. PICK q \in Refs : token[q] = t /\ share[q].state # "none" /\ record[q].ca = session[t]
      BY <2>3 DEF OfShare
    <3>2. CASE q = r
      BY <2>0, <2>1, <2>2, <3>1, <3>2 DEF OfRemoval
    <3>3. CASE q # r
      BY <2>0, <2>1, <2>2, <3>1, <3>3 DEF OfShare
    <3> QED BY <3>2, <3>3
  <2>4. CASE OfRemoval(t)
    BY <2>0, <2>1, <2>2, <2>4 DEF OfRemoval
  <2>5. CASE OfPrepare(t) \/ OfRound(t)
    BY <2>0, <2>1, <2>5 DEF OfPrepare, OfRound
  <2> QED BY <2>0, <2>1, <2>3, <2>4, <2>5
<1> QED BY <1>3, <1>4, <1>5, <1>6, <1>7 DEF Uncrossed

LEMMA RemoveUnbindsCalm ==
    ASSUME LANInv, CalmInv, NEW r \in Refs, RemoveUnbinds(r)
    PROVE  CalmInv'
<1> SUFFICES ASSUME ~crossed' PROVE Uncrossed'
  BY DEF CalmInv
<1>1. UNCHANGED certVars
  BY DEF RemoveUnbinds
<1>2. LANNext
  BY DEF LANNext
<1>3. PrepareAlone'
  <2>b. \A n \in Names, q \in Refs : BoundTo(n, q)' => binding'[n] = binding[n] /\ BoundTo(n, q) /\ q # r
    BY LANBounds DEF RemoveUnbinds, BoundTo, Unbound
  <2>0. LANTypeOK /\ PrepareAlone /\ PreparationInv
    BY <1>1, <1>2, CalmQuiet
  <2>1. share' = share /\ prepare' = prepare /\ rotation' = rotation /\ removal[r].step = "unbind"
    BY DEF RemoveUnbinds
  <2>2. \A q \in Refs \ {r} : removal'[q] = removal[q]
    BY <2>0 DEF RemoveUnbinds, LANTypeOK
  <2>3. prepare.step # "idle" => prepare.ref \in Refs /\ prepare.name \in Names /\ prepare.ref # r
    BY <2>0, <2>1 DEF PrepareAlone, PreparationInv
  <2> QED BY <2>0, <2>b, <2>1, <2>2, <2>3 DEF PrepareAlone
<1>4. RoundAlone'
  <2>b. \A n \in Names, q \in Refs : BoundTo(n, q)' => binding'[n] = binding[n] /\ BoundTo(n, q) /\ q # r
    BY LANBounds DEF RemoveUnbinds, BoundTo, Unbound
  <2>0. /\ LANTypeOK /\ RoundAlone /\ RoundInv /\ rotation \in Rotations /\ Forgotten
    BY <1>1, <1>2, CalmQuiet DEF LANTypeOK
  <2>1. rotation' = rotation /\ record' = record
    BY DEF RemoveUnbinds
  <2>2. rotation.step = "record" => rotation.old.name \in Names /\ rotation.ref \in Refs
    BY <2>0, RoundIs
  <2> QED BY <2>0, <2>b, <2>1, <2>2 DEF RoundAlone
<1>5. Forgotten'
  BY <1>1, <1>2, CalmQuiet, NewTyped, LANBounds
     DEF RemoveUnbinds, Cleared, managed, trustVars, Forgotten, LANTypeOK
<1>6. StandsInv'
  <2>b. \A n \in Names, q \in Refs : BoundTo(n, q)' => binding'[n] = binding[n] /\ BoundTo(n, q) /\ q # r
    BY LANBounds DEF RemoveUnbinds, BoundTo, Unbound
  <2> SUFFICES ASSUME NEW q \in Refs, NEW n \in Names, BoundTo(n, q)', ~Excused(q, n)'
               PROVE  Leaving(q, n)' \/ Standing(q, n)'
    BY DEF StandsInv
  <2>0. /\ LANTypeOK /\ prepare \in Preparations
        /\ BoundTo(n, q) => Excused(q, n) \/ Leaving(q, n) \/ Standing(q, n)
    BY <1>1, <1>2, CalmQuiet DEF StandsInv, LANTypeOK
  <2>a. /\ RoundAlone /\ RoundInv /\ rotation \in Rotations /\ Forgotten /\ PrepareAlone
    BY <1>1, <1>2, CalmQuiet DEF LANTypeOK
  <2>1. share' = share /\ record' = record /\ prepare' = prepare /\ removal[r].step = "unbind"
    BY DEF RemoveUnbinds
  <2>2. removal'[q] = removal[q] /\ BoundTo(n, q) /\ binding'[n] = binding[n]
    BY <2>0, <2>b DEF RemoveUnbinds, LANTypeOK
  <2> QED BY <2>0, <2>1, <2>2 DEF Excused, Leaving, Standing
<1>7. OwnersInv'
  BY <1>1, <1>2, CalmQuiet, NewTyped, LANBounds
     DEF RemoveUnbinds, Cleared, managed, trustVars, OwnersInv, OfShare, OfPrepare, OfRound,
         OfRemoval, LANTypeOK
<1> QED BY <1>3, <1>4, <1>5, <1>6, <1>7 DEF Uncrossed

LEMMA RemoveShareCalm ==
    ASSUME LANInv, CalmInv, NEW r \in Refs, RemoveShare(r)
    PROVE  CalmInv'
<1> SUFFICES ASSUME ~crossed' PROVE Uncrossed'
  BY DEF CalmInv
<1>1. UNCHANGED certVars
  BY DEF RemoveShare
<1>2. LANNext
  BY DEF LANNext
<1>3. PrepareAlone'
  BY <1>1, <1>2, CalmQuiet, NewTyped, LANBounds
     DEF RemoveShare, managed, trustVars, PrepareAlone, BoundTo, PreparationInv, NotPreparing,
         LANTypeOK, Preparations
<1>4. RoundAlone'
  BY <1>1, <1>2, CalmQuiet
     DEF RemoveShare, managed, trustVars, RoundAlone, BoundTo, RoundInv, NotRotating, LANTypeOK,
         Rotations
<1>5. Forgotten'
  BY <1>1, <1>2, CalmQuiet, NewTyped, LANBounds
     DEF RemoveShare, managed, trustVars, Forgotten, LANTypeOK
<1>6. StandsInv'
  <2> SUFFICES ASSUME NEW q \in Refs, NEW n \in Names, BoundTo(n, q)', ~Excused(q, n)'
               PROVE  Leaving(q, n)' \/ Standing(q, n)'
    BY DEF StandsInv
  <2>0. /\ LANTypeOK /\ prepare \in Preparations
        /\ BoundTo(n, q) => Excused(q, n) \/ Leaving(q, n) \/ Standing(q, n)
    BY <1>1, <1>2, CalmQuiet DEF StandsInv, LANTypeOK
  <2>a. /\ RoundAlone /\ RoundInv /\ rotation \in Rotations /\ Forgotten /\ PrepareAlone
    BY <1>1, <1>2, CalmQuiet DEF LANTypeOK
  <2>1. /\ removal[r].step = "unshare" /\ binding' = binding /\ record' = record /\ prepare' = prepare
    BY DEF RemoveShare, trustVars
  <2>2. record[r] = NoLANLeaf /\ ~(prepare.step # "idle" /\ prepare.ref = r)
    BY <2>a, <2>1 DEF Forgotten, PrepareAlone
  <2>3. ~Standing(r, n) /\ ~Excused(r, n) /\ ~Leaving(r, n)
    BY <2>1, <2>2, LANBounds DEF Standing, Excused, Leaving, NoLANLeaf
  <2>4. q # r /\ BoundTo(n, q)
    BY <2>0, <2>1, <2>3 DEF BoundTo
  <2>5. share'[q] = share[q] /\ removal'[q] = removal[q]
    BY <2>0, <2>4 DEF RemoveShare, LANTypeOK
  <2> QED BY <2>0, <2>1, <2>4, <2>5 DEF Excused, Leaving, Standing
<1>7. OwnersInv'
  <2> SUFFICES ASSUME NEW t \in Tokens, session'[t] # NoCA
               PROVE  t <= drawn' /\ (OfShare(t)' \/ OfPrepare(t)' \/ OfRound(t)' \/ OfRemoval(t)')
    BY DEF OwnersInv
  <2>0. /\ LANTypeOK
        /\ session[t] # NoCA => t <= drawn /\ (OfShare(t) \/ OfPrepare(t) \/ OfRound(t) \/ OfRemoval(t))
    BY <1>1, <1>2, CalmQuiet DEF OwnersInv
  <2>a. /\ RoundAlone /\ RoundInv /\ rotation \in Rotations /\ Forgotten /\ PrepareAlone
    BY <1>1, <1>2, CalmQuiet DEF LANTypeOK
  <2>1. /\ removal[r].step = "unshare" /\ session' = session /\ drawn' = drawn /\ record' = record
        /\ token' = token /\ prepare' = prepare /\ rotation' = rotation
    BY DEF RemoveShare, trustVars
  <2>2. \A q \in Refs \ {r} : removal'[q] = removal[q] /\ share'[q] = share[q]
    BY <2>0 DEF RemoveShare, LANTypeOK
  <2>3. token[r] = NoToken /\ t # NoToken
    BY <2>a, <2>1, LANBounds DEF Forgotten, Tokens, NoToken
  <2>4. CASE OfShare(t)
    BY <2>0, <2>1, <2>2, <2>3, <2>4 DEF OfShare
  <2>5. CASE OfRemoval(t)
    BY <2>0, <2>1, <2>2, <2>5 DEF OfRemoval
  <2>6. CASE OfPrepare(t) \/ OfRound(t)
    BY <2>0, <2>1, <2>6 DEF OfPrepare, OfRound
  <2> QED BY <2>0, <2>1, <2>4, <2>5, <2>6
<1> QED BY <1>3, <1>4, <1>5, <1>6, <1>7 DEF Uncrossed

LEMMA VisitSetupPageCalm ==
    ASSUME LANInv, CalmInv, NEW t \in Tokens, VisitSetupPage(t)
    PROVE  CalmInv'
<1> SUFFICES ASSUME ~crossed' PROVE Uncrossed'
  BY DEF CalmInv
<1>1. UNCHANGED certVars
  BY DEF VisitSetupPage
<1>2. LANNext
  BY DEF LANNext
<1>3. PrepareAlone'
  BY <1>1, <1>2, CalmQuiet
     DEF VisitSetupPage, managed, trustVars, PrepareAlone, BoundTo, PreparationInv, NotPreparing,
         LANTypeOK, Preparations
<1>4. RoundAlone'
  BY <1>1, <1>2, CalmQuiet
     DEF VisitSetupPage, managed, trustVars, RoundAlone, BoundTo, RoundInv, NotRotating,
         LANTypeOK, Rotations
<1>5. Forgotten'
  BY <1>1, <1>2, CalmQuiet DEF VisitSetupPage, managed, trustVars, Forgotten, LANTypeOK
<1>6. StandsInv'
  BY <1>1, <1>2, CalmQuiet
     DEF VisitSetupPage, managed, trustVars, StandsInv, Excused, Leaving, Standing, BoundTo,
         LANTypeOK, PreparationInv
<1>7. OwnersInv'
  BY <1>1, <1>2, CalmQuiet, NewTyped, LANBounds
     DEF VisitSetupPage, Cleared, managed, trustVars, OwnersInv, OfShare, OfPrepare, OfRound,
         OfRemoval, LANTypeOK
<1> QED BY <1>3, <1>4, <1>5, <1>6, <1>7 DEF Uncrossed

LEMMA ArrivesCalm ==
    ASSUME LANInv, CalmInv, NEW v \in Visitors, NEW n \in Names, Arrives(v, n)
    PROVE  CalmInv'
<1> SUFFICES ASSUME ~crossed' PROVE Uncrossed'
  BY DEF CalmInv
<1>1. UNCHANGED certVars
  BY DEF Arrives
<1>2. LANNext
  BY DEF LANNext
<1>3. PrepareAlone'
  BY <1>1, <1>2, CalmQuiet
     DEF Arrives, managed, trustVars, PrepareAlone, BoundTo, PreparationInv, NotPreparing,
         LANTypeOK, Preparations
<1>4. RoundAlone'
  BY <1>1, <1>2, CalmQuiet
     DEF Arrives, managed, trustVars, RoundAlone, BoundTo, RoundInv, NotRotating, LANTypeOK,
         Rotations
<1>5. Forgotten'
  BY <1>1, <1>2, CalmQuiet DEF Arrives, managed, trustVars, Forgotten, LANTypeOK
<1>6. StandsInv'
  BY <1>1, <1>2, CalmQuiet
     DEF Arrives, managed, trustVars, StandsInv, Excused, Leaving, Standing, BoundTo, LANTypeOK,
         PreparationInv
<1>7. OwnersInv'
  BY <1>1, <1>2, CalmQuiet
     DEF Arrives, managed, trustVars, OwnersInv, OfShare, OfPrepare, OfRound, OfRemoval, LANTypeOK
<1> QED BY <1>3, <1>4, <1>5, <1>6, <1>7 DEF Uncrossed

LEMMA CheckAuthorityCalm ==
    ASSUME LANInv, CalmInv, NEW v \in Visitors, CheckAuthority(v)
    PROVE  CalmInv'
<1> SUFFICES ASSUME ~crossed' PROVE Uncrossed'
  BY DEF CalmInv
<1>1. UNCHANGED certVars
  BY DEF CheckAuthority
<1>2. LANNext
  BY DEF LANNext
<1>3. PrepareAlone'
  BY <1>1, <1>2, CalmQuiet
     DEF CheckAuthority, managed, trustVars, PrepareAlone, BoundTo, PreparationInv, NotPreparing,
         LANTypeOK, Preparations
<1>4. RoundAlone'
  BY <1>1, <1>2, CalmQuiet
     DEF CheckAuthority, managed, trustVars, RoundAlone, BoundTo, RoundInv, NotRotating,
         LANTypeOK, Rotations
<1>5. Forgotten'
  BY <1>1, <1>2, CalmQuiet DEF CheckAuthority, managed, trustVars, Forgotten, LANTypeOK
<1>6. StandsInv'
  BY <1>1, <1>2, CalmQuiet
     DEF CheckAuthority, managed, trustVars, StandsInv, Excused, Leaving, Standing, BoundTo,
         LANTypeOK, PreparationInv
<1>7. OwnersInv'
  BY <1>1, <1>2, CalmQuiet
     DEF CheckAuthority, managed, trustVars, OwnersInv, OfShare, OfPrepare, OfRound, OfRemoval,
         LANTypeOK
<1> QED BY <1>3, <1>4, <1>5, <1>6, <1>7 DEF Uncrossed

LEMMA CheckShareCalm ==
    ASSUME LANInv, CalmInv, NEW v \in Visitors, CheckShare(v)
    PROVE  CalmInv'
<1> SUFFICES ASSUME ~crossed' PROVE Uncrossed'
  BY DEF CalmInv
<1>1. UNCHANGED certVars
  BY DEF CheckShare
<1>2. LANNext
  BY DEF LANNext
<1>3. PrepareAlone'
  BY <1>1, <1>2, CalmQuiet
     DEF CheckShare, managed, trustVars, PrepareAlone, BoundTo, PreparationInv, NotPreparing,
         LANTypeOK, Preparations
<1>4. RoundAlone'
  BY <1>1, <1>2, CalmQuiet
     DEF CheckShare, managed, trustVars, RoundAlone, BoundTo, RoundInv, NotRotating, LANTypeOK,
         Rotations
<1>5. Forgotten'
  BY <1>1, <1>2, CalmQuiet DEF CheckShare, managed, trustVars, Forgotten, LANTypeOK
<1>6. StandsInv'
  BY <1>1, <1>2, CalmQuiet
     DEF CheckShare, managed, trustVars, StandsInv, Excused, Leaving, Standing, BoundTo,
         LANTypeOK, PreparationInv
<1>7. OwnersInv'
  BY <1>1, <1>2, CalmQuiet
     DEF CheckShare, managed, trustVars, OwnersInv, OfShare, OfPrepare, OfRound, OfRemoval,
         LANTypeOK
<1> QED BY <1>3, <1>4, <1>5, <1>6, <1>7 DEF Uncrossed

LEMMA CheckBindingCalm ==
    ASSUME LANInv, CalmInv, NEW v \in Visitors, CheckBinding(v)
    PROVE  CalmInv'
<1> SUFFICES ASSUME ~crossed' PROVE Uncrossed'
  BY DEF CalmInv
<1>1. UNCHANGED certVars
  BY DEF CheckBinding
<1>2. LANNext
  BY DEF LANNext
<1>3. PrepareAlone'
  BY <1>1, <1>2, CalmQuiet
     DEF CheckBinding, managed, trustVars, PrepareAlone, BoundTo, PreparationInv, NotPreparing,
         LANTypeOK, Preparations
<1>4. RoundAlone'
  BY <1>1, <1>2, CalmQuiet
     DEF CheckBinding, managed, trustVars, RoundAlone, BoundTo, RoundInv, NotRotating, LANTypeOK,
         Rotations
<1>5. Forgotten'
  BY <1>1, <1>2, CalmQuiet DEF CheckBinding, managed, trustVars, Forgotten, LANTypeOK
<1>6. StandsInv'
  BY <1>1, <1>2, CalmQuiet
     DEF CheckBinding, managed, trustVars, StandsInv, Excused, Leaving, Standing, BoundTo,
         LANTypeOK, PreparationInv
<1>7. OwnersInv'
  BY <1>1, <1>2, CalmQuiet
     DEF CheckBinding, managed, trustVars, OwnersInv, OfShare, OfPrepare, OfRound, OfRemoval,
         LANTypeOK
<1> QED BY <1>3, <1>4, <1>5, <1>6, <1>7 DEF Uncrossed

LEMMA DepartsCalm ==
    ASSUME LANInv, CalmInv, NEW v \in Visitors, Departs(v)
    PROVE  CalmInv'
<1> SUFFICES ASSUME ~crossed' PROVE Uncrossed'
  BY DEF CalmInv
<1>1. UNCHANGED certVars
  BY DEF Departs
<1>2. LANNext
  BY DEF LANNext
<1>3. PrepareAlone'
  BY <1>1, <1>2, CalmQuiet
     DEF Departs, managed, trustVars, PrepareAlone, BoundTo, PreparationInv, NotPreparing,
         LANTypeOK, Preparations
<1>4. RoundAlone'
  BY <1>1, <1>2, CalmQuiet
     DEF Departs, managed, trustVars, RoundAlone, BoundTo, RoundInv, NotRotating, LANTypeOK,
         Rotations
<1>5. Forgotten'
  BY <1>1, <1>2, CalmQuiet DEF Departs, managed, trustVars, Forgotten, LANTypeOK
<1>6. StandsInv'
  BY <1>1, <1>2, CalmQuiet
     DEF Departs, managed, trustVars, StandsInv, Excused, Leaving, Standing, BoundTo, LANTypeOK,
         PreparationInv
<1>7. OwnersInv'
  BY <1>1, <1>2, CalmQuiet
     DEF Departs, managed, trustVars, OwnersInv, OfShare, OfPrepare, OfRound, OfRemoval, LANTypeOK
<1> QED BY <1>3, <1>4, <1>5, <1>6, <1>7 DEF Uncrossed

-----------------------------------------------------------------------------
(* What the manager has a record of, and whose the setup pages are *)

LEMMA CalmNextKept == ASSUME LANInv, CalmInv, LANNext PROVE CalmInv'
<1>1. CASE PrepareStep
  BY <1>1, PrepareIssuesCalm, PrepareTrustsCalm, PrepareRegistersCalm, PrepareActivatesCalm,
     PrepareRecordsCalm, PrepareClearsCalm DEF PrepareStep
<1>2. CASE RotationStep
  <2>1. ASSUME NEW r \in Refs, NEW pair \in rotation.todo, pair[1] = r, RotationPicks(r, pair[2])
        PROVE  CalmInv'
    <3>1. pair = <<r, pair[2]>>
      <4>1. pair \in Refs \X LANLeaves
        BY DEF LANInv, LANTypeOK, Rotations
      <4> QED BY <2>1, <4>1
    <3> QED BY <2>1, <3>1, RotationPicksCalm
  <2> QED BY <1>2, <2>1, RotationStartsCalm, RotationIssuesCalm, RotationTrustsCalm,
             RotationReplacesCalm, RotationRecordsCalm DEF RotationStep
<1>3. CASE \E t \in Tokens : VisitSetupPage(t)
  BY <1>3, VisitSetupPageCalm
<1>4. CASE \E r \in Refs :
              \/ Request(r) \/ Suspend(r) \/ RemoveTakes(r) \/ RemoveUnbinds(r) \/ RemoveShare(r)
              \/ \E n \in Names : PrepareStarts(r, n)
  BY <1>4, RequestCalm, SuspendCalm, RemoveTakesCalm, RemoveUnbindsCalm, RemoveShareCalm,
     PrepareStartsCalm
<1>5. CASE \E v \in Visitors :
              \/ CheckAuthority(v) \/ CheckShare(v) \/ CheckBinding(v) \/ Departs(v)
              \/ \E n \in Names : Arrives(v, n)
  BY <1>5, CheckAuthorityCalm, CheckShareCalm, CheckBindingCalm, DepartsCalm, ArrivesCalm
<1> QED BY <1>1, <1>2, <1>3, <1>4, <1>5 DEF LANNext

\* Setups and the clock leave shares, bindings and records alone.
LEMMA CalmStays == ASSUME CalmInv, UNCHANGED lanVars PROVE CalmInv'
<1>1. /\ share' = share /\ binding' = binding /\ record' = record /\ token' = token
      /\ session' = session /\ drawn' = drawn /\ prepare' = prepare /\ rotation' = rotation
      /\ removal' = removal /\ crossed' = crossed
  BY DEF lanVars, managed, trustVars
<1>2. CASE crossed
  BY <1>1, <1>2 DEF CalmInv
<1>3. CASE ~crossed
  <2>1. PrepareAlone' /\ RoundAlone' /\ Forgotten'
    BY <1>1, <1>3 DEF CalmInv, Uncrossed, PrepareAlone, RoundAlone, Forgotten, BoundTo
  <2>2. StandsInv'
    BY <1>1, <1>3 DEF CalmInv, Uncrossed, StandsInv, BoundTo, Excused, Leaving, Standing
  <2>3. OwnersInv'
    BY <1>1, <1>3 DEF CalmInv, Uncrossed, OwnersInv, OfShare, OfPrepare, OfRound, OfRemoval
  <2> QED BY <2>1, <2>2, <2>3 DEF CalmInv, Uncrossed
<1> QED BY <1>2, <1>3

LEMMA InitCalmInv == LANInit => CalmInv
<1> SUFFICES ASSUME LANInit PROVE PrepareAlone /\ RoundAlone /\ Forgotten /\ StandsInv /\ OwnersInv
  BY DEF CalmInv, Uncrossed
<1>1. PrepareAlone /\ RoundAlone /\ Forgotten
  BY DEF LANInit, PrepareAlone, RoundAlone, Forgotten, NotPreparing, NotRotating
<1>2. StandsInv
  BY LANBounds DEF LANInit, StandsInv, BoundTo, Unbound
<1>3. OwnersInv
  BY DEF LANInit, OwnersInv
<1> QED BY <1>1, <1>2, <1>3

LEMMA StepCalmInv == LANInv /\ CalmInv /\ [LANStep]_<<lanVars, certVars>> => CalmInv'
BY CalmNextKept, CalmStays DEF LANStep

LEMMA CalmInvHolds == LANSpec => [](LANInv /\ CalmInv)
<1>1. CertInit /\ LANInit => LANInv /\ CalmInv
  BY InitLANInv, InitCalmInv
<1>2. LANInv /\ CalmInv /\ [LANStep]_<<lanVars, certVars>> => (LANInv /\ CalmInv)'
  BY StepLANInv, StepCalmInv
<1> QED BY <1>1, <1>2, PTL DEF LANSpec

\* Whatever the monitor, Prepare, removals and setups have done, as long as no
\* two of them have worked on a share at a time: at rest the manager has a
\* record of every host name that is bound, and what is due of the binding, by
\* its authority or by its end, is due of the record.
THEOREM StaleKnown == LANSpec => []StaleNoticed
<1>1. ASSUME LANInv, CalmInv, AtRest, ~crossed, Loadable, NEW n \in Names, binding[n] # Unbound
      PROVE  /\ record[binding[n].ref].name = n
             /\ Due(binding[n].leaf, Current) => Due(record[binding[n].ref], Current)
  <2> DEFINE r == binding[n].ref
             leaf == binding[n].leaf
  <2>1. r \in Refs /\ leaf \in KnownLeaves
    BY <1>1 DEF LANInv, LANTypeOK, LeavesInv
  <2>2. Standing(r, n)
    BY <1>1, <2>1 DEF CalmInv, Uncrossed, StandsInv, BoundTo, Excused, Leaving, AtRest
  <2>3. record[r].name = n /\ Older(record[r], leaf)
    BY <2>2 DEF Standing
  <2>4. record[r] # NoLANLeaf /\ record[r] \in KnownLeaves
    BY <1>1, <2>1, <2>3, LANBounds DEF LANInv, LeavesInv, NoLANLeaf
  <2>5. Current = files.cert
    BY <1>1 DEF Current
  <2>6. leaf \in LANLeaves /\ record[r] \in LANLeaves /\ leaf.ca <= files.cert
    BY <2>1, <2>4, NewTyped
  <2>7. CertInv
    BY <1>1 DEF LANInv
  <2>8. files.cert \in Int /\ now \in Int /\ RotateBefore \in Int
    BY <2>7, Bounds, LANBounds DEF CertInv, CertTypeOK, CAs, NoCA
  <2>9. /\ leaf.ca \in Int /\ record[r].ca \in Int
        /\ leaf.until \in Int /\ record[r].until \in Int
    BY <2>6, Bounds, LANBounds DEF LANLeaves, CAs
  <2>10. Due(leaf, files.cert) => Due(record[r], files.cert)
    BY <2>3, <2>4, <2>6, <2>8, <2>9 DEF Due, Older
  <2> QED BY <2>3, <2>5, <2>10
<1>2. LANInv /\ CalmInv => StaleNoticed
  BY <1>1 DEF StaleNoticed
<1> QED BY <1>2, CalmInvHolds, PTL

\* The setup tokens that Prepare and the rounds draw, and those that they and
\* removals take from the manager, are handed on or cleared on every way out:
\* at rest, and as long as no two of them have worked on a share at a time, a
\* setup page in use is of a share, and of the authority of its certificate.
THEOREM PagesOwned == LANSpec => []TokensOwned
<1>1. ASSUME LANInv, CalmInv, AtRest, ~crossed, NEW t \in Tokens, session[t] # NoCA
      PROVE  \E r \in Refs : token[r] = t /\ share[r].state # "none" /\ record[r].ca = session[t]
  <2>1. OfShare(t) \/ OfPrepare(t) \/ OfRound(t) \/ OfRemoval(t)
    BY <1>1 DEF CalmInv, Uncrossed, OwnersInv
  <2>2. ~OfPrepare(t) /\ ~OfRound(t) /\ ~OfRemoval(t)
    BY <1>1 DEF AtRest, OfPrepare, OfRound, OfRemoval
  <2> QED BY <2>1, <2>2 DEF OfShare
<1>2. LANInv /\ CalmInv => TokensOwned
  BY <1>1 DEF TokensOwned, LANInv, CertInv
<1> QED BY <1>2, CalmInvHolds, PTL
=============================================================================
