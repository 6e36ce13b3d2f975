-------------------------- MODULE MDNSClaimsProofs --------------------------
(***************************************************************************)
(* Two hosts do not announce one name, a host keeps the name it was given, *)
(* and no name is announced that was not prepared; for any number of hosts *)
(* and registrations.                                                      *)
(*                                                                         *)
(* Types come first.  Then what two hosts know of each other on a link     *)
(* that loses nothing: what the one has told the other, has been asked or  *)
(* is still to answer, set against where the other is with its own claim   *)
(* for the name, and against the time that is left.  Last, what the        *)
(* coordinator is asked.                                                   *)
(***************************************************************************)
EXTENDS MDNSClaims, SequenceTheorems, TLAPS

\* Only a question comes from elsewhere.
Messages ==
    {m \in [kind : {"probe", "response", "query"}, name : Names, from : Hosts \cup {NoHost}] :
        m.kind # "query" => m.from \in Hosts}
Requests == [name : Names, generation : Nat, left : 0 .. MaxPrepare]

\* How far a claim has come, and its deadline.
Coherent(c) ==
    /\ c.phase = "none" <=> c.waiting + c.held = 0
    /\ c.waiting + c.held <= MaxClients
    /\ c.phase # "none" => c.candidate \in Names
    /\ c.phase = "wait" => c.probes = 0 /\ c.deadline \in 0 .. 1
    /\ c.phase = "probing" => c.probes \in 1 .. 2 /\ c.deadline \in 0 .. 1
    /\ c.phase = "observing" => c.probes = 3 /\ c.deadline \in 0 .. 1
    /\ c.phase = "awaiting" => c.probes = 3 /\ c.deadline = Never
    /\ c.phase = "announcing" => c.deadline \in 0 .. AnnounceInterval
    /\ c.phase = "active" => c.deadline = Never /\ c.waiting = 0
    /\ c.phase \in Answering => c.candidate = c.current

ClaimInv ==
    /\ claim \in [Hosts -> Claims]
    /\ \A h \in Hosts : Coherent(claim[h]) /\ (claim[h].phase # "none" => h \in up)

MessageInv ==
    /\ inbox \in [Hosts -> Seq(Messages)]
    /\ answers \in [Hosts -> SUBSET Answers]
    /\ requests \in [Hosts -> Seq(Requests)]

WorldInv ==
    /\ up \subseteq Hosts
    /\ cut \in BOOLEAN /\ split \in BOOLEAN /\ (cut => split)
    /\ calls \in [Hosts -> Nat]

TypeInv == ClaimInv /\ MessageInv /\ WorldInv

LEMMA TypeInvOK == TypeInv => TypeOK
BY DEF TypeInv, ClaimInv, MessageInv, WorldInv, Coherent, TypeOK

-----------------------------------------------------------------------------
(* Claims *)

\* Numbers of the code, and that no host is the one nobody is.
LEMMA Constants ==
  /\ MaxName \in Nat /\ MaxName >= 1 /\ MaxClients \in Nat /\ MaxClients >= 1 /\ MaxPrepare \in Nat
  /\ Names = 1 .. MaxName /\ NoName = 0 /\ Never = -1
  /\ AnnounceInterval = 4 /\ AnswerInterval = 4 /\ DefenseInterval = 1 /\ ProbeInterval = 1
  /\ ProbeDelays = 0 .. 1
  /\ NoHost \notin Hosts
BY MDNSAssumption DEF Names, NoName, Never, AnnounceInterval, AnswerInterval, DefenseInterval,
   ProbeInterval, ProbeDelays, NoHost

\* One claim changes, into another that makes sense.
LEMMA ClaimChanges ==
  ASSUME ClaimInv, NEW h \in Hosts, NEW c \in Claims, Coherent(c), h \in up, UNCHANGED up,
         claim' = [claim EXCEPT ![h] = c]
  PROVE  ClaimInv'
BY DEF ClaimInv, Claims

LEMMA NoClaimIs == NoClaim \in Claims /\ Coherent(NoClaim)
BY Constants DEF NoClaim, Claims, Coherent, Answering

LEMMA DropKeeps ==
  ASSUME ClaimInv, NEW h \in Hosts, Drop(h), UNCHANGED up \/ up' = up \ {h}
  PROVE  ClaimInv'
<1>1. \A g \in Hosts : claim'[g] = IF g = h THEN NoClaim ELSE claim[g]
  BY DEF Drop, ClaimInv
<1>2. claim' \in [Hosts -> Claims]
  BY <1>1, NoClaimIs DEF Drop, ClaimInv
<1>3. NoClaim.phase = "none"
  BY DEF NoClaim
<1> QED BY <1>1, <1>2, <1>3, NoClaimIs DEF ClaimInv

\* What a registration does to a claim.
LEMMA RegisterTyped ==
  ASSUME ClaimInv, NEW h \in Hosts, Register(h)
  PROVE  ClaimInv'
<1> DEFINE x == claim[h]
<1>1. x \in Claims /\ Coherent(x) /\ h \in up /\ UNCHANGED up /\ x.waiting + x.held < MaxClients
  BY DEF ClaimInv, Register
<1>5. x.waiting \in 0 .. MaxClients /\ x.held \in 0 .. MaxClients
  BY <1>1 DEF Claims
<1>2. CASE x.phase = "none"
  <2>1. PICK delay \in ProbeDelays :
          claim' = [claim EXCEPT ![h] = [NoClaim EXCEPT !.phase = "wait", !.candidate = 1,
                                           !.deadline = delay, !.generation = 1, !.waiting = 1]]
    BY <1>2 DEF Register
  <2> DEFINE c == [NoClaim EXCEPT !.phase = "wait", !.candidate = 1, !.deadline = delay,
                                  !.generation = 1, !.waiting = 1]
  <2>2. /\ "wait" \in {"none", "wait"} \cup Probing \cup Answering
        /\ 1 \in 0 .. MaxName /\ delay \in Never .. AnnounceInterval
        /\ 1 \in Nat /\ 1 \in 0 .. MaxClients
    BY Constants
  <2>3. c \in Claims
    BY <2>2, NoClaimIs DEF Claims
  <2>4. Coherent(c)
    BY Constants DEF NoClaim, Coherent, Answering
  <2> QED BY <1>1, <2>1, <2>3, <2>4, ClaimChanges
<1>3. CASE x.phase = "active"
  <2> DEFINE c == [x EXCEPT !.held = @ + 1]
  <2>1. claim' = [claim EXCEPT ![h] = c]
    BY <1>3 DEF Register, ClaimInv, Claims
  <2>2. x.held + 1 \in 0 .. MaxClients
    BY <1>1, <1>5, Constants
  <2>3. c \in Claims
    BY <1>1, <2>2 DEF Claims
  <2>4. Coherent(c)
    BY <1>1, <1>3, <1>5, Constants DEF Claims, Coherent, Answering
  <2> QED BY <1>1, <2>1, <2>3, <2>4, ClaimChanges
<1>4. CASE x.phase \notin {"none", "active"}
  <2> DEFINE c == [x EXCEPT !.waiting = @ + 1]
  <2>1. claim' = [claim EXCEPT ![h] = c]
    BY <1>4 DEF Register, ClaimInv, Claims
  <2>2. x.waiting + 1 \in 0 .. MaxClients
    BY <1>1, <1>5, Constants
  <2>3. c \in Claims
    BY <1>1, <2>2 DEF Claims
  <2>4. /\ c.phase = x.phase /\ c.candidate = x.candidate /\ c.current = x.current
        /\ c.probes = x.probes /\ c.deadline = x.deadline
        /\ c.waiting = x.waiting + 1 /\ c.held = x.held
    BY <1>1 DEF Claims
  <2> HIDE DEF c
  <2>5. Coherent(c)
    BY <1>1, <1>4, <1>5, <2>4, Constants DEF Coherent, Answering
  <2> QED BY <1>1, <2>1, <2>3, <2>5, ClaimChanges
<1> QED BY <1>2, <1>3, <1>4

\* What the end of one does.
LEMMA LeaveTyped ==
  ASSUME ClaimInv, NEW h \in Hosts, Cancel(h) \/ Release(h)
  PROVE  ClaimInv'
<1> DEFINE x == claim[h]
<1>1. x \in Claims /\ Coherent(x) /\ UNCHANGED up
  BY DEF ClaimInv, Cancel, Release
<1>5. x.waiting \in 0 .. MaxClients /\ x.held \in 0 .. MaxClients
  BY <1>1 DEF Claims
<1>2. CASE Drop(h)
  BY <1>1, <1>2, DropKeeps
<1>3. CASE x.waiting > 0 /\ x.waiting + x.held # 1 /\ claim' = [claim EXCEPT ![h].waiting = @ - 1]
  <2> DEFINE c == [x EXCEPT !.waiting = @ - 1]
  <2>1. claim' = [claim EXCEPT ![h] = c]
    BY <1>3 DEF ClaimInv, Claims
  <2>2. x.phase \notin {"none", "active"} /\ x.waiting - 1 \in 0 .. MaxClients
    BY <1>1, <1>3, <1>5, Constants DEF Coherent
  <2>6. x.waiting + x.held # 1
    BY <1>3
  <2>3. c \in Claims
    BY <1>1, <2>2 DEF Claims
  <2>4. /\ c.phase = x.phase /\ c.candidate = x.candidate /\ c.current = x.current
        /\ c.probes = x.probes /\ c.deadline = x.deadline
        /\ c.waiting = x.waiting - 1 /\ c.held = x.held
    BY <1>1 DEF Claims
  <2> HIDE DEF c
  <2>5. Coherent(c)
    BY <1>1, <1>5, <2>2, <2>4, <2>6, Constants DEF Coherent, Answering
  <2> QED BY <1>1, <2>1, <2>2, <2>3, <2>5, ClaimChanges DEF ClaimInv
<1>4. CASE x.held > 0 /\ x.waiting + x.held > 1 /\ claim' = [claim EXCEPT ![h].held = @ - 1]
  <2> DEFINE c == [x EXCEPT !.held = @ - 1]
  <2>1. claim' = [claim EXCEPT ![h] = c]
    BY <1>4 DEF ClaimInv, Claims
  <2>2. x.phase # "none" /\ x.held - 1 \in 0 .. MaxClients
    BY <1>1, <1>4, <1>5, Constants DEF Coherent
  <2>3. c \in Claims
    BY <1>1, <2>2 DEF Claims
  <2>4. /\ c.phase = x.phase /\ c.candidate = x.candidate /\ c.current = x.current
        /\ c.probes = x.probes /\ c.deadline = x.deadline
        /\ c.waiting = x.waiting /\ c.held = x.held - 1
    BY <1>1 DEF Claims
  <2> HIDE DEF c
  <2>5. Coherent(c)
    BY <1>1, <1>4, <1>5, <2>2, <2>4, Constants DEF Coherent, Answering
  <2> QED BY <1>1, <2>1, <2>2, <2>3, <2>5, ClaimChanges DEF ClaimInv
<1> QED BY <1>2, <1>3, <1>4 DEF Cancel, Release

\* What a deadline does, or the answer of the coordinator.
LEMMA DeadlineTyped ==
  ASSUME ClaimInv, NEW h \in Hosts, SendProbe(h) \/ AskCoordinator(h) \/ AnnounceAgain(h)
  PROVE  ClaimInv'
<1> DEFINE x == claim[h]
<1>1. x \in Claims /\ Coherent(x) /\ UNCHANGED up /\ x.phase # "none" /\ h \in up
  BY DEF ClaimInv, SendProbe, AskCoordinator, AnnounceAgain, Expired
<1>5. x.waiting \in 0 .. MaxClients /\ x.held \in 0 .. MaxClients
  BY <1>1 DEF Claims
<1>2. CASE SendProbe(h)
  <2> DEFINE c == [x EXCEPT !.probes = @ + 1, !.deadline = ProbeInterval,
                            !.phase = IF x.probes = 2 THEN "observing" ELSE "probing"]
  <2>1. claim' = [claim EXCEPT ![h] = c]
    BY <1>2 DEF SendProbe, ClaimInv, Claims
  <2>2. x.probes + 1 \in 0 .. 3 /\ ProbeInterval \in Never .. AnnounceInterval
    BY <1>1, <1>2, Constants DEF SendProbe, Expired, Coherent
  <2>3. /\ "observing" \in {"none", "wait"} \cup Probing \cup Answering
        /\ "probing" \in {"none", "wait"} \cup Probing \cup Answering
    BY DEF Probing
  <2>4. c \in Claims
    BY <1>1, <2>2, <2>3 DEF Claims
  <2>5. Coherent(c)
    BY <1>1, <1>2, <1>5, Constants DEF SendProbe, Expired, Claims, Coherent, Answering
  <2> QED BY <1>1, <2>1, <2>4, <2>5, ClaimChanges
<1>3. CASE AskCoordinator(h)
  <2> DEFINE c == [x EXCEPT !.phase = "awaiting", !.deadline = Never]
  <2>1. claim' = [claim EXCEPT ![h] = c]
    BY <1>3 DEF AskCoordinator, ClaimInv, Claims
  <2>2. "awaiting" \in {"none", "wait"} \cup Probing \cup Answering /\ Never \in Never .. AnnounceInterval
    BY Constants DEF Probing
  <2>3. c \in Claims
    BY <1>1, <2>2 DEF Claims
  <2>4. Coherent(c)
    BY <1>1, <1>3, <1>5, Constants DEF AskCoordinator, Expired, Claims, Coherent, Answering
  <2> QED BY <1>1, <2>1, <2>3, <2>4, ClaimChanges
<1>4. CASE AnnounceAgain(h)
  <2> DEFINE c == [x EXCEPT !.phase = "active", !.deadline = Never, !.since = 0,
                            !.held = x.held + x.waiting, !.waiting = 0]
  <2>1. claim' = [claim EXCEPT ![h] = c]
    BY <1>4 DEF AnnounceAgain, ClaimInv, Claims
  <2>2. "active" \in {"none", "wait"} \cup Probing \cup Answering /\ Never \in Never .. AnnounceInterval
    BY Constants DEF Answering
  <2>3. x.held + x.waiting \in 0 .. MaxClients /\ 0 \in 0 .. MaxClients /\ 0 \in 0 .. AnswerInterval
    BY <1>1, <1>5, Constants DEF Coherent
  <2>4. c \in Claims
    BY <1>1, <2>2, <2>3 DEF Claims
  <2>5. Coherent(c)
    BY <1>1, <1>4, <1>5, Constants DEF AnnounceAgain, Expired, Claims, Coherent, Answering
  <2> QED BY <1>1, <2>1, <2>4, <2>5, ClaimChanges
<1> QED BY <1>2, <1>3, <1>4

\* The first announcement, and what a multicast does to its sender.
LEMMA AnnounceTyped ==
  ASSUME ClaimInv, NEW h \in Hosts, claim[h].phase = "awaiting", UNCHANGED up,
         claim' = [claim EXCEPT ![h].phase = "announcing", ![h].current = claim[h].candidate,
                                ![h].deadline = AnnounceInterval, ![h].since = 0]
  PROVE  ClaimInv'
<1> DEFINE x == claim[h]
           c == [x EXCEPT !.phase = "announcing", !.current = x.candidate,
                          !.deadline = AnnounceInterval, !.since = 0]
<1>1. x \in Claims /\ Coherent(x) /\ h \in up
  BY DEF ClaimInv
<1>2. claim' = [claim EXCEPT ![h] = c]
  BY DEF ClaimInv, Claims
<1>3. /\ "announcing" \in {"none", "wait"} \cup Probing \cup Answering
      /\ AnnounceInterval \in Never .. AnnounceInterval /\ 0 \in 0 .. AnswerInterval
  BY Constants DEF Answering
<1>4. c \in Claims
  BY <1>1, <1>3 DEF Claims
<1>5. x.waiting \in 0 .. MaxClients /\ x.held \in 0 .. MaxClients
  BY <1>1 DEF Claims
<1>6. Coherent(c)
  BY <1>1, <1>5, Constants DEF Claims, Coherent, Answering
<1> QED BY <1>1, <1>2, <1>4, <1>6, ClaimChanges

LEMMA SinceTyped ==
  ASSUME ClaimInv, NEW h \in Hosts, claim[h].phase \in Answering, UNCHANGED up,
         claim' = [claim EXCEPT ![h].since = 0]
  PROVE  ClaimInv'
<1> DEFINE x == claim[h]
           c == [x EXCEPT !.since = 0]
<1>1. x \in Claims /\ Coherent(x) /\ h \in up
  BY DEF ClaimInv, Answering
<1>2. claim' = [claim EXCEPT ![h] = c]
  BY DEF ClaimInv, Claims
<1>3. 0 \in 0 .. AnswerInterval
  BY Constants
<1>4. c \in Claims
  BY <1>1, <1>3 DEF Claims
<1>5. Coherent(c)
  BY <1>1, Constants DEF Claims, Coherent, Answering
<1> QED BY <1>1, <1>2, <1>4, <1>5, ClaimChanges

\* What a message does that costs the name, or the candidate.
LEMMA ReprobeTyped ==
  ASSUME ClaimInv, NEW h \in Hosts, claim[h].phase \in Answering, UNCHANGED up, Reprobe(h)
  PROVE  ClaimInv'
<1> DEFINE x == claim[h]
<1>1. x \in Claims /\ Coherent(x) /\ h \in up
  BY DEF ClaimInv, Answering
<1>2. PICK delay \in ProbeDelays :
        claim' = [claim EXCEPT ![h].phase = "wait", ![h].candidate = claim[h].current,
                               ![h].probes = 0, ![h].deadline = delay,
                               ![h].generation = @ + 1, ![h].since = AnswerInterval]
  BY DEF Reprobe
<1> DEFINE c == [x EXCEPT !.phase = "wait", !.candidate = x.current, !.probes = 0,
                          !.deadline = delay, !.generation = @ + 1, !.since = AnswerInterval]
<1>3. claim' = [claim EXCEPT ![h] = c]
  BY <1>2 DEF ClaimInv, Claims
<1>4. /\ delay \in Never .. AnnounceInterval /\ 0 \in 0 .. 3
      /\ AnswerInterval \in 0 .. AnswerInterval /\ x.generation + 1 \in Nat
  BY <1>1, Constants DEF Claims
<1>5. c \in Claims
  BY <1>1, <1>4 DEF Claims
<1>6. x.waiting \in 0 .. MaxClients /\ x.held \in 0 .. MaxClients
  BY <1>1 DEF Claims
<1>7. Coherent(c)
  BY <1>1, <1>6, Constants DEF Claims, Coherent, Answering
<1> QED BY <1>1, <1>3, <1>5, <1>7, ClaimChanges

LEMMA RenameTyped ==
  ASSUME ClaimInv, NEW h \in Hosts, claim[h].phase \in Probing, UNCHANGED up, Rename(h)
  PROVE  ClaimInv'
<1> DEFINE x == claim[h]
<1>1. x \in Claims /\ Coherent(x) /\ h \in up
  BY DEF ClaimInv, Probing
<1>2. CASE x.candidate = MaxName
  BY <1>2, DropKeeps DEF Rename
<1>3. CASE x.candidate # MaxName
  <2>1. PICK delay \in ProbeDelays :
          claim' = [claim EXCEPT ![h].phase = "wait", ![h].candidate = @ + 1,
                                 ![h].probes = 0, ![h].deadline = delay,
                                 ![h].generation = @ + 1]
    BY <1>3 DEF Rename
  <2> DEFINE c == [x EXCEPT !.phase = "wait", !.candidate = @ + 1, !.probes = 0,
                            !.deadline = delay, !.generation = @ + 1]
  <2>2. claim' = [claim EXCEPT ![h] = c]
    BY <2>1 DEF ClaimInv, Claims
  <2>3. x.candidate + 1 \in Names /\ x.candidate + 1 \in 0 .. MaxName
    BY <1>1, <1>3, Constants DEF Claims, Coherent, Probing
  <2>4. /\ delay \in Never .. AnnounceInterval /\ 0 \in 0 .. 3 /\ x.generation + 1 \in Nat
        /\ x.waiting \in 0 .. MaxClients /\ x.held \in 0 .. MaxClients
    BY <1>1, Constants DEF Claims
  <2>5. c \in Claims
    BY <1>1, <2>3, <2>4 DEF Claims
  <2>6. Coherent(c)
    BY <1>1, <2>3, <2>4, Constants DEF Claims, Coherent, Answering, Probing
  <2> QED BY <1>1, <2>2, <2>5, <2>6, ClaimChanges
<1> QED BY <1>2, <1>3

-----------------------------------------------------------------------------
(* Messages *)

\* What waits to be read.
Pending(s) == {s[i] : i \in DOMAIN s}

\* Host g has told host h that the name is g's, or has probed it, and h has
\* not read that yet.
Told(box, g, h, n) == Message("response", n, g) \in Pending(box[h])
Probed(box, g, h, n) == Message("probe", n, g) \in Pending(box[h])

LEMMA MessageIs ==
  ASSUME NEW n \in Names, NEW h \in Hosts
  PROVE  /\ Message("response", n, h) \in Messages /\ Message("probe", n, h) \in Messages
         /\ Message("query", n, NoHost) \in Messages
BY DEF Message, Messages

LEMMA AppendPending ==
  ASSUME NEW s \in Seq(Messages), NEW m \in Messages
  PROVE  /\ Append(s, m) \in Seq(Messages)
         /\ Pending(Append(s, m)) = Pending(s) \cup {m}
<1>1. /\ Append(s, m) \in Seq(Messages) /\ Len(Append(s, m)) = Len(s) + 1
      /\ \A i \in 1 .. Len(s) : Append(s, m)[i] = s[i]
      /\ Append(s, m)[Len(s) + 1] = m
  OBVIOUS
<1>2. DOMAIN s = 1 .. Len(s) /\ DOMAIN Append(s, m) = 1 .. Len(s) + 1 /\ Len(s) \in Nat
  BY <1>1
<1>3. \A e \in Pending(Append(s, m)) : e \in Pending(s) \cup {m}
  BY <1>1, <1>2 DEF Pending
<1>4. \A e \in Pending(s) \cup {m} : e \in Pending(Append(s, m))
  BY <1>1, <1>2 DEF Pending
<1> QED BY <1>1, <1>3, <1>4

LEMMA TailPending ==
  ASSUME NEW s \in Seq(Messages), s # <<>>
  PROVE  /\ Tail(s) \in Seq(Messages) /\ Head(s) \in Messages
         /\ Head(s) \in Pending(s)
         /\ \A e \in Pending(Tail(s)) : e \in Pending(s)
         /\ \A e \in Pending(s) : e = Head(s) \/ e \in Pending(Tail(s))
<1>1. /\ Tail(s) \in Seq(Messages) /\ Len(Tail(s)) = Len(s) - 1 /\ Len(s) \in Nat \ {0}
      /\ \A i \in 1 .. Len(s) - 1 : Tail(s)[i] = s[i + 1]
      /\ Head(s) = s[1]
  OBVIOUS
<1>2. DOMAIN s = 1 .. Len(s) /\ DOMAIN Tail(s) = 1 .. Len(s) - 1
  BY <1>1
<1>3. Head(s) \in Pending(s) /\ Head(s) \in Messages
  BY <1>1, <1>2 DEF Pending
<1>4. \A e \in Pending(Tail(s)) : e \in Pending(s)
  <2>1. \A i \in 1 .. Len(s) - 1 : i + 1 \in 1 .. Len(s)
    BY <1>1
  <2> QED BY <1>1, <1>2, <2>1 DEF Pending
<1>5. ASSUME NEW i \in 1 .. Len(s), i # 1
      PROVE  s[i] \in Pending(Tail(s))
  <2>1. i - 1 \in 1 .. Len(s) - 1 /\ s[i] = Tail(s)[i - 1]
    BY <1>1, <1>5
  <2> QED BY <1>2, <2>1 DEF Pending
<1>6. \A e \in Pending(s) : e = Head(s) \/ e \in Pending(Tail(s))
  BY <1>1, <1>2, <1>5 DEF Pending
<1> QED BY <1>1, <1>3, <1>4, <1>6

\* What a multicast adds to the boxes.
LEMMA ArrivedAdds ==
  ASSUME NEW box \in [Hosts -> Seq(Messages)], NEW m \in Messages
  PROVE  /\ Arrived(box, m) \in [Hosts -> Seq(Messages)]
         /\ \A h \in Hosts :
              Pending(Arrived(box, m)[h]) =
                 IF Hears(h, m) THEN Pending(box[h]) \cup {m} ELSE Pending(box[h])
BY AppendPending DEF Arrived

\* A response of host x says that x has the name, and nothing of other hosts.
LEMMA ResponseTells ==
  ASSUME NEW box \in [Hosts -> Seq(Messages)], NEW x \in Hosts, NEW k \in Names,
         NEW g \in Hosts, NEW h \in Hosts, NEW n \in Names, ~cut
  PROVE  LET new == Arrived(box, Message("response", k, x))
         IN  /\ Told(new, g, h, n) <=> (Told(box, g, h, n) \/ (g = x /\ n = k /\ h \in up))
             /\ Probed(new, g, h, n) <=> Probed(box, g, h, n)
<1> DEFINE m == Message("response", k, x)
<1>1. Pending(Arrived(box, m)[h]) = IF Hears(h, m) THEN Pending(box[h]) \cup {m} ELSE Pending(box[h])
  BY ArrivedAdds, MessageIs
<1>2. Hears(h, m) <=> h \in up
  BY DEF Hears, Message
<1>3. /\ Message("response", n, g) = m <=> (n = k /\ g = x)
      /\ Message("probe", n, g) # m
  BY DEF Message
<1> QED BY <1>1, <1>2, <1>3 DEF Told, Probed

LEMMA ProbeTells ==
  ASSUME NEW box \in [Hosts -> Seq(Messages)], NEW x \in Hosts, NEW k \in Names,
         NEW g \in Hosts, NEW h \in Hosts, NEW n \in Names, ~cut
  PROVE  LET new == Arrived(box, Message("probe", k, x))
         IN  /\ Told(new, g, h, n) <=> Told(box, g, h, n)
             /\ Probed(new, g, h, n) <=>
                   (Probed(box, g, h, n) \/ (g = x /\ n = k /\ h # x /\ h \in up))
<1> DEFINE m == Message("probe", k, x)
<1>1. Pending(Arrived(box, m)[h]) = IF Hears(h, m) THEN Pending(box[h]) \cup {m} ELSE Pending(box[h])
  BY ArrivedAdds, MessageIs
<1>2. Hears(h, m) <=> h \in up /\ h # x
  BY DEF Hears, Message
<1>3. /\ Message("probe", n, g) = m <=> (n = k /\ g = x)
      /\ Message("response", n, g) # m
  BY DEF Message
<1> QED BY <1>1, <1>2, <1>3 DEF Told, Probed

LEMMA QueryTells ==
  ASSUME NEW box \in [Hosts -> Seq(Messages)], NEW k \in Names,
         NEW g \in Hosts, NEW h \in Hosts, NEW n \in Names
  PROVE  LET new == Arrived(box, Message("query", k, NoHost))
         IN  /\ Told(new, g, h, n) <=> Told(box, g, h, n)
             /\ Probed(new, g, h, n) <=> Probed(box, g, h, n)
<1> DEFINE m == Message("query", k, NoHost)
<1>1. Pending(Arrived(box, m)[h]) = IF Hears(h, m) THEN Pending(box[h]) \cup {m} ELSE Pending(box[h])
  BY ArrivedAdds, MessageIs
<1>2. Message("probe", n, g) # m /\ Message("response", n, g) # m
  BY DEF Message
<1> QED BY <1>1, <1>2 DEF Told, Probed

\* What reading a message takes out of a box.
OneRead(box, new, x) ==
    \A h \in Hosts : new[h] = IF h = x THEN Tail(box[x]) ELSE box[h]

LEMMA ReadTells ==
  ASSUME NEW box \in [Hosts -> Seq(Messages)], NEW x \in Hosts, box[x] # <<>>,
         NEW new, OneRead(box, new, x),
         NEW g \in Hosts, NEW h \in Hosts, NEW n \in Names
  PROVE  /\ Told(new, g, h, n) => Told(box, g, h, n)
         /\ Told(box, g, h, n) =>
               Told(new, g, h, n) \/ (h = x /\ Head(box[x]) = Message("response", n, g))
         /\ Probed(box, g, h, n) =>
               Probed(new, g, h, n) \/ (h = x /\ Head(box[x]) = Message("probe", n, g))
<1>1. /\ \A e \in Pending(Tail(box[x])) : e \in Pending(box[x])
      /\ \A e \in Pending(box[x]) : e = Head(box[x]) \/ e \in Pending(Tail(box[x]))
  BY TailPending
<1> QED BY <1>1 DEF Told, Probed, OneRead

LEMMA SendTyped ==
  ASSUME NEW box \in [Hosts -> Seq(Messages)], NEW h \in Hosts, NEW n \in Names
  PROVE  /\ Arrived(box, Message("response", n, h)) \in [Hosts -> Seq(Messages)]
         /\ Arrived(box, Message("probe", n, h)) \in [Hosts -> Seq(Messages)]
         /\ Arrived(box, Message("query", n, NoHost)) \in [Hosts -> Seq(Messages)]
BY ArrivedAdds, MessageIs

LEMMA SendKeeps ==
  ASSUME TypeInv, NEW h \in Hosts, NEW n \in Names,
         NEW kind \in {"response", "probe"}, Send(kind, n, h)
  PROVE  inbox' \in [Hosts -> Seq(Messages)]
<1>1. inbox \in [Hosts -> Seq(Messages)]
  BY DEF TypeInv, MessageInv
<1> QED BY <1>1, SendTyped DEF Send

\* A claim that is there has a name, and an owner's is the one it claimed.
LEMMA NamesOf ==
  ASSUME ClaimInv, NEW h \in Hosts
  PROVE  /\ claim[h].phase # "none" => claim[h].candidate \in Names /\ h \in up
         /\ claim[h].phase \in Answering =>
               /\ claim[h].current = claim[h].candidate /\ claim[h].current \in Names
               /\ h \in up
BY DEF ClaimInv, Coherent, Answering

\* The steps of a claim.
LEMMA ClientTyped ==
  ASSUME TypeInv, NEW h \in Hosts, Client(h)
  PROVE  TypeInv'
<1>1. ClaimInv'
  BY RegisterTyped, LeaveTyped DEF TypeInv, Client
<1>2. MessageInv'
  <2>1. UNCHANGED <<answers, requests>>
    BY DEF Client, Register, Cancel, Release
  <2>2. inbox' \in [Hosts -> Seq(Messages)]
    <3>1. UNCHANGED inbox \/ (claim[h].phase \in Answering /\ Send("response", claim[h].current, h))
      BY DEF Client, Register, Cancel, Release
    <3>2. claim[h].phase \in Answering => claim[h].current \in Names
      BY NamesOf DEF TypeInv
    <3> QED BY <3>1, <3>2, SendKeeps DEF TypeInv, MessageInv
  <2> QED BY <2>1, <2>2 DEF TypeInv, MessageInv
<1>3. WorldInv'
  <2>1. UNCHANGED link /\ UNCHANGED up
    BY DEF Client, Register, Cancel, Release
  <2>2. calls' \in [Hosts -> Nat]
    <3>1. UNCHANGED calls \/ calls' = [calls EXCEPT ![h] = @ + 1]
      BY DEF Client, Register, Cancel, Release, counts
    <3> QED BY <3>1 DEF TypeInv, WorldInv
  <2> QED BY <2>1, <2>2 DEF TypeInv, WorldInv, link
<1> QED BY <1>1, <1>2, <1>3 DEF TypeInv

LEMMA DeadlinesTyped ==
  ASSUME TypeInv, NEW h \in Hosts, Deadline(h) \/ QueueFull(h)
  PROVE  TypeInv'
<1>1. CASE SendProbe(h) \/ AnnounceAgain(h)
  <2>1. claim[h].candidate \in Names
    BY <1>1, NamesOf DEF SendProbe, AnnounceAgain, Expired, TypeInv
  <2>2. inbox' \in [Hosts -> Seq(Messages)]
    BY <1>1, <2>1, SendKeeps DEF SendProbe, AnnounceAgain
  <2>3. ClaimInv'
    BY <1>1, DeadlineTyped DEF TypeInv
  <2> QED BY <1>1, <2>2, <2>3
          DEF TypeInv, MessageInv, WorldInv, SendProbe, AnnounceAgain, link, counts
<1>2. CASE AskCoordinator(h)
  <2>1. ClaimInv'
    BY <1>2, DeadlineTyped DEF TypeInv
  <2>2. claim[h].candidate \in Names /\ claim[h].generation \in Nat
    BY <1>2, NamesOf DEF AskCoordinator, Expired, TypeInv, ClaimInv, Claims
  <2>3. [name |-> claim[h].candidate, generation |-> claim[h].generation, left |-> MaxPrepare] \in Requests
    BY <2>2, Constants DEF Requests
  <2>4. requests' \in [Hosts -> Seq(Requests)]
    BY <1>2, <2>3 DEF AskCoordinator, TypeInv, MessageInv
  <2> QED BY <1>2, <2>1, <2>4 DEF TypeInv, MessageInv, WorldInv, AskCoordinator, link, counts
<1>3. CASE SendAnswers(h)
  <2>1. PICK a \in Due(h) :
          /\ answers' = [answers EXCEPT ![h] = @ \ {a}]
          /\ IF claim[h].phase \in Answering
             THEN /\ Send("response", a.name, h)
                  /\ claim' = [claim EXCEPT ![h].since = 0]
             ELSE UNCHANGED <<claim, inbox>>
    BY <1>3 DEF SendAnswers
  <2>2. a.name \in Names /\ UNCHANGED <<requests, up, link, counts>>
    BY <1>3, <2>1 DEF SendAnswers, Due, TypeInv, MessageInv, Answers
  <2>3. answers' \in [Hosts -> SUBSET Answers]
    BY <2>1 DEF TypeInv, MessageInv
  <2>4. CASE claim[h].phase \in Answering
    <3>1. ClaimInv'
      BY <2>1, <2>2, <2>4, SinceTyped DEF TypeInv
    <3>2. inbox' \in [Hosts -> Seq(Messages)]
      BY <2>1, <2>2, <2>4, SendKeeps
    <3> QED BY <2>2, <2>3, <3>1, <3>2 DEF TypeInv, MessageInv, WorldInv, link, counts
  <2>5. CASE claim[h].phase \notin Answering
    BY <2>1, <2>2, <2>3, <2>5 DEF TypeInv, ClaimInv, MessageInv, WorldInv, link, counts
  <2> QED BY <2>4, <2>5
<1>4. CASE QueueFull(h)
  <2>1. ClaimInv'
    BY <1>4, DropKeeps DEF QueueFull, TypeInv
  <2> QED BY <1>4, <2>1 DEF TypeInv, MessageInv, WorldInv, QueueFull, link
<1> QED BY <1>1, <1>2, <1>3, <1>4 DEF Deadline

LEMMA CoordinatedTyped ==
  ASSUME TypeInv, NEW h \in Hosts, Coordinated(h)
  PROVE  TypeInv'
<1>1. /\ requests' \in [Hosts -> Seq(Requests)] /\ UNCHANGED <<answers, up, link, counts>>
  <2>1. Answered(h) /\ UNCHANGED <<answers, up, link, counts>>
    BY DEF Coordinated, Prepared, NotPrepared
  <2>2. requests \in [Hosts -> Seq(Requests)] /\ requests[h] # <<>>
    BY <2>1 DEF Answered, TypeInv, MessageInv
  <2>3. Tail(requests[h]) \in Seq(Requests)
    BY <2>2
  <2> QED BY <2>1, <2>2, <2>3 DEF Answered
<1>2. ClaimInv' /\ inbox' \in [Hosts -> Seq(Messages)]
  <2>1. CASE Prepared(h) /\ IsLatest(h)
    <3>1. claim[h].phase = "awaiting"
      BY <2>1 DEF IsLatest
    <3>2. ClaimInv'
      BY <1>1, <2>1, <3>1, AnnounceTyped DEF Prepared, TypeInv
    <3>3. inbox' \in [Hosts -> Seq(Messages)]
      <4>1. claim[h].candidate \in Names
        BY <3>1, NamesOf DEF TypeInv
      <4> QED BY <2>1, <4>1, SendKeeps DEF Prepared
    <3> QED BY <3>2, <3>3
  <2>2. CASE NotPrepared(h) /\ IsLatest(h)
    BY <1>1, <2>2, DropKeeps DEF NotPrepared, TypeInv, MessageInv
  <2>3. CASE ~IsLatest(h)
    BY <1>1, <2>3 DEF Coordinated, Prepared, NotPrepared, TypeInv, ClaimInv, MessageInv
  <2> QED BY <2>1, <2>2, <2>3 DEF Coordinated
<1> QED BY <1>1, <1>2 DEF TypeInv, MessageInv, WorldInv, link, counts

\* When an owner answers.
LEMMA MulticastWhen ==
  ASSUME TypeInv, NEW h \in Hosts, NEW m \in Messages
  PROVE  /\ MulticastDue(h, m) \in 0 .. AnswerInterval
         /\ m.kind = "probe" => MulticastDue(h, m) \in 0 .. 1
<1>1. claim[h].since \in 0 .. AnswerInterval
  BY DEF TypeInv, ClaimInv, Claims
<1> QED BY <1>1, Constants DEF MulticastDue

LEMMA ReceiveTyped ==
  ASSUME TypeInv, NEW h \in Hosts, Receive(h)
  PROVE  TypeInv'
<1> DEFINE m == Head(inbox[h])
           read == [inbox EXCEPT ![h] = Tail(@)]
<1>1. /\ m \in Messages /\ read \in [Hosts -> Seq(Messages)]
      /\ UNCHANGED <<requests, up, link, counts>>
  BY TailPending DEF Receive, TypeInv, MessageInv
<1>2. m.name \in Names
  BY <1>1 DEF Messages
<1>3. CASE Conflicts(h, m) /\ Reprobe(h) /\ inbox' = read /\ UNCHANGED answers
  <2>1. ClaimInv'
    BY <1>1, <1>3, ReprobeTyped DEF Conflicts, TypeInv
  <2> QED BY <1>1, <1>3, <2>1 DEF TypeInv, MessageInv, WorldInv, link, counts
<1>4. CASE /\ Asks(h, m) /\ MulticastDue(h, m) = 0
           /\ claim' = [claim EXCEPT ![h].since = 0]
           /\ inbox' = Arrived(read, Message("response", m.name, h))
           /\ UNCHANGED answers
  <2>1. ClaimInv'
    BY <1>1, <1>4, SinceTyped DEF Asks, TypeInv
  <2>2. inbox' \in [Hosts -> Seq(Messages)]
    BY <1>1, <1>2, <1>4, SendTyped
  <2> QED BY <1>1, <1>4, <2>1, <2>2 DEF TypeInv, MessageInv, WorldInv, link, counts
<1>5. CASE /\ Asks(h, m) /\ MulticastDue(h, m) > 0
           /\ answers' = [answers EXCEPT ![h] =
                             @ \cup {[name |-> m.name, due |-> MulticastDue(h, m)]}]
           /\ inbox' = read
           /\ UNCHANGED claim
  <2>1. [name |-> m.name, due |-> MulticastDue(h, m)] \in Answers
    BY <1>1, <1>2, MulticastWhen DEF Answers
  <2>2. answers' \in [Hosts -> SUBSET Answers]
    BY <1>5, <2>1 DEF TypeInv, MessageInv
  <2> QED BY <1>1, <1>5, <2>2 DEF TypeInv, ClaimInv, MessageInv, WorldInv, link, counts
<1>6. CASE Loses(h, m) /\ Rename(h) /\ inbox' = read /\ UNCHANGED answers
  <2>1. ClaimInv'
    BY <1>1, <1>6, RenameTyped DEF Loses, TypeInv
  <2> QED BY <1>1, <1>6, <2>1 DEF TypeInv, MessageInv, WorldInv, link, counts
<1>7. CASE inbox' = read /\ UNCHANGED <<claim, answers>>
  BY <1>1, <1>7 DEF TypeInv, ClaimInv, MessageInv, WorldInv, link, counts
<1> QED BY <1>3, <1>4, <1>5, <1>6, <1>7 DEF Receive

\* Responders that end and start.
LEMMA EndsTyped ==
  ASSUME TypeInv, NEW h \in Hosts, Fail(h) \/ Close(h) \/ New(h)
  PROVE  TypeInv'
<1>1. CASE Fail(h) \/ Close(h)
  <2>1. Ended(h)
    BY <1>1 DEF Fail, Close
  <2>2. ClaimInv'
    BY <2>1, DropKeeps DEF Ended, TypeInv
  <2>3. inbox' \in [Hosts -> Seq(Messages)]
    <3>1. CASE Fail(h)
      BY <3>1 DEF Fail, TypeInv, MessageInv
    <3>2. CASE Close(h)
      <4>1. Arrived(inbox, Message("response", claim[h].current, h)) \in [Hosts -> Seq(Messages)]
        BY <3>2, SendTyped, NamesOf DEF Close, TypeInv, MessageInv
      <4> QED BY <3>2, <4>1 DEF Close
    <3> QED BY <1>1, <3>1, <3>2
  <2>4. answers' \in [Hosts -> SUBSET Answers] /\ requests' \in [Hosts -> Seq(Requests)]
    BY <2>1 DEF Ended, TypeInv, MessageInv
  <2> QED BY <2>1, <2>2, <2>3, <2>4 DEF Ended, TypeInv, MessageInv, WorldInv, link
<1>2. CASE New(h)
  BY <1>2 DEF New, TypeInv, ClaimInv, MessageInv, WorldInv, link, counts
<1> QED BY <1>1, <1>2

\* The world.
LEMMA TickTyped ==
  ASSUME TypeInv, Tick
  PROVE  TypeInv'
<1>1. ASSUME NEW h \in Hosts
      PROVE  /\ claim'[h] \in Claims /\ Coherent(claim'[h])
             /\ claim'[h].phase = claim[h].phase
  <2> DEFINE x == claim[h]
             c == [x EXCEPT !.deadline = Later(@),
                            !.since = IF @ < AnswerInterval THEN @ + 1 ELSE @]
  <2>1. x \in Claims /\ Coherent(x) /\ x.deadline # 0
    BY DEF TypeInv, ClaimInv, Tick, Calm
  <2>2. /\ x.deadline \in Never .. AnnounceInterval /\ x.since \in 0 .. AnswerInterval
        /\ x.waiting \in 0 .. MaxClients /\ x.held \in 0 .. MaxClients
    BY <2>1 DEF Claims
  <2>3. /\ Later(x.deadline) \in Never .. AnnounceInterval
        /\ (IF x.since < AnswerInterval THEN x.since + 1 ELSE x.since) \in 0 .. AnswerInterval
        /\ x.deadline = Never => Later(x.deadline) = Never
        /\ x.deadline \in 0 .. 1 => Later(x.deadline) \in 0 .. 1
        /\ x.deadline \in 0 .. AnnounceInterval => Later(x.deadline) \in 0 .. AnnounceInterval
    BY <2>2, Constants DEF Later
  <2>4. claim'[h] = c
    BY DEF Tick
  <2>5. c \in Claims
    BY <2>1, <2>3 DEF Claims
  <2>6. /\ c.phase = x.phase /\ c.candidate = x.candidate /\ c.current = x.current
        /\ c.probes = x.probes /\ c.deadline = Later(x.deadline)
        /\ c.waiting = x.waiting /\ c.held = x.held
    BY <2>1 DEF Claims
  <2> HIDE DEF c, x
  <2>7. Coherent(c)
    BY <2>1, <2>3, <2>6 DEF Coherent
  <2> QED BY <2>4, <2>5, <2>6, <2>7 DEF x
<1>2. ClaimInv'
  BY <1>1 DEF TypeInv, ClaimInv, Tick
<1>3. answers' \in [Hosts -> SUBSET Answers]
  <2>1. \A n \in 0 .. AnswerInterval : Later(n) \in 0 .. AnswerInterval
    BY Constants DEF Later
  <2>2. \A a \in Answers : [a EXCEPT !.due = Later(@)] \in Answers
    BY <2>1 DEF Answers
  <2> QED BY <2>2 DEF Tick, TypeInv, MessageInv
<1>4. requests' \in [Hosts -> Seq(Requests)]
  <2>1. \A n \in 0 .. MaxPrepare : Later(n) \in 0 .. MaxPrepare
    BY Constants DEF Later
  <2>2. \A r \in Requests : [r EXCEPT !.left = Later(@)] \in Requests
    BY <2>1 DEF Requests
  <2>3. ASSUME NEW h \in Hosts
        PROVE  [i \in DOMAIN requests[h] |-> [requests[h][i] EXCEPT !.left = Later(@)]] \in Seq(Requests)
    <3>1. requests[h] \in Seq(Requests) /\ Len(requests[h]) \in Nat /\ DOMAIN requests[h] = 1 .. Len(requests[h])
      BY DEF TypeInv, MessageInv
    <3>2. \A i \in 1 .. Len(requests[h]) : [requests[h][i] EXCEPT !.left = Later(@)] \in Requests
      BY <2>2, <3>1
    <3> QED BY <3>1, <3>2, IsASeq
  <2> QED BY <2>3 DEF Tick
<1> QED BY <1>2, <1>3, <1>4 DEF Tick, TypeInv, MessageInv, WorldInv, link, counts

LEMMA WorldTyped ==
  ASSUME TypeInv, (\E n \in Names : Query(n)) \/ Cut \/ Heal
  PROVE  TypeInv'
<1>1. CASE \E n \in Names : Query(n)
  <2>1. inbox' \in [Hosts -> Seq(Messages)]
    <3>1. inbox \in [Hosts -> Seq(Messages)]
      BY DEF TypeInv, MessageInv
    <3>2. PICK n \in Names : inbox' = Arrived(inbox, Message("query", n, NoHost))
      BY <1>1 DEF Query
    <3>3. Message("query", n, NoHost) \in Messages
      BY DEF Message, Messages
    <3> QED BY <3>1, <3>2, <3>3, ArrivedAdds
  <2> QED BY <1>1, <2>1 DEF Query, TypeInv, ClaimInv, MessageInv, WorldInv, link, counts
<1>2. CASE Cut \/ Heal
  BY <1>2 DEF Cut, Heal, TypeInv, ClaimInv, MessageInv, WorldInv, counts
<1> QED BY <1>1, <1>2

LEMMA TypeInit == Init => TypeInv
<1> SUFFICES ASSUME Init
             PROVE  TypeInv
  OBVIOUS
<1>1. ClaimInv
  BY NoClaimIs DEF Init, ClaimInv, NoClaim
<1>2. MessageInv
  BY DEF Init, MessageInv
<1>3. WorldInv
  BY DEF Init, WorldInv
<1> QED BY <1>1, <1>2, <1>3 DEF TypeInv

LEMMA TypeStep == TypeInv /\ [Next]_vars => TypeInv'
<1> SUFFICES ASSUME TypeInv, [Next]_vars
             PROVE  TypeInv'
  OBVIOUS
<1>1. ASSUME NEW h \in Hosts, Client(h) \/ Deadline(h) \/ Coordinated(h) \/ Receive(h)
                              \/ QueueFull(h) \/ Fail(h) \/ Close(h) \/ New(h)
      PROVE  TypeInv'
  BY <1>1, ClientTyped, DeadlinesTyped, CoordinatedTyped, ReceiveTyped, EndsTyped
<1>2. CASE Tick \/ (\E n \in Names : Query(n)) \/ Cut \/ Heal
  BY <1>2, TickTyped, WorldTyped
<1>3. CASE UNCHANGED vars
  BY <1>3 DEF vars, TypeInv, ClaimInv, MessageInv, WorldInv, link, counts
<1> QED BY <1>1, <1>2, <1>3 DEF Next

-----------------------------------------------------------------------------
(* What two hosts know of each other *)

Owns(h, n) == claim[h].phase \in Answering /\ claim[h].current = n
Claiming(h, n) == claim[h].phase \in Probing /\ claim[h].candidate = n

\* The first announcement has been made in this tick.
Fresh(h) == claim[h].phase = "announcing" /\ claim[h].deadline = AnnounceInterval

\* One probe has been sent, or two, the second in this tick.
Early(g) == claim[g].probes = 1 \/ (claim[g].probes = 2 /\ claim[g].deadline = 1)

\* Nothing but the coordinator is left to ask.
AllProbed(h) == claim[h].phase = "awaiting" \/ (claim[h].phase = "observing" /\ claim[h].deadline = 0)

\* Of two owners of a name each is about to hear of the other.
BothOwn(g, h, n) == (Owns(g, n) /\ Owns(h, n)) => Told(inbox, g, h, n)

\* Who claims a name that has an owner is about to hear of that owner: from
\* its first announcement, or from the answer to a probe, which comes before
\* the second interval between probes has begun to pass.
OwnerAnswers(g, h, n) ==
    (Owns(h, n) /\ Claiming(g, n)) =>
        \/ Told(inbox, h, g, n) /\ Fresh(h)
        \/ /\ Early(g)
           /\ \/ Told(inbox, h, g, n)
              \/ /\ claim[g].probes = 1 /\ claim[g].deadline = 1
                 /\ Probed(inbox, g, h, n) \/ [name |-> n, due |-> 1] \in answers[h]
              \/ [name |-> n, due |-> 0] \in answers[h]

\* What a host has still to say of a name that it has lost is said before the
\* new owner has announced it twice.
OldAnswers(g, h, n) ==
    Owns(h, n) =>
        \A a \in answers[g] :
            a.name = n => \/ claim[h].phase = "announcing" /\ a.due < claim[h].deadline
                          \/ Told(inbox, g, h, n)

\* Only a host that has announced its name once may hear of another owner.
NotTold(g, h, n) ==
    (Owns(h, n) /\ Told(inbox, g, h, n)) =>
        claim[h].phase = "announcing" /\ claim[h].deadline >= 1

\* As OldAnswers, before the first announcement.
AnswersLeft(g, h, n) ==
    (AllProbed(h) /\ claim[h].candidate = n) =>
        \A a \in answers[g] : a.name = n => a.due <= 3 \/ Told(inbox, g, h, n)

Pair(g, h, n) ==
    /\ BothOwn(g, h, n) /\ OwnerAnswers(g, h, n) /\ OldAnswers(g, h, n)
    /\ NotTold(g, h, n) /\ AnswersLeft(g, h, n)

PairInv == ~split => \A g, h \in Hosts : \A n \in Names : g # h => Pair(g, h, n)

\* A name that has been given to somebody is not probed any more.
HeldInv == ~split => \A h \in Hosts : claim[h].held > 0 => claim[h].phase = "active"

\* A step of host x, and what it leaves alone: the others, and what they have
\* not read yet.
StepOf(x) ==
    /\ ~split /\ ~split' /\ PairInv /\ TypeInv
    /\ \A y \in Hosts : y # x => claim'[y] = claim[y] /\ answers'[y] = answers[y]
    /\ \A y, z \in Hosts : \A n \in Names :
          /\ z # x => (Told(inbox, y, z, n) => Told(inbox', y, z, n))
          /\ y # x => (Told(inbox', y, z, n) => Told(inbox, y, z, n))
          /\ z # x => (Probed(inbox, y, z, n) => Probed(inbox', y, z, n))

\* The claim of x is where it was, whoever has it.
SameClaim(x) ==
    /\ claim'[x].phase = claim[x].phase /\ claim'[x].candidate = claim[x].candidate
    /\ claim'[x].current = claim[x].current /\ claim'[x].probes = claim[x].probes
    /\ claim'[x].deadline = claim[x].deadline

\* What x has told the others of its name, and nothing else.
Tells(x, k) ==
    /\ \A z \in Hosts \ {x} : claim[z].phase # "none" => Told(inbox', x, z, k)
    /\ \A z \in Hosts \ {x} : \A n \in Names :
          Told(inbox', x, z, n) => Told(inbox, x, z, n) \/ n = k
TellsNothing(x) ==
    \A z \in Hosts \ {x} : \A n \in Names : Told(inbox', x, z, n) => Told(inbox, x, z, n)

\* What x has read did not matter to it.
Overhears(x) ==
    \A z \in Hosts \ {x} : \A n \in Names :
        /\ Told(inbox, z, x, n) => Told(inbox', z, x, n) \/ ~(Owns(x, n) \/ Claiming(x, n))
        /\ Probed(inbox, z, x, n) => Probed(inbox', z, x, n) \/ ~Owns(x, n)

\* Pairs of other hosts do not notice.
LEMMA OtherPairs ==
  ASSUME NEW x \in Hosts, StepOf(x), NEW g \in Hosts \ {x}, NEW h \in Hosts \ {x},
         NEW n \in Names, g # h
  PROVE  Pair(g, h, n)'
<1>1. Pair(g, h, n)
  BY DEF StepOf, PairInv
<1>2. /\ claim'[g] = claim[g] /\ claim'[h] = claim[h]
      /\ answers'[g] = answers[g] /\ answers'[h] = answers[h]
      /\ Told(inbox', g, h, n) <=> Told(inbox, g, h, n)
      /\ Told(inbox', h, g, n) <=> Told(inbox, h, g, n)
      /\ Probed(inbox, g, h, n) => Probed(inbox', g, h, n)
  BY DEF StepOf
<1>3. BothOwn(g, h, n)'
  BY <1>1, <1>2 DEF Pair, BothOwn, Owns
<1>4. OwnerAnswers(g, h, n)'
  BY <1>1, <1>2 DEF Pair, OwnerAnswers, Owns, Claiming, Fresh, Early
<1>5. OldAnswers(g, h, n)'
  BY <1>1, <1>2 DEF Pair, OldAnswers, Owns
<1>6. NotTold(g, h, n)'
  BY <1>1, <1>2 DEF Pair, NotTold, Owns
<1>7. AnswersLeft(g, h, n)'
  BY <1>1, <1>2 DEF Pair, AnswersLeft, AllProbed
<1> QED BY <1>3, <1>4, <1>5, <1>6, <1>7 DEF Pair

\* It is enough to look at the pairs of x.
LEMMA PairsOf ==
  ASSUME NEW x \in Hosts, StepOf(x),
         \A y \in Hosts \ {x} : \A n \in Names : Pair(x, y, n)' /\ Pair(y, x, n)'
  PROVE  PairInv'
<1> SUFFICES ASSUME NEW g \in Hosts, NEW h \in Hosts, NEW n \in Names, g # h
             PROVE  Pair(g, h, n)'
  BY DEF PairInv
<1>1. CASE g # x /\ h # x
  BY <1>1, OtherPairs
<1>2. CASE g = x \/ h = x
  BY <1>2
<1> QED BY <1>1, <1>2

\* The claim of x ends, or begins anew; x may take back its name.
LEMMA OutStep ==
  ASSUME NEW x \in Hosts, StepOf(x),
         claim'[x].phase \in {"none", "wait"},
         \A a \in answers'[x] : a \in answers[x],
         \A z \in Hosts \ {x} : \A n \in Names :
            Told(inbox', x, z, n) => Told(inbox, x, z, n) \/ Owns(x, n)
  PROVE  PairInv'
<1> SUFFICES ASSUME NEW y \in Hosts \ {x}, NEW n \in Names
             PROVE  Pair(x, y, n)' /\ Pair(y, x, n)'
  BY PairsOf
<1>1. Pair(x, y, n)
  BY DEF StepOf, PairInv
<1>2. ~Owns(x, n)' /\ ~Claiming(x, n)' /\ ~AllProbed(x)'
  BY DEF Owns, Claiming, AllProbed, Probing, Answering
<1>3. Pair(y, x, n)'
  BY <1>2 DEF Pair, BothOwn, OwnerAnswers, OldAnswers, NotTold, AnswersLeft
<1>4. /\ claim'[y] = claim[y]
      /\ Told(inbox, x, y, n) => Told(inbox', x, y, n)
      /\ Told(inbox', x, y, n) => Told(inbox, x, y, n) \/ Owns(x, n)
  BY DEF StepOf
<1>5. BothOwn(x, y, n)' /\ OwnerAnswers(x, y, n)'
  BY <1>2 DEF BothOwn, OwnerAnswers
<1>6. OldAnswers(x, y, n)'
  BY <1>1, <1>4 DEF Pair, OldAnswers, Owns
<1>7. NotTold(x, y, n)'
  BY <1>1, <1>4 DEF Pair, BothOwn, NotTold, Owns
<1>8. AnswersLeft(x, y, n)'
  BY <1>1, <1>4 DEF Pair, AnswersLeft, AllProbed
<1> QED BY <1>3, <1>5, <1>6, <1>7, <1>8 DEF Pair

\* The claim of x stays where it is, and x says nothing: what it has read did
\* not matter to it, and it has forgotten no answer of an owner.
LEMMA SameStep ==
  ASSUME NEW x \in Hosts, StepOf(x), SameClaim(x), TellsNothing(x),
         \A a \in answers'[x] : a \in answers[x],
         \A n \in Names : Owns(x, n) => answers'[x] = answers[x],
         Overhears(x)
  PROVE  PairInv'
<1> SUFFICES ASSUME NEW y \in Hosts \ {x}, NEW n \in Names
             PROVE  Pair(x, y, n)' /\ Pair(y, x, n)'
  BY PairsOf
<1>1. Pair(x, y, n) /\ Pair(y, x, n)
  BY DEF StepOf, PairInv
<1>2. /\ claim'[y] = claim[y] /\ answers'[y] = answers[y]
      /\ Told(inbox', x, y, n) <=> Told(inbox, x, y, n)
      /\ Told(inbox', y, x, n) => Told(inbox, y, x, n)
      /\ Owns(x, n) \/ Claiming(x, n) => (Told(inbox, y, x, n) => Told(inbox', y, x, n))
      /\ Probed(inbox, x, y, n) => Probed(inbox', x, y, n)
      /\ Owns(x, n) => (Probed(inbox, y, x, n) => Probed(inbox', y, x, n))
      /\ Owns(x, n) => answers'[x] = answers[x]
  BY DEF StepOf, TellsNothing, Overhears
<1>3. /\ Owns(x, n)' <=> Owns(x, n)
      /\ Owns(y, n)' <=> Owns(y, n)
      /\ Claiming(x, n)' <=> Claiming(x, n)
      /\ Claiming(y, n)' <=> Claiming(y, n)
      /\ Fresh(x)' <=> Fresh(x)
      /\ Fresh(y)' <=> Fresh(y)
      /\ Early(x)' <=> Early(x)
      /\ Early(y)' <=> Early(y)
      /\ AllProbed(x)' <=> AllProbed(x)
      /\ AllProbed(y)' <=> AllProbed(y)
      /\ AllProbed(x) /\ claim[x].candidate = n => Claiming(x, n)
  BY <1>2 DEF SameClaim, Owns, Claiming, Fresh, Early, AllProbed, Probing
<1>4. BothOwn(x, y, n)' /\ BothOwn(y, x, n)'
  BY <1>1, <1>2, <1>3 DEF Pair, BothOwn
<1>5. OwnerAnswers(x, y, n)' /\ OwnerAnswers(y, x, n)'
  BY <1>1, <1>2, <1>3 DEF Pair, OwnerAnswers, SameClaim
<1>6. OldAnswers(x, y, n)' /\ OldAnswers(y, x, n)'
  BY <1>1, <1>2, <1>3 DEF Pair, OldAnswers, SameClaim
<1>7. NotTold(x, y, n)' /\ NotTold(y, x, n)'
  BY <1>1, <1>2, <1>3 DEF Pair, NotTold, SameClaim
<1>8. AnswersLeft(x, y, n)' /\ AnswersLeft(y, x, n)'
  BY <1>1, <1>2, <1>3 DEF Pair, AnswersLeft, SameClaim
<1> QED BY <1>4, <1>5, <1>6, <1>7, <1>8 DEF Pair

\* An owner tells all others of a name k: of its own, because it was asked, or
\* of one that it has had to answer for since.
LEMMA AnswerStep ==
  ASSUME NEW x \in Hosts, StepOf(x), SameClaim(x), NEW k \in Names, Tells(x, k),
         claim[x].phase \in Answering,
         \A a \in answers'[x] : a \in answers[x],
         \A a \in answers[x] : a \in answers'[x] \/ a.name = k,
         \A z \in Hosts \ {x} : Owns(z, k) =>
            Told(inbox, x, z, k) \/ (claim[z].phase = "announcing" /\ claim[z].deadline >= 1),
         \A z \in Hosts \ {x} : \A n \in Names :
            Told(inbox, z, x, n) => Told(inbox', z, x, n),
         \A z \in Hosts \ {x} : \A n \in Names :
            Probed(inbox, z, x, n) => Probed(inbox', z, x, n) \/ n = k
  PROVE  PairInv'
<1> SUFFICES ASSUME NEW y \in Hosts \ {x}, NEW n \in Names
             PROVE  Pair(x, y, n)' /\ Pair(y, x, n)'
  BY PairsOf
<1>1. Pair(x, y, n) /\ Pair(y, x, n)
  BY DEF StepOf, PairInv
<1>2. /\ claim'[y] = claim[y] /\ answers'[y] = answers[y]
      /\ Told(inbox, x, y, n) => Told(inbox', x, y, n)
      /\ Told(inbox', x, y, n) => Told(inbox, x, y, n) \/ n = k
      /\ n = k /\ claim[y].phase # "none" => Told(inbox', x, y, n)
      /\ Told(inbox', y, x, n) <=> Told(inbox, y, x, n)
      /\ Probed(inbox, y, x, n) => Probed(inbox', y, x, n) \/ n = k
      /\ \A a \in Answers : a \in answers[x] /\ a.name = n /\ n # k => a \in answers'[x]
  BY DEF StepOf, Tells
<1>3. /\ Owns(x, n)' <=> Owns(x, n)
      /\ Owns(y, n)' <=> Owns(y, n)
      /\ Claiming(y, n)' <=> Claiming(y, n)
      /\ ~Claiming(x, n)' /\ ~AllProbed(x)'
      /\ Fresh(x)' <=> Fresh(x)
      /\ Early(y)' <=> Early(y)
      /\ AllProbed(y)' <=> AllProbed(y)
      /\ Owns(y, n) => claim[y].phase # "none"
      /\ Claiming(y, n) => claim[y].phase # "none"
  BY <1>2 DEF SameClaim, Owns, Claiming, Fresh, Early, AllProbed, Probing, Answering
<1>4. BothOwn(x, y, n)' /\ BothOwn(y, x, n)'
  BY <1>1, <1>2, <1>3 DEF Pair, BothOwn
<1>5. OwnerAnswers(x, y, n)' /\ OwnerAnswers(y, x, n)'
  <2>1. OwnerAnswers(x, y, n)'
    BY <1>3 DEF OwnerAnswers
  <2>2. OwnerAnswers(y, x, n)'
    <3> SUFFICES ASSUME Owns(x, n), Claiming(y, n)
                 PROVE  OwnerAnswers(y, x, n)'
      BY <1>3 DEF OwnerAnswers
    <3>1. CASE n = k
      BY <1>1, <1>2, <1>3, <3>1 DEF Pair, OwnerAnswers
    <3>2. CASE n # k
      <4>1. /\ [name |-> n, due |-> 1] \in answers[x] => [name |-> n, due |-> 1] \in answers'[x]
            /\ [name |-> n, due |-> 0] \in answers[x] => [name |-> n, due |-> 0] \in answers'[x]
        BY <3>2
      <4> QED BY <1>1, <1>2, <1>3, <3>2, <4>1 DEF Pair, OwnerAnswers
    <3> QED BY <3>1, <3>2
  <2> QED BY <2>1, <2>2
<1>6. OldAnswers(x, y, n)' /\ OldAnswers(y, x, n)'
  BY <1>1, <1>2, <1>3 DEF Pair, OldAnswers, SameClaim
<1>7. NotTold(x, y, n)' /\ NotTold(y, x, n)'
  BY <1>1, <1>2, <1>3 DEF Pair, NotTold, SameClaim
<1>8. AnswersLeft(x, y, n)' /\ AnswersLeft(y, x, n)'
  BY <1>1, <1>2, <1>3 DEF Pair, AnswersLeft, SameClaim
<1> QED BY <1>4, <1>5, <1>6, <1>7, <1>8 DEF Pair

\* An owner is asked and will answer later, within one interval if by a probe.
LEMMA ScheduleStep ==
  ASSUME NEW x \in Hosts, StepOf(x), SameClaim(x), TellsNothing(x),
         NEW k \in Names, Owns(x, k), NEW due \in 0 .. AnswerInterval,
         answers'[x] = answers[x] \cup {[name |-> k, due |-> due]},
         \A z \in Hosts \ {x} : \A n \in Names :
            Told(inbox, z, x, n) => Told(inbox', z, x, n),
         \A z \in Hosts \ {x} : \A n \in Names :
            Probed(inbox, z, x, n) => Probed(inbox', z, x, n) \/ (n = k /\ due = 1)
  PROVE  PairInv'
<1> SUFFICES ASSUME NEW y \in Hosts \ {x}, NEW n \in Names
             PROVE  Pair(x, y, n)' /\ Pair(y, x, n)'
  BY PairsOf
<1>1. Pair(x, y, n) /\ Pair(y, x, n)
  BY DEF StepOf, PairInv
<1>2. /\ claim'[y] = claim[y] /\ answers'[y] = answers[y]
      /\ Told(inbox', x, y, n) <=> Told(inbox, x, y, n)
      /\ Told(inbox', y, x, n) <=> Told(inbox, y, x, n)
      /\ Probed(inbox, y, x, n) =>
            Probed(inbox', y, x, n) \/ [name |-> n, due |-> 1] \in answers'[x]
      /\ \A a \in answers[x] : a \in answers'[x]
      /\ \A a \in answers'[x] : a.name = n => a \in answers[x] \/ n = k
  BY DEF StepOf, TellsNothing
<1>3. /\ Owns(x, n)' <=> Owns(x, n)
      /\ Owns(y, n)' <=> Owns(y, n)
      /\ Claiming(y, n)' <=> Claiming(y, n)
      /\ ~Claiming(x, n)' /\ ~AllProbed(x)'
      /\ Fresh(x)' <=> Fresh(x)
      /\ Early(y)' <=> Early(y)
      /\ AllProbed(y)' <=> AllProbed(y)
  BY <1>2 DEF SameClaim, Owns, Claiming, Fresh, Early, AllProbed, Probing, Answering
<1>4. BothOwn(x, y, n)' /\ BothOwn(y, x, n)'
  BY <1>1, <1>2, <1>3 DEF Pair, BothOwn
<1>5. OwnerAnswers(x, y, n)' /\ OwnerAnswers(y, x, n)'
  BY <1>1, <1>2, <1>3 DEF Pair, OwnerAnswers, SameClaim
<1>6. OldAnswers(x, y, n)' /\ OldAnswers(y, x, n)'
  BY <1>1, <1>2, <1>3 DEF Pair, BothOwn, OldAnswers, SameClaim
<1>7. NotTold(x, y, n)' /\ NotTold(y, x, n)'
  BY <1>1, <1>2, <1>3 DEF Pair, NotTold, SameClaim
<1>8. AnswersLeft(x, y, n)' /\ AnswersLeft(y, x, n)'
  <2>1. AnswersLeft(y, x, n)'
    BY <1>3 DEF AnswersLeft
  <2>2. CASE n # k \/ ~(AllProbed(y) /\ claim[y].candidate = n)
    BY <1>1, <1>2, <1>3, <2>2 DEF Pair, AnswersLeft
  <2>3. CASE n = k /\ AllProbed(y) /\ claim[y].candidate = n
    <3>1. Coherent(claim[y])
      BY DEF StepOf, TypeInv, ClaimInv
    <3>2. Claiming(y, n) /\ ~Early(y)
      BY <2>3, <3>1 DEF Coherent, Claiming, AllProbed, Early, Probing
    <3>3. Told(inbox, x, y, n)
      BY <1>1, <2>3, <3>2 DEF Pair, OwnerAnswers
    <3> QED BY <1>2, <2>1, <3>3 DEF AnswersLeft
  <2> QED BY <2>1, <2>2, <2>3
<1> QED BY <1>4, <1>5, <1>6, <1>7, <1>8 DEF Pair

\* The next probe of x: once more early, or too late for an answer of one who
\* has had the name for longer than a tick.
LEMMA ProbeStep ==
  ASSUME NEW x \in Hosts, StepOf(x), TellsNothing(x), answers'[x] = answers[x],
         claim[x].phase \in {"wait", "probing"}, claim[x].deadline = 0,
         claim'[x].phase = IF claim[x].probes = 2 THEN "observing" ELSE "probing",
         claim'[x].candidate = claim[x].candidate,
         claim'[x].probes = claim[x].probes + 1,
         claim'[x].deadline = ProbeInterval,
         \A z \in Hosts \ {x} : \A n \in Names :
            Told(inbox, z, x, n) => Told(inbox', z, x, n),
         \A z \in Hosts \ {x} :
            claim[z].phase # "none" => Probed(inbox', x, z, claim[x].candidate)
  PROVE  PairInv'
<1> SUFFICES ASSUME NEW y \in Hosts \ {x}, NEW n \in Names
             PROVE  Pair(x, y, n)' /\ Pair(y, x, n)'
  BY PairsOf
<1>1. Pair(x, y, n) /\ Pair(y, x, n) /\ Coherent(claim[x])
  BY DEF StepOf, PairInv, TypeInv, ClaimInv
<1>2. /\ claim'[y] = claim[y] /\ answers'[y] = answers[y]
      /\ Told(inbox', x, y, n) <=> Told(inbox, x, y, n)
      /\ Told(inbox', y, x, n) <=> Told(inbox, y, x, n)
  BY DEF StepOf, TellsNothing
<1>3. /\ ~Owns(x, n)' /\ ~AllProbed(x)'
      /\ Owns(y, n)' <=> Owns(y, n)
      /\ Fresh(y)' <=> Fresh(y)
      /\ AllProbed(y)' <=> AllProbed(y)
  BY <1>2, Constants DEF Owns, Fresh, AllProbed, Answering
<1>4. BothOwn(x, y, n)' /\ BothOwn(y, x, n)' /\ OwnerAnswers(y, x, n)'
      /\ OldAnswers(y, x, n)' /\ NotTold(y, x, n)' /\ AnswersLeft(y, x, n)'
  BY <1>3 DEF BothOwn, OwnerAnswers, OldAnswers, NotTold, AnswersLeft
<1>5. OldAnswers(x, y, n)' /\ NotTold(x, y, n)'
  BY <1>1, <1>2, <1>3 DEF Pair, OldAnswers, NotTold
<1>6. AnswersLeft(x, y, n)'
  BY <1>1, <1>2, <1>3 DEF Pair, AnswersLeft
<1>7. OwnerAnswers(x, y, n)'
  <2> SUFFICES ASSUME Owns(y, n), claim[x].candidate = n
               PROVE  OwnerAnswers(x, y, n)'
    BY <1>3 DEF OwnerAnswers, Claiming
  <2>1. claim[y].phase # "none"
    BY DEF Owns, Answering
  <2>2. CASE claim[x].phase = "wait"
    <3>1. claim'[x].probes = 1 /\ claim'[x].deadline = 1 /\ Probed(inbox', x, y, n)
      BY <1>1, <2>1, <2>2, Constants DEF Coherent
    <3> QED BY <3>1 DEF OwnerAnswers, Early
  <2>3. CASE claim[x].phase = "probing"
    <3>1. Claiming(x, n) /\ claim[x].probes \in 1 .. 2
      BY <1>1, <2>3 DEF Claiming, Probing, Coherent
    <3>2. CASE Told(inbox, y, x, n) /\ Fresh(y)
      BY <1>2, <1>3, <3>2 DEF OwnerAnswers
    <3>3. CASE ~(Told(inbox, y, x, n) /\ Fresh(y))
      <4>1. claim[x].probes = 1 /\ (Told(inbox, y, x, n) \/ [name |-> n, due |-> 0] \in answers[y])
        BY <1>1, <3>1, <3>3 DEF Pair, OwnerAnswers, Early
      <4>2. claim'[x].probes = 2 /\ claim'[x].deadline = 1
        BY <4>1, Constants
      <4> QED BY <1>2, <4>1, <4>2 DEF OwnerAnswers, Early
    <3> QED BY <3>2, <3>3
  <2> QED BY <2>2, <2>3
<1> QED BY <1>4, <1>5, <1>6, <1>7 DEF Pair

\* All probes of x have been sent, and the coordinator is asked.
LEMMA AskStep ==
  ASSUME NEW x \in Hosts, StepOf(x), TellsNothing(x), answers'[x] = answers[x],
         claim[x].phase = "observing", claim[x].deadline = 0,
         claim'[x].phase = "awaiting",
         claim'[x].candidate = claim[x].candidate, claim'[x].probes = claim[x].probes,
         \A z \in Hosts \ {x} : \A n \in Names :
            Told(inbox, z, x, n) => Told(inbox', z, x, n)
  PROVE  PairInv'
<1> SUFFICES ASSUME NEW y \in Hosts \ {x}, NEW n \in Names
             PROVE  Pair(x, y, n)' /\ Pair(y, x, n)'
  BY PairsOf
<1>1. Pair(x, y, n) /\ Pair(y, x, n) /\ Coherent(claim[x])
  BY DEF StepOf, PairInv, TypeInv, ClaimInv
<1>2. /\ claim'[y] = claim[y] /\ answers'[y] = answers[y]
      /\ Told(inbox', x, y, n) <=> Told(inbox, x, y, n)
      /\ Told(inbox', y, x, n) <=> Told(inbox, y, x, n)
  BY DEF StepOf, TellsNothing
<1>3. /\ ~Owns(x, n)' /\ ~Early(x)
      /\ Claiming(x, n)' <=> Claiming(x, n)
      /\ AllProbed(x)
      /\ Owns(y, n)' <=> Owns(y, n)
      /\ Fresh(y)' <=> Fresh(y)
      /\ AllProbed(y)' <=> AllProbed(y)
  BY <1>1, <1>2 DEF Owns, Claiming, Early, Fresh, AllProbed, Answering, Probing, Coherent
<1>4. BothOwn(x, y, n)' /\ BothOwn(y, x, n)' /\ OwnerAnswers(y, x, n)'
      /\ OldAnswers(y, x, n)' /\ NotTold(y, x, n)'
  BY <1>3 DEF BothOwn, OwnerAnswers, OldAnswers, NotTold
<1>5. OldAnswers(x, y, n)' /\ NotTold(x, y, n)'
  BY <1>1, <1>2, <1>3 DEF Pair, OldAnswers, NotTold
<1>6. AnswersLeft(x, y, n)' /\ AnswersLeft(y, x, n)'
  BY <1>1, <1>2, <1>3 DEF Pair, AnswersLeft
<1>7. OwnerAnswers(x, y, n)'
  BY <1>1, <1>2, <1>3 DEF Pair, OwnerAnswers
<1> QED BY <1>4, <1>5, <1>6, <1>7 DEF Pair

\* The coordinator has made the name ready: x owns it, and tells everybody.
LEMMA PreparedStep ==
  ASSUME NEW x \in Hosts, StepOf(x), Tells(x, claim[x].candidate),
         answers'[x] = answers[x],
         claim[x].phase = "awaiting",
         claim'[x].phase = "announcing", claim'[x].current = claim[x].candidate,
         claim'[x].deadline = AnnounceInterval,
         \A z \in Hosts \ {x} : \A n \in Names :
            Told(inbox, z, x, n) => Told(inbox', z, x, n)
  PROVE  PairInv'
<1> SUFFICES ASSUME NEW y \in Hosts \ {x}, NEW n \in Names
             PROVE  Pair(x, y, n)' /\ Pair(y, x, n)'
  BY PairsOf
<1> DEFINE k == claim[x].candidate
<1>1. Pair(x, y, n) /\ Pair(y, x, n) /\ Coherent(claim[x])
  BY DEF StepOf, PairInv, TypeInv, ClaimInv
<1>2. /\ claim'[y] = claim[y] /\ answers'[y] = answers[y]
      /\ Told(inbox, x, y, n) => Told(inbox', x, y, n)
      /\ Told(inbox', x, y, n) => Told(inbox, x, y, n) \/ n = k
      /\ n = k /\ claim[y].phase # "none" => Told(inbox', x, y, n)
      /\ Told(inbox', y, x, n) <=> Told(inbox, y, x, n)
  BY DEF StepOf, Tells
<1>3. /\ Owns(x, n)' <=> n = k
      /\ ~Claiming(x, n)' /\ ~AllProbed(x)' /\ Fresh(x)' /\ ~Early(x) /\ AllProbed(x)
      /\ n = k => Claiming(x, n)
      /\ Owns(y, n)' <=> Owns(y, n)
      /\ Claiming(y, n)' <=> Claiming(y, n)
      /\ AllProbed(y)' <=> AllProbed(y)
      /\ Owns(y, n) => claim[y].phase # "none"
      /\ Claiming(y, n) => claim[y].phase # "none"
  BY <1>1, <1>2 DEF Owns, Claiming, Early, Fresh, AllProbed, Answering, Probing, Coherent
\* Whoever owns the name already has just announced it.
<1>4. Owns(y, n) /\ n = k => Told(inbox, y, x, n) /\ Fresh(y)
  BY <1>1, <1>3 DEF Pair, OwnerAnswers
<1>5. BothOwn(x, y, n)' /\ BothOwn(y, x, n)'
  BY <1>2, <1>3, <1>4 DEF BothOwn
<1>6. OwnerAnswers(x, y, n)' /\ OwnerAnswers(y, x, n)'
  BY <1>2, <1>3 DEF OwnerAnswers
<1>7. OldAnswers(x, y, n)'
  BY <1>1, <1>2, <1>3 DEF Pair, OldAnswers
<1>8. OldAnswers(y, x, n)'
  <2> SUFFICES ASSUME n = k, NEW a \in answers[y], a.name = n
               PROVE  a.due < AnnounceInterval \/ Told(inbox, y, x, n)
    BY <1>2, <1>3 DEF OldAnswers
  <2>1. a \in Answers
    BY DEF StepOf, TypeInv, MessageInv
  <2> QED BY <1>1, <1>3, <2>1, Constants DEF Pair, AnswersLeft, Answers
<1>9. NotTold(x, y, n)'
  BY <1>1, <1>2, <1>3, <1>4, Constants DEF Pair, NotTold, Fresh
<1>10. NotTold(y, x, n)'
  BY <1>3, Constants DEF NotTold
<1>11. AnswersLeft(x, y, n)' /\ AnswersLeft(y, x, n)'
  BY <1>1, <1>2, <1>3 DEF Pair, AnswersLeft
<1> QED BY <1>5, <1>6, <1>7, <1>8, <1>9, <1>10, <1>11 DEF Pair

\* The second announcement: nobody else had the name.
LEMMA AgainStep ==
  ASSUME NEW x \in Hosts, StepOf(x), Tells(x, claim[x].candidate),
         answers'[x] = answers[x],
         claim[x].phase = "announcing", claim[x].deadline = 0,
         claim'[x].phase = "active", claim'[x].current = claim[x].current,
         \A z \in Hosts \ {x} : \A n \in Names :
            /\ Told(inbox, z, x, n) => Told(inbox', z, x, n)
            /\ Probed(inbox, z, x, n) => Probed(inbox', z, x, n)
  PROVE  PairInv'
<1> SUFFICES ASSUME NEW y \in Hosts \ {x}, NEW n \in Names
             PROVE  Pair(x, y, n)' /\ Pair(y, x, n)'
  BY PairsOf
<1> DEFINE k == claim[x].candidate
<1>1. /\ Pair(x, y, n) /\ Pair(y, x, n) /\ Coherent(claim[x])
      /\ \A a \in answers[y] : a \in Answers
  BY DEF StepOf, PairInv, TypeInv, ClaimInv, MessageInv
<1>2. /\ claim'[y] = claim[y] /\ answers'[y] = answers[y]
      /\ Told(inbox, x, y, n) => Told(inbox', x, y, n)
      /\ Told(inbox', x, y, n) => Told(inbox, x, y, n) \/ n = k
      /\ n = k /\ claim[y].phase # "none" => Told(inbox', x, y, n)
      /\ Told(inbox', y, x, n) <=> Told(inbox, y, x, n)
      /\ Probed(inbox, y, x, n) => Probed(inbox', y, x, n)
  BY DEF StepOf, Tells
<1>3. /\ Owns(x, n)' <=> n = k
      /\ Owns(x, n) <=> n = k
      /\ ~Claiming(x, n)' /\ ~AllProbed(x)' /\ ~Fresh(x)
      /\ Owns(y, n)' <=> Owns(y, n)
      /\ Claiming(y, n)' <=> Claiming(y, n)
      /\ Early(y)' <=> Early(y)
      /\ AllProbed(y)' <=> AllProbed(y)
      /\ Owns(y, n) => claim[y].phase # "none"
      /\ Claiming(y, n) => claim[y].phase # "none"
  BY <1>1, <1>2, Constants
     DEF Owns, Claiming, Early, Fresh, AllProbed, Answering, Probing, Coherent
<1>4. n = k => ~Told(inbox, y, x, n)
  BY <1>1, <1>3 DEF Pair, NotTold
<1>5. n = k => ~Owns(y, n)
  BY <1>1, <1>3, <1>4 DEF Pair, BothOwn
<1>6. BothOwn(x, y, n)' /\ BothOwn(y, x, n)'
  BY <1>3, <1>5 DEF BothOwn
<1>7. OwnerAnswers(x, y, n)' /\ OwnerAnswers(y, x, n)'
  BY <1>1, <1>2, <1>3 DEF Pair, OwnerAnswers
<1>8. OldAnswers(x, y, n)' /\ NotTold(x, y, n)'
  BY <1>1, <1>2, <1>3, <1>5 DEF Pair, OldAnswers, NotTold
<1>9. OldAnswers(y, x, n)'
  <2> SUFFICES ASSUME n = k, NEW a \in answers[y]
               PROVE  a.name # n
    BY <1>2, <1>3 DEF OldAnswers
  <2>1. ~(a.due < 0)
    BY <1>1 DEF Answers
  <2> QED BY <1>1, <1>3, <1>4, <2>1 DEF Pair, OldAnswers
<1>10. NotTold(y, x, n)'
  BY <1>2, <1>3, <1>4 DEF NotTold
<1>11. AnswersLeft(x, y, n)' /\ AnswersLeft(y, x, n)'
  BY <1>1, <1>2, <1>3 DEF Pair, AnswersLeft
<1> QED BY <1>6, <1>7, <1>8, <1>9, <1>10, <1>11 DEF Pair

\* Time passes when all has been heard.
LEMMA TickPairs ==
  ASSUME TypeInv, PairInv, ~split, Tick
  PROVE  PairInv'
<1> SUFFICES ASSUME NEW g \in Hosts, NEW h \in Hosts, NEW n \in Names, g # h
             PROVE  Pair(g, h, n)'
  BY DEF PairInv
<1>1. Pair(g, h, n)
  BY DEF PairInv
<1>2. /\ ~Told(inbox, g, h, n) /\ ~Told(inbox, h, g, n) /\ ~Probed(inbox, g, h, n)
      /\ UNCHANGED inbox
  <2>1. inbox[g] = <<>> /\ inbox[h] = <<>>
    BY DEF Tick, Calm, Quiet
  <2>2. \A e : e \notin Pending(<<>>)
    BY DEF Pending
  <2> QED BY <2>1, <2>2 DEF Tick, Told, Probed
<1>3. /\ \A a \in answers[g] : a \in Answers /\ a.due # 0
      /\ \A a \in answers[h] : a \in Answers /\ a.due # 0
      /\ claim[g].deadline # 0 /\ claim[h].deadline # 0
      /\ claim[g] \in Claims /\ claim[h] \in Claims
      /\ Coherent(claim[g]) /\ Coherent(claim[h])
  BY DEF Tick, Calm, Due, TypeInv, MessageInv, ClaimInv
<1>4. /\ claim[g].deadline \in Int /\ claim[h].deadline \in Int
      /\ \A z \in {g, h} :
           /\ claim'[z].phase = claim[z].phase /\ claim'[z].candidate = claim[z].candidate
           /\ claim'[z].current = claim[z].current /\ claim'[z].probes = claim[z].probes
           /\ claim'[z].deadline = Later(claim[z].deadline)
           /\ answers'[z] = {[a EXCEPT !.due = Later(@)] : a \in answers[z]}
  <2>1. claim[g].deadline \in Int /\ claim[h].deadline \in Int
    <3>1. \A c \in Claims : c.deadline \in -1 .. 4
      BY Constants DEF Claims
    <3> QED BY <1>3, <3>1
  <2>2. ASSUME NEW z \in {g, h}
        PROVE  /\ claim'[z].phase = claim[z].phase /\ claim'[z].candidate = claim[z].candidate
               /\ claim'[z].current = claim[z].current /\ claim'[z].probes = claim[z].probes
               /\ claim'[z].deadline = Later(claim[z].deadline)
               /\ answers'[z] = {[a EXCEPT !.due = Later(@)] : a \in answers[z]}
    <3>1. claim'[z] = [claim[z] EXCEPT !.deadline = Later(@),
                         !.since = IF @ < AnswerInterval THEN @ + 1 ELSE @]
      BY DEF Tick
    <3>2. answers'[z] = {[a EXCEPT !.due = Later(@)] : a \in answers[z]}
      BY DEF Tick
    <3>3. claim[z] \in Claims
      BY <1>3
    <3> QED BY <3>1, <3>2, <3>3 DEF Claims
  <2> QED BY <2>1, <2>2
<1>5. /\ \A a \in answers'[g] : \E b \in answers[g] : b \in Answers /\ a.name = b.name /\ a.due = b.due - 1
      /\ [name |-> n, due |-> 1] \in answers[h] => [name |-> n, due |-> 0] \in answers'[h]
  <2>1. \A b \in answers[g] : /\ [b EXCEPT !.due = Later(@)].name = b.name
                              /\ [b EXCEPT !.due = Later(@)].due = b.due - 1
    BY <1>3, Constants DEF Answers, Later
  <2>2. Later(1) = 0
    BY DEF Later
  <2> DEFINE one == [name |-> n, due |-> 1]
  <2>3. [one EXCEPT !.due = Later(@)] = [name |-> n, due |-> 0]
    BY <2>2
  <2>4. one \in answers[h] => [one EXCEPT !.due = Later(@)] \in answers'[h]
    BY <1>4
  <2>5. ASSUME NEW a \in answers'[g]
        PROVE  \E b \in answers[g] : b \in Answers /\ a.name = b.name /\ a.due = b.due - 1
    <3>1. PICK b \in answers[g] : a = [b EXCEPT !.due = Later(@)]
      BY <1>4
    <3> QED BY <1>3, <2>1, <3>1
  <2> QED BY <2>3, <2>4, <2>5
<1>6. /\ Owns(g, n)' <=> Owns(g, n)
      /\ Owns(h, n)' <=> Owns(h, n)
      /\ Claiming(g, n)' <=> Claiming(g, n)
  BY <1>4 DEF Owns, Claiming
<1>7. BothOwn(g, h, n)' /\ NotTold(g, h, n)'
  BY <1>1, <1>2, <1>6 DEF Pair, BothOwn, NotTold
<1>8. OwnerAnswers(g, h, n)'
  <2> SUFFICES ASSUME Owns(h, n), Claiming(g, n)
               PROVE  OwnerAnswers(g, h, n)'
    BY <1>6 DEF OwnerAnswers
  <2>1. /\ claim[g].probes = 1 /\ [name |-> n, due |-> 1] \in answers[h]
    BY <1>1, <1>2, <1>3 DEF Pair, OwnerAnswers
  <2> QED BY <1>4, <1>5, <2>1 DEF OwnerAnswers, Early
<1>9. OldAnswers(g, h, n)'
  <2> SUFFICES ASSUME Owns(h, n), NEW a \in answers'[g], a.name = n
               PROVE  claim'[h].phase = "announcing" /\ a.due < claim'[h].deadline
    BY <1>6 DEF OldAnswers
  <2>1. PICK b \in answers[g] : b \in Answers /\ a.name = b.name /\ a.due = b.due - 1
    BY <1>5
  <2>2. claim[h].phase = "announcing" /\ b.due < claim[h].deadline
    BY <1>1, <1>2, <2>1 DEF Pair, OldAnswers
  <2>3. b.due \in 1 .. AnswerInterval
    BY <1>3, <2>1, Constants DEF Answers
  <2> QED BY <1>4, <2>1, <2>2, <2>3, Constants DEF Later
<1>10. AnswersLeft(g, h, n)'
  <2> SUFFICES ASSUME AllProbed(h)', claim[h].candidate = n, NEW a \in answers'[g], a.name = n
               PROVE  a.due <= 3
    BY <1>4 DEF AnswersLeft
  <2>1. PICK b \in answers[g] : b \in Answers /\ a.name = b.name /\ a.due = b.due - 1
    BY <1>5
  <2> QED BY <2>1, Constants DEF Answers
<1> QED BY <1>7, <1>8, <1>9, <1>10 DEF Pair

\* A step of x leaves the other claims and their answers alone.
Alone(x) ==
    /\ TypeInv /\ PairInv /\ ~split /\ UNCHANGED link
    /\ \A y \in Hosts : y # x => claim'[y] = claim[y] /\ answers'[y] = answers[y]

\* What x hears stays to be read.
HearsAll(x) ==
    \A z \in Hosts \ {x} : \A n \in Names :
        /\ Told(inbox, z, x, n) => Told(inbox', z, x, n)
        /\ Probed(inbox, z, x, n) => Probed(inbox', z, x, n)

LEMMA LinkUp ==
  ASSUME NEW x \in Hosts, Alone(x)
  PROVE  ~cut /\ ~split' /\ inbox \in [Hosts -> Seq(Messages)]
BY DEF Alone, TypeInv, WorldInv, MessageInv, link

LEMMA StepSilent ==
  ASSUME NEW x \in Hosts, Alone(x), UNCHANGED inbox
  PROVE  StepOf(x) /\ TellsNothing(x) /\ HearsAll(x)
BY LinkUp DEF Alone, StepOf, TellsNothing, HearsAll

LEMMA StepSays ==
  ASSUME NEW x \in Hosts, Alone(x), NEW k \in Names, Send("response", k, x)
  PROVE  StepOf(x) /\ Tells(x, k) /\ HearsAll(x)
<1>1. \A g, h \in Hosts : \A n \in Names :
        /\ Told(inbox', g, h, n) <=> (Told(inbox, g, h, n) \/ (g = x /\ n = k /\ h \in up))
        /\ Probed(inbox', g, h, n) <=> Probed(inbox, g, h, n)
  BY LinkUp, ResponseTells DEF Send
<1>2. \A z \in Hosts : claim[z].phase # "none" => z \in up
  BY DEF Alone, TypeInv, ClaimInv
<1>3. StepOf(x)
  BY <1>1, LinkUp DEF Alone, StepOf
<1>4. Tells(x, k)
  BY <1>1, <1>2 DEF Tells
<1>5. HearsAll(x)
  BY <1>1 DEF HearsAll
<1> QED BY <1>3, <1>4, <1>5

LEMMA StepProbes ==
  ASSUME NEW x \in Hosts, Alone(x), NEW k \in Names, Send("probe", k, x)
  PROVE  /\ StepOf(x) /\ TellsNothing(x) /\ HearsAll(x)
         /\ \A z \in Hosts \ {x} : claim[z].phase # "none" => Probed(inbox', x, z, k)
<1>1. \A g, h \in Hosts : \A n \in Names :
        /\ Told(inbox', g, h, n) <=> Told(inbox, g, h, n)
        /\ Probed(inbox', g, h, n) <=>
              (Probed(inbox, g, h, n) \/ (g = x /\ n = k /\ h # x /\ h \in up))
  BY LinkUp, ProbeTells DEF Send
<1>2. \A z \in Hosts : claim[z].phase # "none" => z \in up
  BY DEF Alone, TypeInv, ClaimInv
<1>3. StepOf(x)
  BY <1>1, LinkUp DEF Alone, StepOf
<1>4. TellsNothing(x) /\ HearsAll(x)
  BY <1>1 DEF TellsNothing, HearsAll
<1> QED BY <1>1, <1>2, <1>3, <1>4

\* Reading takes one message out.
LEMMA StepReads ==
  ASSUME NEW x \in Hosts, Alone(x), inbox[x] # <<>>,
         OneRead(inbox, inbox', x)
  PROVE  /\ StepOf(x) /\ TellsNothing(x)
         /\ \A z \in Hosts \ {x} : \A n \in Names :
              /\ Told(inbox, z, x, n) => Told(inbox', z, x, n) \/ Head(inbox[x]) = Message("response", n, z)
              /\ Probed(inbox, z, x, n) => Probed(inbox', z, x, n) \/ Head(inbox[x]) = Message("probe", n, z)
<1>1. inbox \in [Hosts -> Seq(Messages)]
  BY LinkUp
<1>3. ASSUME NEW g \in Hosts, NEW h \in Hosts, NEW n \in Names
      PROVE  /\ Told(inbox', g, h, n) => Told(inbox, g, h, n)
             /\ Told(inbox, g, h, n) =>
                   Told(inbox', g, h, n) \/ (h = x /\ Head(inbox[x]) = Message("response", n, g))
             /\ Probed(inbox, g, h, n) =>
                   Probed(inbox', g, h, n) \/ (h = x /\ Head(inbox[x]) = Message("probe", n, g))
  BY <1>1, ReadTells
<1>4. StepOf(x)
  BY <1>3, LinkUp DEF Alone, StepOf
<1>5. TellsNothing(x)
  BY <1>3 DEF TellsNothing
<1> QED BY <1>3, <1>4, <1>5

\* An answer at once to what was read.
LEMMA StepAnswers ==
  ASSUME NEW x \in Hosts, Alone(x), inbox[x] # <<>>,
         NEW read \in [Hosts -> Seq(Messages)], OneRead(inbox, read, x),
         NEW k \in Names, inbox' = Arrived(read, Message("response", k, x))
  PROVE  /\ StepOf(x) /\ Tells(x, k)
         /\ \A z \in Hosts \ {x} : \A n \in Names :
              /\ Told(inbox, z, x, n) => Told(inbox', z, x, n) \/ Head(inbox[x]) = Message("response", n, z)
              /\ Probed(inbox, z, x, n) => Probed(inbox', z, x, n) \/ Head(inbox[x]) = Message("probe", n, z)
<1>1. inbox \in [Hosts -> Seq(Messages)] /\ ~cut
  BY LinkUp
<1> DEFINE m == Message("response", k, x)
<1>2. /\ \A e \in Pending(Tail(inbox[x])) : e \in Pending(inbox[x])
      /\ \A e \in Pending(inbox[x]) : e = Head(inbox[x]) \/ e \in Pending(Tail(inbox[x]))
  BY <1>1, TailPending
<1>3. \A h \in Hosts : Pending(inbox'[h]) = IF h \in up THEN Pending(read[h]) \cup {m} ELSE Pending(read[h])
  <2>1. m \in Messages /\ \A h \in Hosts : Hears(h, m) <=> h \in up
    BY <1>1, MessageIs DEF Hears, Message
  <2> HIDE DEF m
  <2>2. \A h \in Hosts :
          Pending(Arrived(read, m)[h]) =
             IF Hears(h, m) THEN Pending(read[h]) \cup {m} ELSE Pending(read[h])
    BY <2>1, ArrivedAdds
  <2> QED BY <2>1, <2>2 DEF m
<1>4. ASSUME NEW g \in Hosts, NEW n \in Names
      PROVE  /\ Message("response", n, g) = m <=> (n = k /\ g = x)
             /\ Message("probe", n, g) # m
  BY DEF Message
<1> HIDE DEF m
<1>5. ASSUME NEW g \in Hosts, NEW h \in Hosts, NEW n \in Names
      PROVE  /\ Told(inbox', g, h, n) => Told(inbox, g, h, n) \/ (g = x /\ n = k)
             /\ g = x /\ n = k /\ h \in up => Told(inbox', g, h, n)
             /\ Told(inbox, g, h, n) =>
                   Told(inbox', g, h, n) \/ (h = x /\ Head(inbox[x]) = Message("response", n, g))
             /\ Probed(inbox, g, h, n) =>
                   Probed(inbox', g, h, n) \/ (h = x /\ Head(inbox[x]) = Message("probe", n, g))
  BY <1>2, <1>3, <1>4 DEF Told, Probed, OneRead
<1>6. \A z \in Hosts : claim[z].phase # "none" => z \in up
  BY DEF Alone, TypeInv, ClaimInv
<1>7. StepOf(x)
  BY <1>5, LinkUp DEF Alone, StepOf
<1>8. Tells(x, k)
  BY <1>5, <1>6 DEF Tells
<1> QED BY <1>5, <1>7, <1>8

\* The responder of x ends: its box is emptied, and it has said at most that it
\* had its name.
LEMMA StepEnds ==
  ASSUME NEW x \in Hosts, Alone(x), Fail(x) \/ Close(x)
  PROVE  /\ StepOf(x)
         /\ \A z \in Hosts \ {x} : \A n \in Names :
              Told(inbox', x, z, n) => Told(inbox, x, z, n) \/ Owns(x, n)
<1>1. CASE Fail(x)
  <2>1. \A h \in Hosts : h # x => inbox'[h] = inbox[h]
    BY <1>1, LinkUp DEF Fail
  <2>2. inbox'[x] = <<>>
    BY <1>1, LinkUp DEF Fail
  <2>3. \A e : e \notin Pending(<<>>)
    BY DEF Pending
  <2>4. \A g, h \in Hosts : \A n \in Names :
          /\ h # x => (Told(inbox', g, h, n) <=> Told(inbox, g, h, n))
          /\ h # x => (Probed(inbox', g, h, n) <=> Probed(inbox, g, h, n))
          /\ ~Told(inbox', g, x, n)
    BY <2>1, <2>2, <2>3 DEF Told, Probed
  <2>5. StepOf(x)
    BY <2>4, LinkUp DEF Alone, StepOf
  <2> QED BY <2>4, <2>5
<1>2. CASE Close(x)
  <2> DEFINE k == claim[x].current
             said == Arrived(inbox, Message("response", k, x))
  <2>1. k \in Names /\ Owns(x, k) /\ \A n \in Names : n = k => Owns(x, n)
    BY <1>2, NamesOf DEF Close, Alone, TypeInv, Owns
  <2>2. said \in [Hosts -> Seq(Messages)]
    BY <2>1, LinkUp, SendTyped
  <2>3. inbox' = [said EXCEPT ![x] = <<>>]
    BY <1>2 DEF Close
  <2>4. \A g, h \in Hosts : \A n \in Names :
          /\ Told(said, g, h, n) <=> (Told(inbox, g, h, n) \/ (g = x /\ n = k /\ h \in up))
          /\ Probed(said, g, h, n) <=> Probed(inbox, g, h, n)
    BY <2>1, LinkUp, ResponseTells
  <2> HIDE DEF said, k
  <2>5. \A h \in Hosts : h # x => inbox'[h] = said[h]
    BY <2>2, <2>3
  <2>6. inbox'[x] = <<>>
    BY <2>2, <2>3
  <2>7. \A e : e \notin Pending(<<>>)
    BY DEF Pending
  <2>8. \A g, h \in Hosts : \A n \in Names :
          /\ h # x => (Told(inbox', g, h, n) <=> Told(said, g, h, n))
          /\ h # x => (Probed(inbox', g, h, n) <=> Probed(said, g, h, n))
          /\ ~Told(inbox', g, x, n)
    BY <2>5, <2>6, <2>7 DEF Told, Probed
  <2>9. StepOf(x)
    BY <2>4, <2>8, LinkUp DEF Alone, StepOf
  <2> QED BY <2>1, <2>4, <2>8, <2>9
<1> QED BY <1>1, <1>2

-----------------------------------------------------------------------------
(* The steps of the responders *)

LEMMA ClaimOf ==
  ASSUME NEW x \in Hosts, Alone(x)
  PROVE  /\ claim \in [Hosts -> Claims] /\ claim[x] \in Claims /\ Coherent(claim[x])
         /\ answers \in [Hosts -> SUBSET Answers]
         /\ \A a \in answers[x] : a \in Answers
BY DEF Alone, TypeInv, ClaimInv, MessageInv

LEMMA RenameFields ==
  ASSUME claim \in [Hosts -> Claims], NEW h \in Hosts, Rename(h), ~Drop(h)
  PROVE  claim'[h].phase = "wait" /\ claim'[h].held = claim[h].held
<1>1. PICK delay \in ProbeDelays :
        claim' = [claim EXCEPT ![h].phase = "wait", ![h].candidate = @ + 1,
                               ![h].probes = 0, ![h].deadline = delay,
                               ![h].generation = @ + 1]
  BY DEF Rename
<1>2. claim[h] \in Claims
  OBVIOUS
<1>3. claim'[h] = [claim[h] EXCEPT !.phase = "wait", !.candidate = @ + 1, !.probes = 0,
                                   !.deadline = delay, !.generation = @ + 1]
  BY <1>1
<1> QED BY <1>2, <1>3 DEF Claims

\* A claim that ends says nothing more, or that it had its name.
LEMMA DropOut ==
  ASSUME NEW x \in Hosts, Alone(x), Drop(x), answers'[x] \subseteq answers[x],
         UNCHANGED inbox \/ (claim[x].phase \in Answering /\ Send("response", claim[x].current, x))
  PROVE  PairInv'
<1>1. claim'[x].phase \in {"none", "wait"}
  BY ClaimOf DEF Drop, NoClaim
<1>2. CASE UNCHANGED inbox
  BY <1>1, <1>2, StepSilent, OutStep DEF TellsNothing
<1>3. CASE claim[x].phase \in Answering /\ Send("response", claim[x].current, x)
  <2>1. claim[x].current \in Names /\ \A n \in Names : n = claim[x].current => Owns(x, n)
    BY <1>3, NamesOf DEF Alone, TypeInv, Owns
  <2>2. StepOf(x) /\ Tells(x, claim[x].current)
    BY <1>3, <2>1, StepSays
  <2> QED BY <1>1, <2>1, <2>2, OutStep DEF Tells
<1> QED BY <1>2, <1>3

\* A claim that stays where it is, and nothing said or read.
LEMMA StaySame ==
  ASSUME NEW x \in Hosts, Alone(x), SameClaim(x), UNCHANGED inbox, answers'[x] = answers[x]
  PROVE  PairInv'
BY StepSilent, SameStep DEF HearsAll, Overhears

LEMMA ClientPairs ==
  ASSUME TypeInv, PairInv, ~split, NEW x \in Hosts, Client(x)
  PROVE  PairInv'
<1>1. UNCHANGED <<answers, requests, up, link>>
  BY DEF Client, Register, Cancel, Release
<1>2. \A y \in Hosts : y # x => claim'[y] = claim[y]
  BY DEF Client, Register, Cancel, Release, Drop, TypeInv, ClaimInv
<1>3. Alone(x)
  BY <1>1, <1>2 DEF Alone
<1>4. CASE Drop(x)
  BY <1>1, <1>3, <1>4, DropOut DEF Client, Register, Cancel, Release
<1>5. CASE claim[x].phase = "none" /\ Register(x)
  <2>1. claim'[x].phase = "wait" /\ UNCHANGED inbox
    BY <1>3, <1>5, ClaimOf DEF Register, NoClaim
  <2> QED BY <1>1, <1>3, <2>1, StepSilent, OutStep DEF TellsNothing
<1>6. CASE ~Drop(x) /\ ~(claim[x].phase = "none" /\ Register(x))
  <2>1. UNCHANGED inbox
    BY <1>6 DEF Client, Register, Cancel, Release
  <2>2. \/ claim' = [claim EXCEPT ![x].held = @ + 1]
        \/ claim' = [claim EXCEPT ![x].waiting = @ + 1]
        \/ claim' = [claim EXCEPT ![x].waiting = @ - 1]
        \/ claim' = [claim EXCEPT ![x].held = @ - 1]
    BY <1>6 DEF Client, Register, Cancel, Release
  <2>3. SameClaim(x)
    BY <1>3, <2>2, ClaimOf DEF SameClaim, Claims
  <2> QED BY <1>1, <1>3, <2>1, <2>3, StaySame
<1> QED BY <1>4, <1>5, <1>6

LEMMA DeadlinePairs ==
  ASSUME TypeInv, PairInv, ~split, NEW x \in Hosts, Deadline(x) \/ QueueFull(x)
  PROVE  PairInv'
<1>1. Alone(x)
  <2>1. \A y \in Hosts : y # x => claim'[y] = claim[y]
    BY DEF Deadline, SendProbe, AskCoordinator, AnnounceAgain, SendAnswers, QueueFull, Drop,
       TypeInv, ClaimInv
  <2>2. \A y \in Hosts : y # x => answers'[y] = answers[y]
    BY DEF Deadline, SendProbe, AskCoordinator, AnnounceAgain, SendAnswers, QueueFull,
       TypeInv, MessageInv
  <2>3. UNCHANGED link
    BY DEF Deadline, SendProbe, AskCoordinator, AnnounceAgain, SendAnswers, QueueFull
  <2> QED BY <2>1, <2>2, <2>3 DEF Alone
<1>2. CASE SendProbe(x)
  <2>1. claim[x].candidate \in Names /\ Send("probe", claim[x].candidate, x) /\ UNCHANGED answers
    BY <1>2, NamesOf DEF SendProbe, Expired, TypeInv
  <2>2. /\ claim[x].phase \in {"wait", "probing"} /\ claim[x].deadline = 0
        /\ claim'[x].phase = IF claim[x].probes = 2 THEN "observing" ELSE "probing"
        /\ claim'[x].candidate = claim[x].candidate
        /\ claim'[x].probes = claim[x].probes + 1
        /\ claim'[x].deadline = ProbeInterval
    BY <1>1, <1>2, ClaimOf DEF SendProbe, Expired, Claims
  <2> QED BY <1>1, <2>1, <2>2, StepProbes, ProbeStep DEF HearsAll
<1>3. CASE AskCoordinator(x)
  <2>1. /\ claim[x].phase = "observing" /\ claim[x].deadline = 0
        /\ claim'[x].phase = "awaiting"
        /\ claim'[x].candidate = claim[x].candidate /\ claim'[x].probes = claim[x].probes
        /\ UNCHANGED <<answers, inbox>>
    BY <1>1, <1>3, ClaimOf DEF AskCoordinator, Expired, Claims
  <2> QED BY <1>1, <2>1, StepSilent, AskStep DEF HearsAll
<1>4. CASE AnnounceAgain(x)
  <2>1. claim[x].candidate \in Names /\ Send("response", claim[x].candidate, x) /\ UNCHANGED answers
    BY <1>4, NamesOf DEF AnnounceAgain, Expired, TypeInv
  <2>2. /\ claim[x].phase = "announcing" /\ claim[x].deadline = 0
        /\ claim'[x].phase = "active" /\ claim'[x].current = claim[x].current
    BY <1>1, <1>4, ClaimOf DEF AnnounceAgain, Expired, Claims
  <2> QED BY <1>1, <2>1, <2>2, StepSays, AgainStep DEF HearsAll
<1>5. CASE SendAnswers(x)
  <2>1. PICK a \in Due(x) :
          /\ answers' = [answers EXCEPT ![x] = @ \ {a}]
          /\ IF claim[x].phase \in Answering
             THEN /\ Send("response", a.name, x)
                  /\ claim' = [claim EXCEPT ![x].since = 0]
             ELSE UNCHANGED <<claim, inbox>>
    BY <1>5 DEF SendAnswers
  <2>2. a \in answers[x] /\ a \in Answers /\ a.due = 0 /\ answers'[x] = answers[x] \ {a}
    BY <1>1, <2>1, ClaimOf DEF Due
  <2>3. CASE claim[x].phase \in Answering
    <3>1. SameClaim(x)
      BY <1>1, <2>1, <2>3, ClaimOf DEF SameClaim, Claims
    <3>2. a.name \in Names /\ Send("response", a.name, x)
      BY <2>1, <2>2, <2>3 DEF Answers
    <3>3. ASSUME NEW z \in Hosts \ {x}, Owns(z, a.name)
          PROVE  \/ Told(inbox, x, z, a.name)
                 \/ claim[z].phase = "announcing" /\ claim[z].deadline >= 1
      <4>1. \/ claim[z].phase = "announcing" /\ a.due < claim[z].deadline
            \/ Told(inbox, x, z, a.name)
        BY <1>1, <2>2, <3>2, <3>3 DEF Alone, PairInv, Pair, OldAnswers
      <4>2. claim[z].phase = "announcing" => claim[z].deadline \in 0 .. AnnounceInterval
        BY DEF TypeInv, ClaimInv, Coherent
      <4> QED BY <2>2, <4>1, <4>2, Constants
    <3>4. /\ \A b \in answers'[x] : b \in answers[x]
          /\ \A b \in answers[x] : b \in answers'[x] \/ b.name = a.name
      BY <2>2
    <3> QED BY <1>1, <2>3, <3>1, <3>2, <3>3, <3>4, StepSays, AnswerStep DEF HearsAll
  <2>4. CASE claim[x].phase \notin Answering
    <3>1. UNCHANGED <<claim, inbox>> /\ \A n \in Names : ~Owns(x, n)
      BY <2>1, <2>4 DEF Owns
    <3> QED BY <1>1, <2>2, <3>1, StepSilent, SameStep DEF SameClaim, HearsAll, Overhears
  <2> QED BY <2>3, <2>4
<1>6. CASE QueueFull(x)
  BY <1>1, <1>6, DropOut DEF QueueFull
<1> QED BY <1>2, <1>3, <1>4, <1>5, <1>6 DEF Deadline

LEMMA CoordinatedPairs ==
  ASSUME TypeInv, PairInv, ~split, NEW x \in Hosts, Coordinated(x)
  PROVE  PairInv'
<1>1. UNCHANGED <<answers, up, link, counts>>
  BY DEF Coordinated, Prepared, NotPrepared
<1>2. Alone(x)
  <2>1. \A y \in Hosts : y # x => claim'[y] = claim[y]
    BY DEF Coordinated, Prepared, NotPrepared, Drop, TypeInv, ClaimInv
  <2> QED BY <1>1, <2>1 DEF Alone
<1>3. CASE Prepared(x) /\ IsLatest(x)
  <2>1. claim[x].phase = "awaiting"
    BY <1>3 DEF IsLatest
  <2>2. claim[x].candidate \in Names /\ Send("response", claim[x].candidate, x)
    BY <1>3, <2>1, NamesOf DEF Prepared, TypeInv
  <2>3. /\ claim'[x].phase = "announcing" /\ claim'[x].current = claim[x].candidate
        /\ claim'[x].deadline = AnnounceInterval
    BY <1>2, <1>3, ClaimOf DEF Prepared, Claims
  <2> QED BY <1>1, <1>2, <2>1, <2>2, <2>3, StepSays, PreparedStep DEF HearsAll
<1>4. CASE NotPrepared(x) /\ IsLatest(x)
  BY <1>1, <1>2, <1>4, DropOut DEF NotPrepared
<1>5. CASE ~IsLatest(x)
  <2>1. UNCHANGED <<claim, inbox>>
    BY <1>5 DEF Coordinated, Prepared, NotPrepared
  <2> QED BY <1>1, <1>2, <2>1, StaySame DEF SameClaim
<1> QED BY <1>3, <1>4, <1>5 DEF Coordinated

LEMMA EndsPairs ==
  ASSUME TypeInv, PairInv, ~split, NEW x \in Hosts, Fail(x) \/ Close(x) \/ New(x)
  PROVE  PairInv'
<1>1. CASE Fail(x) \/ Close(x)
  <2>1. Ended(x)
    BY <1>1 DEF Fail, Close
  <2>2. Alone(x)
    BY <2>1 DEF Ended, Drop, Alone, TypeInv, ClaimInv, MessageInv
  <2>3. claim'[x].phase = "none" /\ answers'[x] = {}
    BY <2>1, <2>2, ClaimOf DEF Ended, Drop, NoClaim
  <2> QED BY <1>1, <2>2, <2>3, StepEnds, OutStep
<1>2. CASE New(x)
  <2>1. Alone(x) /\ UNCHANGED <<claim, answers, inbox>>
    BY <1>2 DEF New, Alone
  <2> QED BY <2>1, StaySame DEF SameClaim
<1> QED BY <1>1, <1>2

LEMMA ReceivePairs ==
  ASSUME TypeInv, PairInv, ~split, NEW x \in Hosts, Receive(x)
  PROVE  PairInv'
<1> DEFINE m == Head(inbox[x])
           read == [inbox EXCEPT ![x] = Tail(@)]
<1>1. /\ inbox[x] # <<>> /\ inbox \in [Hosts -> Seq(Messages)] /\ m \in Messages
      /\ read \in [Hosts -> Seq(Messages)] /\ OneRead(inbox, read, x)
      /\ UNCHANGED <<requests, up, link, counts>>
  BY TailPending DEF Receive, TypeInv, MessageInv, OneRead
<1>2. m.name \in Names /\ m.kind \in {"probe", "response", "query"}
  BY <1>1 DEF Messages
<1>3. Alone(x)
  <2>1. \A y \in Hosts : y # x => claim'[y] = claim[y]
    BY DEF Receive, Reprobe, Rename, Drop, TypeInv, ClaimInv
  <2>2. \A y \in Hosts : y # x => answers'[y] = answers[y]
    BY DEF Receive, TypeInv, MessageInv
  <2> QED BY <1>1, <2>1, <2>2 DEF Alone
<1>4. ASSUME NEW z \in Hosts \ {x}, NEW n \in Names
      PROVE  /\ m = Message("response", n, z) => m.kind = "response" /\ m.name = n /\ m.from = z /\ z # x
             /\ m = Message("probe", n, z) => m.kind = "probe" /\ m.name = n
  BY DEF Message
<1>5. CASE /\ \/ Conflicts(x, m) /\ Reprobe(x)
              \/ Loses(x, m) /\ Rename(x)
           /\ inbox' = read /\ UNCHANGED answers
  <2>1. claim'[x].phase \in {"none", "wait"}
    <3>1. claim[x] \in Claims /\ claim \in [Hosts -> Claims]
      BY <1>3, ClaimOf
    <3>2. CASE Reprobe(x)
      BY <3>1, <3>2 DEF Reprobe, Claims
    <3>3. CASE Rename(x) /\ ~Drop(x)
      BY <3>1, <3>3, RenameFields
    <3>4. CASE Drop(x)
      BY <3>1, <3>4 DEF Drop, NoClaim
    <3> QED BY <1>5, <3>2, <3>3, <3>4
  <2>2. StepOf(x) /\ TellsNothing(x)
    BY <1>1, <1>3, <1>5, StepReads
  <2> QED BY <1>5, <2>1, <2>2, OutStep DEF TellsNothing
<1>6. CASE /\ Asks(x, m) /\ MulticastDue(x, m) = 0
           /\ claim' = [claim EXCEPT ![x].since = 0]
           /\ inbox' = Arrived(read, Message("response", m.name, x))
           /\ UNCHANGED answers
  <2>1. SameClaim(x)
    BY <1>3, <1>6, ClaimOf DEF SameClaim, Claims
  <2>2. /\ claim[x].phase \in Answering /\ Owns(x, m.name) /\ m.kind # "response"
    BY <1>6 DEF Asks, Owns
  <2>3. /\ StepOf(x) /\ Tells(x, m.name)
        /\ \A z \in Hosts \ {x} : \A n \in Names :
              /\ Told(inbox, z, x, n) => Told(inbox', z, x, n) \/ m = Message("response", n, z)
              /\ Probed(inbox, z, x, n) => Probed(inbox', z, x, n) \/ m = Message("probe", n, z)
    BY <1>1, <1>2, <1>3, <1>6, StepAnswers
  <2>4. \A z \in Hosts \ {x} : Owns(z, m.name) => Told(inbox, x, z, m.name)
    BY <1>2, <2>2 DEF PairInv, Pair, BothOwn
  <2>5. /\ \A z \in Hosts \ {x} : \A n \in Names : Told(inbox, z, x, n) => Told(inbox', z, x, n)
        /\ \A z \in Hosts \ {x} : \A n \in Names :
              Probed(inbox, z, x, n) => Probed(inbox', z, x, n) \/ n = m.name
    BY <1>4, <2>2, <2>3
  <2> HIDE DEF m
  <2> QED BY <1>2, <1>6, <2>1, <2>2, <2>3, <2>4, <2>5, AnswerStep
<1>7. CASE /\ Asks(x, m) /\ MulticastDue(x, m) > 0
           /\ answers' = [answers EXCEPT ![x] =
                             @ \cup {[name |-> m.name, due |-> MulticastDue(x, m)]}]
           /\ inbox' = read
           /\ UNCHANGED claim
  <2> DEFINE due == MulticastDue(x, m)
  <2>1. /\ SameClaim(x) /\ Owns(x, m.name) /\ m.kind # "response"
        /\ answers'[x] = answers[x] \cup {[name |-> m.name, due |-> due]}
    BY <1>3, <1>7, ClaimOf DEF SameClaim, Asks, Owns
  <2>2. due \in 0 .. AnswerInterval /\ (m.kind = "probe" => due = 1)
    BY <1>1, <1>7, MulticastWhen, Constants
  <2>3. /\ StepOf(x) /\ TellsNothing(x)
        /\ \A z \in Hosts \ {x} : \A n \in Names :
              /\ Told(inbox, z, x, n) => Told(inbox', z, x, n) \/ m = Message("response", n, z)
              /\ Probed(inbox, z, x, n) => Probed(inbox', z, x, n) \/ m = Message("probe", n, z)
    BY <1>1, <1>3, <1>7, StepReads
  <2>4. /\ \A z \in Hosts \ {x} : \A n \in Names : Told(inbox, z, x, n) => Told(inbox', z, x, n)
        /\ \A z \in Hosts \ {x} : \A n \in Names :
              Probed(inbox, z, x, n) => Probed(inbox', z, x, n) \/ (n = m.name /\ due = 1)
    BY <1>4, <2>1, <2>2, <2>3
  <2> HIDE DEF m, due
  <2> QED BY <1>2, <2>1, <2>2, <2>3, <2>4, ScheduleStep
<1>8. CASE /\ ~(Conflicts(x, m) \/ Asks(x, m) \/ Loses(x, m))
           /\ inbox' = read /\ UNCHANGED <<claim, answers>>
  <2>1. /\ StepOf(x) /\ TellsNothing(x)
        /\ \A z \in Hosts \ {x} : \A n \in Names :
              /\ Told(inbox, z, x, n) => Told(inbox', z, x, n) \/ m = Message("response", n, z)
              /\ Probed(inbox, z, x, n) => Probed(inbox', z, x, n) \/ m = Message("probe", n, z)
    BY <1>1, <1>3, <1>8, StepReads
  <2>2. ASSUME NEW z \in Hosts \ {x}, NEW n \in Names
        PROVE  /\ m = Message("response", n, z) => ~(Owns(x, n) \/ Claiming(x, n))
               /\ m = Message("probe", n, z) => ~Owns(x, n)
    <3>1. claim[x].phase \in Probing => claim[x].probes > 0
      BY <1>3, ClaimOf DEF Coherent, Probing
    <3> QED BY <1>4, <1>8, <3>1 DEF Conflicts, Asks, Loses, Owns, Claiming
  <2>3. Overhears(x)
    BY <2>1, <2>2 DEF Overhears
  <2>4. SameClaim(x)
    BY <1>8 DEF SameClaim
  <2>5. /\ StepOf(x) /\ TellsNothing(x)
        /\ \A a \in answers'[x] : a \in answers[x]
        /\ \A n \in Names : Owns(x, n) => answers'[x] = answers[x]
    BY <1>8, <2>1
  <2> QED BY <2>3, <2>4, <2>5, SameStep
<1>9. \/ Conflicts(x, m) /\ Reprobe(x) /\ inbox' = read /\ UNCHANGED answers
      \/ /\ Asks(x, m) /\ MulticastDue(x, m) = 0
         /\ claim' = [claim EXCEPT ![x].since = 0]
         /\ inbox' = Arrived(read, Message("response", m.name, x))
         /\ UNCHANGED answers
      \/ /\ Asks(x, m) /\ MulticastDue(x, m) > 0
         /\ answers' = [answers EXCEPT ![x] =
                           @ \cup {[name |-> m.name, due |-> MulticastDue(x, m)]}]
         /\ inbox' = read
         /\ UNCHANGED claim
      \/ Loses(x, m) /\ Rename(x) /\ inbox' = read /\ UNCHANGED answers
      \/ /\ ~(Conflicts(x, m) \/ Asks(x, m) \/ Loses(x, m))
         /\ inbox' = read /\ UNCHANGED <<claim, answers>>
  BY DEF Receive
<1> HIDE DEF m, read
<1> QED BY <1>5, <1>6, <1>7, <1>8, <1>9

LEMMA PairInit == Init => PairInv
<1> SUFFICES ASSUME Init, NEW g \in Hosts, NEW h \in Hosts, NEW n \in Names
             PROVE  Pair(g, h, n)
  BY DEF PairInv
<1>1. claim[g].phase = "none" /\ claim[h].phase = "none"
  BY DEF Init, NoClaim
<1>2. ~Owns(h, n) /\ ~AllProbed(h)
  BY <1>1 DEF Owns, AllProbed, Answering
<1> QED BY <1>2 DEF Pair, BothOwn, OwnerAnswers, OldAnswers, NotTold, AnswersLeft

LEMMA PairStep == TypeInv /\ PairInv /\ [Next]_vars => PairInv'
<1> SUFFICES ASSUME TypeInv, PairInv, [Next]_vars, ~split'
             PROVE  PairInv'
  BY DEF PairInv
<1>1. ~split
  BY DEF Next, vars, link, Client, Register, Cancel, Release, Deadline, SendProbe, AskCoordinator,
     AnnounceAgain, SendAnswers, Coordinated, Prepared, NotPrepared, Receive, QueueFull, Fail, Close,
     Ended, New, Query, Cut, Heal, Tick
<1>2. ASSUME NEW h \in Hosts, Client(h) \/ Deadline(h) \/ Coordinated(h) \/ Receive(h)
                              \/ QueueFull(h) \/ Fail(h) \/ Close(h) \/ New(h)
      PROVE  PairInv'
  BY <1>1, <1>2, ClientPairs, DeadlinePairs, CoordinatedPairs, ReceivePairs, EndsPairs
<1>3. CASE Tick
  BY <1>1, <1>3, TickPairs
<1>4. CASE \E n \in Names : Query(n)
  <2>1. PICK k \in Names : Query(k)
    BY <1>4
  <2>2. /\ inbox \in [Hosts -> Seq(Messages)]
        /\ inbox' = Arrived(inbox, Message("query", k, NoHost)) /\ UNCHANGED <<claim, answers>>
    BY <2>1 DEF Query, TypeInv, MessageInv
  <2>3. \A g, h \in Hosts : \A n \in Names :
           /\ Told(inbox', g, h, n) <=> Told(inbox, g, h, n)
           /\ Probed(inbox', g, h, n) <=> Probed(inbox, g, h, n)
    BY <2>2, QueryTells
  <2> SUFFICES ASSUME NEW g \in Hosts, NEW h \in Hosts, NEW n \in Names, g # h
               PROVE  Pair(g, h, n)'
    BY DEF PairInv
  <2>4. Pair(g, h, n)
    BY <1>1 DEF PairInv
  <2> QED BY <2>2, <2>3, <2>4 DEF Pair, BothOwn, OwnerAnswers, OldAnswers, NotTold, AnswersLeft,
             Owns, Claiming, Fresh, Early, AllProbed
<1>5. CASE Cut \/ Heal
  BY <1>1, <1>5 DEF Cut, Heal, TypeInv, WorldInv
<1>6. CASE UNCHANGED vars
  BY <1>6 DEF vars, link, PairInv, Pair, BothOwn, OwnerAnswers, OldAnswers, NotTold, AnswersLeft,
     Owns, Claiming, Fresh, Early, AllProbed
<1> QED BY <1>2, <1>3, <1>4, <1>5, <1>6 DEF Next

-----------------------------------------------------------------------------
(* What a host was given, and what the coordinator was asked *)

\* Nobody is heard of by a host that has announced its name twice.
LEMMA ActiveUndisputed ==
  ASSUME TypeInv, PairInv, ~split, NEW x \in Hosts, claim[x].phase = "active", inbox[x] # <<>>
  PROVE  ~Conflicts(x, Head(inbox[x]))
<1> DEFINE m == Head(inbox[x])
<1> SUFFICES ASSUME Conflicts(x, m)
             PROVE  FALSE
  OBVIOUS
<1>1. m \in Messages /\ m \in Pending(inbox[x])
  BY TailPending DEF TypeInv, MessageInv
<1>2. m.kind = "response" /\ m.name = claim[x].current /\ m.from # x
  BY DEF Conflicts
<1>3. m.name \in Names /\ m.from \in Hosts
  BY <1>1, <1>2 DEF Messages
<1>4. m = Message("response", m.name, m.from)
  BY <1>1, <1>2 DEF Messages, Message
<1>5. Told(inbox, m.from, x, m.name) /\ Owns(x, m.name)
  BY <1>1, <1>2, <1>4 DEF Told, Owns, Answering
<1> QED BY <1>2, <1>3, <1>5 DEF PairInv, Pair, NotTold

\* A host is given its name by the second announcement, and then keeps it until
\* it is released or the responder ends.
LEMMA GivenStep ==
  ASSUME TypeInv, PairInv, ~split, Next, NEW h \in Hosts
  PROVE  /\ claim[h].phase = "active" =>
               \/ claim'[h].phase = "active" /\ claim'[h].candidate = claim[h].candidate
               \/ claim'[h] = NoClaim
         /\ claim'[h].held > 0 => claim[h].held > 0 \/ claim'[h].phase = "active"
<1> DEFINE Goal == /\ claim[h].phase = "active" =>
                         \/ claim'[h].phase = "active" /\ claim'[h].candidate = claim[h].candidate
                         \/ claim'[h] = NoClaim
                   /\ claim'[h].held > 0 => claim[h].held > 0 \/ claim'[h].phase = "active"
<1>1. claim \in [Hosts -> Claims] /\ claim[h] \in Claims /\ claim[h].held \in Nat
  BY Constants DEF TypeInv, ClaimInv, Claims
<1>2. NoClaim.held = 0
  BY DEF NoClaim
<1>3. CASE claim'[h] = claim[h] \/ claim'[h] = NoClaim
  BY <1>2, <1>3
<1>4. CASE Tick
  <2>1. claim'[h] = [claim[h] EXCEPT !.deadline = Later(@),
                       !.since = IF @ < AnswerInterval THEN @ + 1 ELSE @]
    BY <1>4 DEF Tick
  <2> QED BY <1>1, <2>1 DEF Claims
<1>5. ASSUME NEW x \in Hosts, Client(x)
      PROVE  Goal
  <2>1. CASE x # h
    BY <1>1, <1>3, <1>5, <2>1 DEF Client, Register, Cancel, Release, Drop
  <2>2. CASE Drop(h)
    BY <1>1, <1>3, <2>2 DEF Drop
  <2>3. CASE x = h /\ Register(h) /\ claim[h].phase = "none"
    <3>1. PICK delay \in ProbeDelays :
            claim' = [claim EXCEPT ![h] = [NoClaim EXCEPT !.phase = "wait", !.candidate = 1,
                                             !.deadline = delay, !.generation = 1, !.waiting = 1]]
      BY <2>3 DEF Register
    <3>2. claim'[h].held = 0
      BY <1>1, <3>1 DEF NoClaim
    <3> QED BY <2>3, <3>2
  <2>4. CASE x = h /\ ~Drop(h) /\ ~(Register(h) /\ claim[h].phase = "none")
    <3>1. \/ claim' = [claim EXCEPT ![h].held = @ + 1] /\ claim[h].phase = "active"
          \/ claim' = [claim EXCEPT ![h].waiting = @ + 1]
          \/ claim' = [claim EXCEPT ![h].waiting = @ - 1]
          \/ claim' = [claim EXCEPT ![h].held = @ - 1]
      BY <1>5, <2>4 DEF Client, Register, Cancel, Release
    <3>2. CASE claim' = [claim EXCEPT ![h].held = @ + 1] /\ claim[h].phase = "active"
      BY <1>1, <3>2 DEF Claims
    <3>3. CASE claim' = [claim EXCEPT ![h].waiting = @ + 1]
      BY <1>1, <3>3 DEF Claims
    <3>4. CASE claim' = [claim EXCEPT ![h].waiting = @ - 1]
      BY <1>1, <3>4 DEF Claims
    <3>5. CASE claim' = [claim EXCEPT ![h].held = @ - 1]
      BY <1>1, <3>5 DEF Claims
    <3> QED BY <3>1, <3>2, <3>3, <3>4, <3>5
  <2> QED BY <2>1, <2>2, <2>3, <2>4
<1>6. ASSUME NEW x \in Hosts, Deadline(x) \/ Coordinated(x)
      PROVE  Goal
  <2>1. CASE x # h
    BY <1>1, <1>3, <1>6, <2>1 DEF Deadline, SendProbe, AskCoordinator, AnnounceAgain, SendAnswers,
       Coordinated, Prepared, NotPrepared, Drop
  <2>2. CASE UNCHANGED claim \/ Drop(h)
    BY <1>1, <1>3, <2>2 DEF Drop
  <2>3. CASE x = h /\ (SendProbe(h) \/ AskCoordinator(h))
    <3>1. claim[h].phase # "active"
      BY <2>3 DEF SendProbe, AskCoordinator, Expired
    <3>2. CASE SendProbe(h)
      BY <1>1, <3>1, <3>2 DEF SendProbe, Claims
    <3>3. CASE AskCoordinator(h)
      BY <1>1, <3>1, <3>3 DEF AskCoordinator, Claims
    <3> QED BY <2>3, <3>2, <3>3
  <2>4. CASE x = h /\ AnnounceAgain(h)
    BY <1>1, <2>4 DEF AnnounceAgain, Expired, Claims
  <2>5. CASE claim' = [claim EXCEPT ![h].since = 0]
    BY <1>1, <2>5 DEF Claims
  <2>6. CASE x = h /\ Prepared(h) /\ IsLatest(h)
    BY <1>1, <2>6 DEF Prepared, IsLatest, Claims
  <2> QED BY <1>6, <2>1, <2>2, <2>3, <2>4, <2>5, <2>6
          DEF Deadline, SendAnswers, Coordinated, Prepared, NotPrepared
<1>7. ASSUME NEW x \in Hosts, Receive(x)
      PROVE  Goal
  <2>1. CASE x # h
    BY <1>1, <1>3, <1>7, <2>1 DEF Receive, Reprobe, Rename, Drop
  <2>2. CASE UNCHANGED claim \/ Drop(h)
    BY <1>1, <1>3, <2>2 DEF Drop
  <2>3. CASE x = h /\ Conflicts(h, Head(inbox[h])) /\ Reprobe(h)
    <3>1. claim[h].phase # "active"
      BY <1>7, <2>3, ActiveUndisputed DEF Receive
    <3> QED BY <1>1, <2>3, <3>1 DEF Reprobe, Claims
  <2>4. CASE x = h /\ Loses(h, Head(inbox[h])) /\ Rename(h) /\ ~Drop(h)
    <3>1. claim[h].phase # "active"
      BY <2>4 DEF Loses, Probing
    <3> QED BY <1>1, <2>4, <3>1, RenameFields
  <2>5. CASE claim' = [claim EXCEPT ![h].since = 0]
    BY <1>1, <2>5 DEF Claims
  <2> QED BY <1>7, <2>1, <2>2, <2>3, <2>4, <2>5 DEF Receive
<1>8. ASSUME NEW x \in Hosts, QueueFull(x) \/ Fail(x) \/ Close(x) \/ New(x)
      PROVE  Goal
  BY <1>1, <1>3, <1>8 DEF QueueFull, Fail, Close, Ended, New, Drop
<1>9. CASE (\E n \in Names : Query(n)) \/ Cut \/ Heal
  BY <1>3, <1>9 DEF Query, Cut, Heal
<1> QED BY <1>4, <1>5, <1>6, <1>7, <1>8, <1>9 DEF Next

LEMMA HeldStep == TypeInv /\ PairInv /\ HeldInv /\ [Next]_vars => HeldInv'
<1> SUFFICES ASSUME TypeInv, PairInv, HeldInv, [Next]_vars, ~split', NEW h \in Hosts,
                    claim'[h].held > 0
             PROVE  claim'[h].phase = "active"
  BY DEF HeldInv
<1>1. ~split
  BY DEF Next, vars, link, Client, Register, Cancel, Release, Deadline, SendProbe, AskCoordinator,
     AnnounceAgain, SendAnswers, Coordinated, Prepared, NotPrepared, Receive, QueueFull, Fail, Close,
     Ended, New, Query, Cut, Heal, Tick
<1>2. CASE UNCHANGED vars
  BY <1>1, <1>2 DEF vars, HeldInv
<1>3. CASE Next
  <2>1. NoClaim.held = 0
    BY DEF NoClaim
  <2> QED BY <1>1, <1>3, <2>1, GivenStep DEF HeldInv
<1> QED BY <1>2, <1>3

PairTypeInv == TypeInv /\ PairInv /\ HeldInv

\* What two responders on one link know of each other's claims: the one that
\* announces a name has told the other, or is still to, before the other has
\* waited long enough to announce it too.
THEOREM PairsSound == Spec => []PairTypeInv
<1>1. Init => HeldInv
  BY DEF Init, HeldInv, NoClaim
<1>2. Init => PairTypeInv
  BY <1>1, TypeInit, PairInit DEF PairTypeInv
<1>3. PairTypeInv /\ [Next]_vars => PairTypeInv'
  BY TypeStep, PairStep, HeldStep DEF PairTypeInv
<1> QED BY <1>2, <1>3, PTL DEF Spec

\* On a link that has lost nothing, whoever has read all messages does not
\* announce a name that another host announces.
THEOREM OneOwnerOfName == Spec => []OneOwner
<1>1. PairTypeInv => OneOwner
  <2> SUFFICES ASSUME PairTypeInv, ~split, Quiet, NEW g \in Hosts, NEW h \in Hosts, g # h,
                      claim[g].phase \in Answering, claim[h].phase \in Answering,
                      claim[g].current = claim[h].current
               PROVE  FALSE
    BY TypeInvOK DEF PairTypeInv, OneOwner
  <2>1. claim[h].current \in Names
    BY NamesOf DEF PairTypeInv, TypeInv
  <2>2. Told(inbox, g, h, claim[h].current)
    BY <2>1 DEF PairTypeInv, PairInv, Pair, BothOwn, Owns
  <2>3. \A e : e \notin Pending(<<>>)
    BY DEF Pending
  <2> QED BY <2>2, <2>3 DEF Quiet, Told
<1> QED BY <1>1, PairsSound, PTL

\* A name that was given to somebody is that of the claim until it ends.
THEOREM NamesKept == Spec => KeepsName
<1>1. PairTypeInv /\ [Next]_vars =>
        [\A h \in Hosts :
            (~split /\ claim[h].held > 0 /\ claim[h].candidate = claim[h].current) =>
                claim'[h].candidate \in {claim[h].candidate, NoName}]_vars
  <2> SUFFICES ASSUME PairTypeInv, Next, NEW h \in Hosts, ~split, claim[h].held > 0
               PROVE  claim'[h].candidate \in {claim[h].candidate, NoName}
    OBVIOUS
  <2>1. claim[h].phase = "active"
    BY DEF PairTypeInv, HeldInv
  <2>2. NoClaim.candidate = NoName
    BY DEF NoClaim
  <2> QED BY <2>1, <2>2, GivenStep DEF PairTypeInv
<1> QED BY <1>1, PairsSound, PTL DEF Spec, KeepsName

\* What the coordinator has been asked for a responder's first claim: of what
\* the claim is now, or of what it was before.
Asked(h) ==
    /\ calls[h] = 0 => claim[h].phase = "none" /\ Pending(requests[h]) = {}
    /\ (calls[h] <= 1 /\ claim[h].phase # "none") =>
          \A r \in Pending(requests[h]) :
             /\ r.generation <= claim[h].generation
             /\ r.generation = claim[h].generation => r.name = claim[h].candidate

AskedInv == TypeInv /\ \A h \in Hosts : Asked(h)

LEMMA RequestsChange ==
  ASSUME NEW s \in Seq(Requests), NEW r \in Requests
  PROVE  /\ \A e \in Pending(Append(s, r)) : e \in Pending(s) \/ e = r
         /\ s # <<>> => /\ Head(s) \in Pending(s)
                        /\ \A e \in Pending(Tail(s)) : e \in Pending(s)
<1>1. DOMAIN s = 1 .. Len(s) /\ Len(s) \in Nat
  OBVIOUS
<1>2. \A e \in Pending(Append(s, r)) : e \in Pending(s) \/ e = r
  <2>1. /\ DOMAIN Append(s, r) = 1 .. Len(s) + 1
        /\ \A i \in 1 .. Len(s) : Append(s, r)[i] = s[i]
        /\ Append(s, r)[Len(s) + 1] = r
    BY <1>1
  <2> QED BY <1>1, <2>1 DEF Pending
<1>3. ASSUME s # <<>>
      PROVE  Head(s) \in Pending(s) /\ \A e \in Pending(Tail(s)) : e \in Pending(s)
  <2>1. /\ Len(s) \in Nat \ {0} /\ Head(s) = s[1]
        /\ DOMAIN Tail(s) = 1 .. Len(s) - 1
        /\ \A i \in 1 .. Len(s) - 1 : Tail(s)[i] = s[i + 1]
    BY <1>3
  <2>2. \A i \in 1 .. Len(s) - 1 : i + 1 \in 1 .. Len(s)
    BY <2>1
  <2> QED BY <1>1, <2>1, <2>2 DEF Pending
<1> QED BY <1>2, <1>3

\* Requests that are answered, and a claim that ends, stays or moves on.
LEMMA AskedFollows ==
  ASSUME AskedInv, NEW h \in Hosts, calls'[h] = calls[h],
         \A r \in Pending(requests'[h]) : r \in Pending(requests[h]),
         \/ claim'[h].phase = "none"
         \/ /\ claim[h].phase # "none"
            /\ \/ /\ claim'[h].generation = claim[h].generation
                  /\ claim'[h].candidate = claim[h].candidate
               \/ claim'[h].generation = claim[h].generation + 1
  PROVE  Asked(h)'
<1>1. Asked(h) /\ claim[h].generation \in Nat /\ \A r \in Pending(requests[h]) : r.generation \in Nat
  <2>1. Asked(h) /\ claim[h].generation \in Nat /\ requests[h] \in Seq(Requests)
    BY DEF AskedInv, TypeInv, ClaimInv, MessageInv, Claims
  <2>2. \A r \in Pending(requests[h]) : r \in Requests
    BY <2>1 DEF Pending
  <2> QED BY <2>1, <2>2 DEF Requests
<1>2. calls[h] = 0 => claim'[h].phase = "none" /\ Pending(requests'[h]) = {}
  BY <1>1 DEF Asked
<1>3. ASSUME calls[h] <= 1, claim'[h].phase # "none", NEW r \in Pending(requests'[h])
      PROVE  /\ r.generation <= claim'[h].generation
             /\ r.generation = claim'[h].generation => r.name = claim'[h].candidate
  <2>1. /\ r \in Pending(requests[h]) /\ r.generation <= claim[h].generation
        /\ r.generation = claim[h].generation => r.name = claim[h].candidate
    BY <1>1, <1>3 DEF Asked
  <2> QED BY <1>1, <1>3, <2>1
<1> QED BY <1>2, <1>3 DEF Asked

\* What the actor's steps do to a claim, seen from its requests.
Moves(h) ==
    \/ claim'[h] = claim[h]
    \/ claim'[h] = NoClaim
    \/ /\ claim[h].phase # "none"
       /\ \/ /\ claim'[h].generation = claim[h].generation
             /\ claim'[h].candidate = claim[h].candidate
          \/ claim'[h].generation = claim[h].generation + 1

LEMMA MovesKept ==
  ASSUME AskedInv, NEW h \in Hosts, calls'[h] = calls[h], Moves(h),
         \A r \in Pending(requests'[h]) : r \in Pending(requests[h])
  PROVE  Asked(h)'
<1>1. NoClaim.phase = "none"
  BY DEF NoClaim
<1> QED BY <1>1, AskedFollows DEF Moves

LEMMA ReceiveMoves ==
  ASSUME TypeInv, NEW x \in Hosts, Receive(x), NEW h \in Hosts
  PROVE  Moves(h)
<1>1. claim \in [Hosts -> Claims] /\ claim[h] \in Claims
  BY DEF TypeInv, ClaimInv
<1>2. CASE x # h
  BY <1>1, <1>2 DEF Receive, Reprobe, Rename, Drop, Moves
<1>3. CASE UNCHANGED claim \/ Drop(h)
  BY <1>1, <1>3 DEF Moves, Drop
<1>4. CASE x = h /\ Conflicts(h, Head(inbox[h])) /\ Reprobe(h)
  <2>1. claim[h].phase # "none" /\ claim'[h].generation = claim[h].generation + 1
    BY <1>1, <1>4 DEF Conflicts, Answering, Reprobe, Claims
  <2> QED BY <2>1 DEF Moves
<1>5. CASE x = h /\ Loses(h, Head(inbox[h])) /\ Rename(h) /\ ~Drop(h)
  <2>1. PICK delay \in ProbeDelays :
          claim' = [claim EXCEPT ![h].phase = "wait", ![h].candidate = @ + 1,
                                 ![h].probes = 0, ![h].deadline = delay,
                                 ![h].generation = @ + 1]
    BY <1>5 DEF Rename
  <2>2. claim[h].phase # "none" /\ claim'[h].generation = claim[h].generation + 1
    BY <1>1, <1>5, <2>1 DEF Loses, Probing, Claims
  <2> QED BY <2>2 DEF Moves
<1>6. CASE claim' = [claim EXCEPT ![x].since = 0] /\ claim[x].phase \in Answering
  <2>1. x = h => claim[h].phase # "none" /\ claim'[h].generation = claim[h].generation
                 /\ claim'[h].candidate = claim[h].candidate
    BY <1>1, <1>6 DEF Answering, Claims
  <2>2. x # h => claim'[h] = claim[h]
    BY <1>1, <1>6
  <2> QED BY <2>1, <2>2 DEF Moves
<1> QED BY <1>2, <1>3, <1>4, <1>5, <1>6 DEF Receive, Asks

LEMMA DeadlineMoves ==
  ASSUME TypeInv, NEW x \in Hosts, Deadline(x) \/ Coordinated(x) \/ Cancel(x) \/ Release(x),
         NEW h \in Hosts
  PROVE  Moves(h)
<1>1. claim \in [Hosts -> Claims] /\ claim[h] \in Claims /\ Coherent(claim[h])
  BY DEF TypeInv, ClaimInv
<1>2. CASE x # h
  BY <1>1, <1>2 DEF Deadline, SendProbe, AskCoordinator, AnnounceAgain, SendAnswers, Coordinated,
     Prepared, NotPrepared, Cancel, Release, Drop, Moves
<1>3. CASE UNCHANGED claim \/ Drop(h)
  BY <1>1, <1>3 DEF Moves, Drop
<1>4. CASE x = h /\ ~Drop(h) /\ claim' # claim
  <2>1. claim[h].phase # "none"
    <3>1. claim[h].waiting \in Nat /\ claim[h].held \in Nat
      BY <1>1, Constants DEF Claims
    <3> QED BY <1>1, <1>4, <3>1 DEF Deadline, SendProbe, AskCoordinator, AnnounceAgain, SendAnswers,
            Expired, Answering, Coordinated, Prepared, NotPrepared, IsLatest, Cancel, Release,
            Coherent
  <2>2. /\ claim'[h].generation = claim[h].generation
        /\ claim'[h].candidate = claim[h].candidate
    <3>1. CASE SendProbe(h)
      BY <1>1, <3>1 DEF SendProbe, Claims
    <3>2. CASE AskCoordinator(h)
      BY <1>1, <3>2 DEF AskCoordinator, Claims
    <3>3. CASE AnnounceAgain(h)
      BY <1>1, <3>3 DEF AnnounceAgain, Claims
    <3>4. CASE SendAnswers(h)
      BY <1>1, <1>4, <3>4 DEF SendAnswers, Claims
    <3>5. CASE Coordinated(h)
      BY <1>1, <1>4, <3>5 DEF Coordinated, Prepared, NotPrepared, Claims
    <3>6. CASE Cancel(h) \/ Release(h)
      <4>1. \/ claim' = [claim EXCEPT ![h].waiting = @ - 1]
            \/ claim' = [claim EXCEPT ![h].held = @ - 1]
        BY <1>4, <3>6 DEF Cancel, Release
      <4> QED BY <1>1, <4>1 DEF Claims
    <3> QED BY <1>4, <3>1, <3>2, <3>3, <3>4, <3>5, <3>6 DEF Deadline
  <2> QED BY <2>1, <2>2 DEF Moves
<1> QED BY <1>2, <1>3, <1>4

LEMMA AskedStep ==
  ASSUME AskedInv, [Next]_vars, NEW h \in Hosts
  PROVE  Asked(h)'
<1>1. /\ claim \in [Hosts -> Claims] /\ claim[h] \in Claims /\ claim[h].generation \in Nat
      /\ requests \in [Hosts -> Seq(Requests)] /\ requests[h] \in Seq(Requests)
      /\ calls \in [Hosts -> Nat] /\ calls[h] \in Nat
      /\ Asked(h) /\ TypeInv
  BY DEF AskedInv, TypeInv, ClaimInv, MessageInv, WorldInv, Claims
<1>2. CASE UNCHANGED <<requests, calls>> /\ Moves(h)
  BY <1>2, MovesKept
<1>3. ASSUME NEW x \in Hosts, Register(x)
      PROVE  Asked(h)'
  <2>1. CASE x # h
    <3>1. calls'[h] = calls[h] /\ claim'[h] = claim[h] /\ requests'[h] = requests[h]
      BY <1>1, <1>3, <2>1 DEF Register
    <3> QED BY <3>1, MovesKept DEF Moves
  <2>2. CASE x = h
    <3>1. calls'[h] = calls[h] + 1 /\ requests'[h] = requests[h]
      BY <1>1, <1>3, <2>2 DEF Register
    <3> QED BY <1>1, <3>1 DEF Asked
  <2> QED BY <2>1, <2>2
<1>4. ASSUME NEW x \in Hosts, (Deadline(x) /\ ~AskCoordinator(x)) \/ Cancel(x) \/ Release(x)
      PROVE  Asked(h)'
  <2>1. UNCHANGED <<requests, calls>>
    BY <1>4 DEF Deadline, SendProbe, AnnounceAgain, SendAnswers, Cancel, Release, counts
  <2> QED BY <1>1, <1>2, <1>4, <2>1, DeadlineMoves
<1>5. ASSUME NEW x \in Hosts, AskCoordinator(x)
      PROVE  Asked(h)'
  <2>1. Moves(h) /\ calls'[h] = calls[h]
    BY <1>1, <1>5, DeadlineMoves DEF Deadline, AskCoordinator, counts
  <2>2. CASE x # h
    <3>1. requests'[h] = requests[h]
      BY <1>1, <1>5, <2>2 DEF AskCoordinator
    <3> QED BY <2>1, <3>1, MovesKept
  <2>3. CASE x = h
    <3> DEFINE r == [name |-> claim[h].candidate, generation |-> claim[h].generation,
                     left |-> MaxPrepare]
    <3>1. requests'[h] = Append(requests[h], r)
      BY <1>1, <1>5, <2>3 DEF AskCoordinator
    <3>2. r \in Requests /\ claim[h].phase # "none"
      BY <1>1, <1>5, <2>3, NamesOf, Constants DEF AskCoordinator, Expired, Requests, TypeInv
    <3>3. \A e \in Pending(requests'[h]) : e \in Pending(requests[h]) \/ e = r
      BY <1>1, <3>1, <3>2, RequestsChange
    <3>4. claim'[h].generation = claim[h].generation /\ claim'[h].candidate = claim[h].candidate
      BY <1>1, <1>5, <2>3 DEF AskCoordinator, Claims
    <3>5. calls[h] # 0
      BY <1>1, <3>2 DEF Asked
    <3>6. ASSUME calls[h] <= 1, NEW e \in Pending(requests'[h])
          PROVE  /\ e.generation <= claim'[h].generation
                 /\ e.generation = claim'[h].generation => e.name = claim'[h].candidate
      BY <1>1, <3>2, <3>3, <3>4, <3>6 DEF Asked
    <3> QED BY <2>1, <3>5, <3>6 DEF Asked
  <2> QED BY <2>2, <2>3
<1>6. ASSUME NEW x \in Hosts, Coordinated(x)
      PROVE  Asked(h)'
  <2>1. Moves(h) /\ calls'[h] = calls[h]
    BY <1>1, <1>6, DeadlineMoves DEF Coordinated, Prepared, NotPrepared, counts
  <2>2. \A r \in Pending(requests'[h]) : r \in Pending(requests[h])
    <3>1. requests'[h] = requests[h] \/ (requests[h] # <<>> /\ requests'[h] = Tail(requests[h]))
      BY <1>1, <1>6 DEF Coordinated, Prepared, NotPrepared, Answered
    <3>2. requests[h] # <<>> => \A e \in Pending(Tail(requests[h])) : e \in Pending(requests[h])
      <4>1. [name |-> 1, generation |-> 0, left |-> 0] \in Requests
        BY Constants DEF Requests
      <4> QED BY <1>1, <4>1, RequestsChange
    <3> QED BY <3>1, <3>2
  <2> QED BY <2>1, <2>2, MovesKept
<1>7. ASSUME NEW x \in Hosts, Receive(x)
      PROVE  Asked(h)'
  <2>1. UNCHANGED <<requests, calls>>
    BY <1>7 DEF Receive, counts
  <2> QED BY <1>1, <1>2, <1>7, <2>1, ReceiveMoves
<1>8. ASSUME NEW x \in Hosts, QueueFull(x) \/ New(x)
      PROVE  Asked(h)'
  <2>1. UNCHANGED <<requests, calls>>
    BY <1>8 DEF QueueFull, New, counts
  <2>2. claim'[h] = claim[h] \/ claim'[h] = NoClaim
    BY <1>1, <1>8 DEF QueueFull, New, Drop
  <2> QED BY <1>2, <2>1, <2>2 DEF Moves
<1>9. ASSUME NEW x \in Hosts, Fail(x) \/ Close(x)
      PROVE  Asked(h)'
  <2>1. Ended(x)
    BY <1>9 DEF Fail, Close
  <2>2. /\ UNCHANGED calls
        /\ requests'[h] = requests[h] \/ requests'[h] = <<>>
        /\ claim'[h] = claim[h] \/ claim'[h] = NoClaim
    BY <1>1, <2>1 DEF Ended, Drop
  <2>3. \A e : e \notin Pending(<<>>)
    BY DEF Pending
  <2> QED BY <2>2, <2>3, MovesKept DEF Moves
<1>10. CASE Tick
  <2>1. /\ claim'[h].generation = claim[h].generation
        /\ claim'[h].candidate = claim[h].candidate /\ claim'[h].phase = claim[h].phase
    <3>1. claim'[h] = [claim[h] EXCEPT !.deadline = Later(@),
                         !.since = IF @ < AnswerInterval THEN @ + 1 ELSE @]
      BY <1>10 DEF Tick
    <3> QED BY <1>1, <3>1 DEF Claims
  <2>2. UNCHANGED calls
    BY <1>10 DEF Tick, counts
  <2>3. ASSUME NEW e \in Pending(requests'[h])
        PROVE  \E r \in Pending(requests[h]) : e.generation = r.generation /\ e.name = r.name
    <3>1. requests'[h] = [i \in DOMAIN requests[h] |-> [requests[h][i] EXCEPT !.left = Later(@)]]
      BY <1>10 DEF Tick
    <3>2. PICK i \in DOMAIN requests[h] : e = [requests[h][i] EXCEPT !.left = Later(@)]
      BY <3>1 DEF Pending
    <3>3. requests[h][i] \in Requests /\ requests[h][i] \in Pending(requests[h])
      BY <1>1 DEF Pending
    <3> QED BY <3>2, <3>3 DEF Requests
  <2>4. calls[h] = 0 => claim'[h].phase = "none" /\ Pending(requests'[h]) = {}
    BY <1>1, <2>1, <2>3 DEF Asked
  <2>5. ASSUME calls[h] <= 1, claim'[h].phase # "none", NEW e \in Pending(requests'[h])
        PROVE  /\ e.generation <= claim'[h].generation
               /\ e.generation = claim'[h].generation => e.name = claim'[h].candidate
    <3>1. PICK r \in Pending(requests[h]) : e.generation = r.generation /\ e.name = r.name
      BY <2>3
    <3> QED BY <1>1, <2>1, <2>5, <3>1 DEF Asked
  <2> QED BY <2>2, <2>4, <2>5 DEF Asked
<1>11. CASE (\E n \in Names : Query(n)) \/ Cut \/ Heal \/ UNCHANGED vars
  <2>1. UNCHANGED <<claim, requests, calls>>
    BY <1>11 DEF Query, Cut, Heal, vars, counts
  <2> QED BY <1>2, <2>1 DEF Moves
<1> QED BY <1>3, <1>4, <1>5, <1>6, <1>7, <1>8, <1>9, <1>10, <1>11 DEF Next, Client

\* Only the answer of the coordinator lets a claim be announced.
LEMMA AnnouncedWhen ==
  ASSUME TypeInv, Next, NEW h \in Hosts, claim[h].phase = "awaiting",
         claim'[h].phase = "announcing"
  PROVE  Prepared(h) /\ IsLatest(h)
<1>1. claim \in [Hosts -> Claims] /\ claim[h] \in Claims
  BY DEF TypeInv, ClaimInv
<1>2. claim'[h] # claim[h] /\ claim'[h] # NoClaim
  BY DEF NoClaim
<1>3. ~Tick
  <2>1. ASSUME Tick
        PROVE  FALSE
    <3>1. claim'[h] = [claim[h] EXCEPT !.deadline = Later(@),
                         !.since = IF @ < AnswerInterval THEN @ + 1 ELSE @]
      BY <2>1 DEF Tick
    <3> QED BY <1>1, <3>1 DEF Claims
  <2> QED BY <2>1
<1>4. ASSUME NEW x \in Hosts, Client(x)
      PROVE  FALSE
  <2>1. x = h /\ ~Drop(h)
    BY <1>1, <1>2, <1>4 DEF Client, Register, Cancel, Release, Drop
  <2>2. \/ claim' = [claim EXCEPT ![h].waiting = @ + 1]
        \/ claim' = [claim EXCEPT ![h].waiting = @ - 1]
        \/ claim' = [claim EXCEPT ![h].held = @ - 1]
    BY <1>4, <2>1 DEF Client, Register, Cancel, Release
  <2> QED BY <1>1, <2>2 DEF Claims
<1>5. ASSUME NEW x \in Hosts, Deadline(x)
      PROVE  FALSE
  <2>1. x = h
    BY <1>1, <1>2, <1>5 DEF Deadline, SendProbe, AskCoordinator, AnnounceAgain, SendAnswers
  <2>2. ~SendProbe(h) /\ ~AskCoordinator(h) /\ ~AnnounceAgain(h)
    BY DEF SendProbe, AskCoordinator, AnnounceAgain, Expired
  <2>3. UNCHANGED claim
    BY <1>5, <2>1, <2>2 DEF Deadline, SendAnswers, Answering
  <2> QED BY <1>2, <2>3
<1>6. ASSUME NEW x \in Hosts, Receive(x)
      PROVE  FALSE
  <2>1. x = h /\ ~Drop(h) /\ claim' # claim
    BY <1>1, <1>2, <1>6 DEF Receive, Reprobe, Rename, Drop
  <2>2. Rename(h)
    BY <1>6, <2>1 DEF Receive, Conflicts, Asks, Answering
  <2> QED BY <1>1, <2>1, <2>2, RenameFields
<1>7. ASSUME NEW x \in Hosts, QueueFull(x) \/ Fail(x) \/ Close(x) \/ New(x)
      PROVE  FALSE
  BY <1>1, <1>2, <1>7 DEF QueueFull, Fail, Close, Ended, New, Drop
<1>8. ~((\E n \in Names : Query(n)) \/ Cut \/ Heal)
  BY <1>2 DEF Query, Cut, Heal
<1>9. PICK x \in Hosts : Coordinated(x)
  BY <1>3, <1>4, <1>5, <1>6, <1>7, <1>8 DEF Next
<1>10. x = h
  BY <1>1, <1>2, <1>9 DEF Coordinated, Prepared, NotPrepared, Drop
<1> QED BY <1>1, <1>2, <1>9, <1>10 DEF Coordinated, Prepared, NotPrepared, Drop

\* The first claim of a responder announces no name but the one that the
\* coordinator was asked for when it gave the answer.
THEOREM PreparedOnly == Spec => AnnouncesPrepared
<1>1. Init => AskedInv
  <2>1. Init => \A h \in Hosts : Asked(h)
    <3> SUFFICES ASSUME Init, NEW h \in Hosts
                 PROVE  Asked(h)
      OBVIOUS
    <3>1. claim[h].phase = "none" /\ requests[h] = <<>>
      BY DEF Init, NoClaim
    <3>2. Pending(<<>>) = {}
      BY DEF Pending
    <3> QED BY <3>1, <3>2 DEF Asked
  <2> QED BY <2>1, TypeInit DEF AskedInv
<1>2. AskedInv /\ [Next]_vars => AskedInv'
  BY TypeStep, AskedStep DEF AskedInv
<1>3. AskedInv /\ [Next]_vars =>
        [\A h \in Hosts :
            (/\ calls[h] = 1
             /\ claim[h].phase = "awaiting" /\ claim'[h].phase = "announcing") =>
                Head(requests[h]).name = claim[h].candidate]_vars
  <2> SUFFICES ASSUME AskedInv, Next, NEW h \in Hosts, calls[h] = 1,
                      claim[h].phase = "awaiting", claim'[h].phase = "announcing"
               PROVE  Head(requests[h]).name = claim[h].candidate
    OBVIOUS
  <2>1. Prepared(h) /\ IsLatest(h)
    BY AnnouncedWhen DEF AskedInv
  <2>2. requests[h] \in Seq(Requests) /\ requests[h] # <<>>
    BY <2>1 DEF Prepared, Answered, AskedInv, TypeInv, MessageInv
  <2>3. Head(requests[h]) \in Pending(requests[h])
    <3>1. [name |-> 1, generation |-> 0, left |-> 0] \in Requests
      BY Constants DEF Requests
    <3> QED BY <2>2, <3>1, RequestsChange
  <2> QED BY <2>1, <2>3 DEF AskedInv, Asked, IsLatest
<1> QED BY <1>1, <1>2, <1>3, PTL DEF Spec, AnnouncesPrepared

=============================================================================
