----------------------------- MODULE CertStore ------------------------------
(***************************************************************************)
(* The certificate authority in the state directory: ca.pem, ca.key and    *)
(* fingerprint, written one after the other by any number of gohere setup  *)
(* commands and read by the router, all under one file lock.               *)
(*                                                                         *)
(* An authority is a number, in the order in which they are generated.  A  *)
(* reader holds the lock for the time of three reads, so that LoadCA is an *)
(* expression; a setup holds it from its look at the files to its last     *)
(* write.  The clock counts hours.                                         *)
(***************************************************************************)
EXTENDS Integers

CONSTANTS
    Setups,       \* gohere setup commands that enable HTTPS, each called once
    MaxCA,        \* bound: authorities ever generated
    MaxTime,      \* bound on the clock
    CALife,       \* how long a new authority is valid
    RenewBefore,  \* an authority that ends sooner than this is replaced
    MaxFaults     \* bound: setups that fail or die half-way

ASSUME CertAssumption ==
    /\ MaxCA \in Nat \ {0} /\ MaxTime \in Nat /\ MaxFaults \in Nat
    /\ RenewBefore \in Nat /\ CALife \in Nat /\ CALife > RenewBefore
    /\ RenewBefore >= MaxTime   \* thirty days are longer than the time looked at

NoCA == 0
CAs == 1 .. MaxCA
Nobody == "nobody"
ASSUME NobodyAssumption == Nobody \notin Setups

VARIABLES
    files,   \* the authority that ca.pem, ca.key and fingerprint are of
    ends,    \* [CAs -> when the authority ends]
    made,    \* authorities generated so far
    holder,  \* the setup that holds the lock of the store
    setup,   \* [Setups -> where the command is and its authority]
    trusted, \* the authorities the system trusts
    faults,  \* faults so far
    now      \* the clock

certVars == <<files, ends, made, holder, setup, trusted, faults, now>>

Steps == {"idle", "cert", "key", "print", "trust", "done", "failed"}

CertTypeOK ==
    /\ files \in [cert : CAs \cup {NoCA}, key : CAs \cup {NoCA}, print : CAs \cup {NoCA}]
    /\ ends \in [CAs -> 0 .. MaxTime + CALife]
    /\ made \in 0 .. MaxCA
    /\ holder \in Setups \cup {Nobody}
    /\ setup \in [Setups -> [step : Steps, ca : CAs \cup {NoCA}]]
    /\ trusted \subseteq CAs
    /\ faults \in 0 .. MaxFaults
    /\ now \in 0 .. MaxTime

-----------------------------------------------------------------------------
(* Reading *)

\* Certificate and key belong together and the certificate has not ended.
ValidCA == files.cert # NoCA /\ files.key = files.cert /\ now < ends[files.cert]

\* What LoadCA needs: it fails for what it reads, or after ten seconds without
\* the lock.
Loadable == holder = Nobody /\ ValidCA /\ files.print = files.cert

\* The authority that LoadCA returns.
Current == IF Loadable THEN files.cert ELSE NoCA

\* When a leaf that the authority issues now ends.
LeafEnd(ca, life) == IF now + life < ends[ca] THEN now + life ELSE ends[ca]
Issues(ca) == now < ends[ca]

-----------------------------------------------------------------------------
(* gohere setup *)

Moves(s, step) == setup' = [setup EXCEPT ![s].step = step]

\* EnsureCA has the lock: it keeps an authority that lasts, and generates
\* another one else.
Keeps == ValidCA /\ ends[files.cert] - now > RenewBefore
Lock(s) ==
    /\ setup[s].step = "idle" /\ holder = Nobody
    /\ holder' = s
    /\ \/ /\ Keeps
          /\ setup' = [setup EXCEPT ![s] = [step |-> "print", ca |-> files.cert]]
          /\ UNCHANGED <<made, ends>>
       \/ /\ ~Keeps /\ made < MaxCA
          /\ made' = made + 1
          /\ ends' = [ends EXCEPT ![made + 1] = now + CALife]
          /\ setup' = [setup EXCEPT ![s] = [step |-> "cert", ca |-> made + 1]]
    /\ UNCHANGED <<files, trusted, faults, now>>

\* Another setup has the lock for ten seconds.
LockTimesOut(s) ==
    /\ setup[s].step = "idle" /\ holder # Nobody
    /\ Moves(s, "failed")
    /\ UNCHANGED <<files, ends, made, holder, trusted, faults, now>>

\* Each file is replaced by a rename, ca.pem first.
WriteCert(s) ==
    /\ setup[s].step = "cert"
    /\ files' = [files EXCEPT !.cert = setup[s].ca]
    /\ Moves(s, "key")
    /\ UNCHANGED <<ends, made, holder, trusted, faults, now>>

WriteKey(s) ==
    /\ setup[s].step = "key"
    /\ files' = [files EXCEPT !.key = setup[s].ca]
    /\ Moves(s, "print")
    /\ UNCHANGED <<ends, made, holder, trusted, faults, now>>

\* Mutant: the fingerprint of a kept authority is not checked.
Mutant_WritePrint(s) ==
    /\ setup[s].step = "print"
    /\ files' = IF files.key = files.cert /\ files.print # NoCA
                THEN files ELSE [files EXCEPT !.print = setup[s].ca]
    /\ holder' = Nobody
    /\ Moves(s, "trust")
    /\ UNCHANGED <<ends, made, trusted, faults, now>>

\* The fingerprint is written if it differs, of a kept authority too.
WritePrint(s) ==
    /\ setup[s].step = "print"
    /\ files' = [files EXCEPT !.print = setup[s].ca]
    /\ holder' = Nobody
    /\ Moves(s, "trust")
    /\ UNCHANGED <<ends, made, trusted, faults, now>>

\* A write fails before its rename or after it, or the process dies: the
\* system releases the lock, and the files stay as they are.
WriteFails(s) ==
    /\ faults < MaxFaults /\ faults' = faults + 1
    /\ \/ /\ setup[s].step \in {"cert", "key", "print"}
          /\ UNCHANGED files
       \/ /\ setup[s].step \in {"cert", "key", "print"}
          /\ files' = [files EXCEPT ![setup[s].step] = setup[s].ca]
    /\ holder' = Nobody
    /\ Moves(s, "failed")
    /\ UNCHANGED <<ends, made, trusted, now>>

\* The system is told to trust ca.pem as it is by then; without the lock.
Trust(s) ==
    /\ setup[s].step = "trust"
    /\ trusted' = trusted \cup {files.cert}
    /\ Moves(s, "done")
    /\ UNCHANGED <<files, ends, made, holder, faults, now>>

TrustFails(s) ==
    /\ setup[s].step = "trust" /\ faults < MaxFaults
    /\ faults' = faults + 1
    /\ Moves(s, "failed")
    /\ UNCHANGED <<files, ends, made, holder, trusted, now>>

SetupStep(s) ==
    \/ Lock(s) \/ LockTimesOut(s) \/ WriteCert(s) \/ WriteKey(s) \/ WritePrint(s)
    \/ WriteFails(s) \/ Trust(s) \/ TrustFails(s)

-----------------------------------------------------------------------------
(* HTTPS was never set up, or it was: the authority is new, or due to be   *)
(* replaced.                                                               *)
CertInit ==
    /\ \/ made = 0 /\ ends = [ca \in CAs |-> 0]
       \/ made = 1 /\ \E end \in {RenewBefore, CALife} : ends = [ca \in CAs |-> IF ca = 1 THEN end ELSE 0]
    /\ files = [cert |-> made, key |-> made, print |-> made]
    /\ trusted = 1 .. made
    /\ holder = Nobody
    /\ setup = [s \in Setups |-> [step |-> "idle", ca |-> NoCA]]
    /\ faults = 0
    /\ now = 0

\* The store alone, as readers find it.
CertTick ==
    /\ now < MaxTime
    /\ now' = now + 1
    /\ UNCHANGED <<files, ends, made, holder, setup, trusted, faults>>
CertNext == CertTick \/ \E s \in Setups : SetupStep(s)
CertSpec == CertInit /\ [][CertNext]_certVars

-----------------------------------------------------------------------------
\* A setup that leaves EnsureCA has returned the authority that every load
\* returns from then on, whether it found nothing, an authority that had
\* ended, or what another setup had left half-written when it died.
SetupRepairs ==
    [][\A s \in Setups :
         setup[s].step # "trust" /\ setup'[s].step = "trust" =>
           Loadable' /\ files'.cert = setup'[s].ca]_certVars
=============================================================================
