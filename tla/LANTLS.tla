------------------------------- MODULE LANTLS -------------------------------
(***************************************************************************)
(* The certificates of routes shared on the local network: the binding of  *)
(* a LAN host name to a route and a certificate, which TLS handshakes use; *)
(* the record of it and the token of the setup page, which the manager     *)
(* keeps; and the three goroutines that change them: the mDNS actor that   *)
(* prepares a host name, the monitor that replaces certificates, and the   *)
(* removal of a share.  Only single accesses are under a lock.             *)
(*                                                                         *)
(* Each check of the authority is one step with the access that follows    *)
(* it.  What the responder does is MDNSClaims, and what becomes of         *)
(* registrations, ports and networks LANManager.                           *)
(***************************************************************************)
EXTENDS CertStore, FiniteSets

CONSTANTS
    Refs,         \* routes that are shared
    Names,        \* LAN host names
    Visitors,     \* devices on the network
    MaxToken,     \* bound: setup tokens ever drawn
    LANLeafLife,  \* hours a certificate is valid
    RotateBefore  \* it is replaced when it ends sooner than this

NoRef == "no route"
NoName == "no name"
NoToken == 0
Tokens == 1 .. MaxToken

ASSUME LANAssumption ==
    /\ NoRef \notin Refs /\ NoName \notin Names
    /\ MaxToken \in Nat /\ LANLeafLife \in Nat /\ RotateBefore \in Nat \ {0}
    /\ RotateBefore < LANLeafLife

VARIABLES
    share,    \* [Refs -> the share in the route store]
    binding,  \* [Names -> the route and the certificate of the host name]
    record,   \* [Refs -> the certificate the manager believes is bound]
    token,    \* [Refs -> the setup token of the share]
    session,  \* [Tokens -> the authority that the token's page hands out]
    drawn,    \* tokens drawn so far
    prepare,  \* the Prepare of the mDNS actor
    rotation, \* the round of the monitor
    removal,  \* [Refs -> the removal of the share]
    visitor,  \* [Visitors -> the handshake of the device]
    crossed   \* two of them have worked on one share at a time

trustVars == <<token, session, drawn>>
managed == <<share, binding, record, trustVars>>
lanVars == <<managed, prepare, rotation, removal, visitor, crossed>>

\* A certificate; the manager's record of one has the same fields.
LANLeaves == [name : Names, ca : CAs, until : 0 .. MaxTime + LANLeafLife]
NoLANLeaf == [name |-> NoName, ca |-> NoCA, until |-> 0]
Unbound == [ref |-> NoRef, leaf |-> NoLANLeaf]

NotPreparing == [step |-> "idle", ref |-> NoRef, name |-> NoName, previous |-> NoName,
                 leaf |-> NoLANLeaf, token |-> NoToken]
NotRotating == [step |-> "idle", ca |-> NoCA, todo |-> {}, ref |-> NoRef,
                old |-> NoLANLeaf, leaf |-> NoLANLeaf, token |-> NoToken]
NotRemoving == [step |-> "idle", token |-> NoToken]
Away == [step |-> "idle", name |-> NoName, ref |-> NoRef, ca |-> NoCA,
         checked |-> "nothing", leaf |-> NoLANLeaf]

Preparations ==
    [step : {"idle", "issue", "trust", "register", "activate", "record", "clear"},
     ref : Refs \cup {NoRef}, name : Names \cup {NoName}, previous : Names \cup {NoName},
     leaf : LANLeaves \cup {NoLANLeaf}, token : Tokens \cup {NoToken}]
Rotations ==
    [step : {"idle", "pick", "issue", "trust", "replace", "record"}, ca : CAs \cup {NoCA},
     todo : SUBSET (Refs \X LANLeaves), ref : Refs \cup {NoRef}, old : LANLeaves \cup {NoLANLeaf},
     leaf : LANLeaves \cup {NoLANLeaf}, token : Tokens \cup {NoToken}]
Visits ==
    [step : {"idle", "hello", "certificate", "verify", "open"}, name : Names \cup {NoName},
     ref : Refs \cup {NoRef}, ca : CAs \cup {NoCA}, checked : {"nothing", "authority", "share"},
     leaf : LANLeaves \cup {NoLANLeaf}]

LANTypeOK ==
    /\ share \in [Refs -> [state : {"none", "requested", "active", "suspended"},
                           name : Names \cup {NoName}]]
    /\ binding \in [Names -> [ref : Refs, leaf : LANLeaves] \cup {Unbound}]
    /\ record \in [Refs -> LANLeaves \cup {NoLANLeaf}]
    /\ token \in [Refs -> Tokens \cup {NoToken}]
    /\ session \in [Tokens -> CAs \cup {NoCA}]
    /\ drawn \in 0 .. MaxToken
    /\ prepare \in Preparations /\ rotation \in Rotations
    /\ removal \in [Refs -> [step : {"idle", "unbind", "unshare"}, token : Tokens \cup {NoToken}]]
    /\ visitor \in [Visitors -> Visits]
    /\ crossed \in BOOLEAN

LANIssued(name) == [name |-> name, ca |-> Current, until |-> LeafEnd(Current, LANLeafLife)]

-----------------------------------------------------------------------------
(* Setup tokens *)

\* A token is drawn and its session configured.
Draws(ca) ==
    /\ drawn < MaxToken
    /\ drawn' = drawn + 1
    /\ session' = [session EXCEPT ![drawn + 1] = ca]

Cleared(tokens) == [t \in Tokens |-> IF t \in tokens THEN NoCA ELSE session[t]]

\* The page of a token is asked for when its authority is not the one that
\* loads, or none does: the session ends.
VisitSetupPage(t) ==
    /\ session[t] # NoCA /\ session[t] # Current
    /\ session' = Cleared({t})
    /\ UNCHANGED <<share, binding, record, token, drawn, prepare, rotation, removal, visitor, crossed, certVars>>

-----------------------------------------------------------------------------
(* Prepare *)

Unbinds(n, r) == IF n # NoName /\ binding[n].ref = r
                 THEN [binding EXCEPT ![n] = Unbound] ELSE binding

\* The responder asks for a host name that no other share has, for a share
\* whose removal has not come so far yet.
PrepareStarts(r, n) ==
    /\ prepare.step = "idle"
    /\ share[r].state # "none"
    /\ \A q \in Refs \ {r} : share[q].name # n
    /\ prepare' = [NotPreparing EXCEPT !.step = "issue", !.ref = r, !.name = n,
                                       !.previous = share[r].name]
    /\ crossed' = (crossed \/ rotation.step # "idle" \/ removal[r].step # "idle")
    /\ UNCHANGED <<managed, rotation, removal, visitor, certVars>>

PrepareIssues ==
    /\ prepare.step = "issue"
    /\ prepare' = IF Loadable
                  THEN [prepare EXCEPT !.step = "trust", !.leaf = LANIssued(prepare.name)]
                  ELSE NotPreparing
    /\ UNCHANGED <<managed, rotation, removal, visitor, crossed, certVars>>

\* validateCertificateMaterial
Validates(leaf) == Current = leaf.ca

PrepareTrusts ==
    /\ prepare.step = "trust"
    /\ \/ /\ Validates(prepare.leaf)
          /\ Draws(prepare.leaf.ca)
          /\ prepare' = [prepare EXCEPT !.step = "register", !.token = drawn + 1]
       \/ /\ ~Validates(prepare.leaf)
          /\ prepare' = NotPreparing
          /\ UNCHANGED <<drawn, session>>
    /\ UNCHANGED <<share, binding, record, token, rotation, removal, visitor, crossed, certVars>>

\* The host name is refused while another route has it.
PrepareRegisters ==
    /\ prepare.step = "register"
    /\ \/ /\ Validates(prepare.leaf) /\ binding[prepare.name].ref \in {NoRef, prepare.ref}
          /\ binding' = [binding EXCEPT ![prepare.name] = [ref |-> prepare.ref, leaf |-> prepare.leaf]]
          /\ prepare' = [prepare EXCEPT !.step = "activate"]
          /\ UNCHANGED session
       \/ /\ ~Validates(prepare.leaf) \/ binding[prepare.name].ref \notin {NoRef, prepare.ref}
          /\ session' = Cleared({prepare.token})
          /\ prepare' = NotPreparing
          /\ UNCHANGED binding
    /\ UNCHANGED <<share, record, token, drawn, rotation, removal, visitor, crossed, certVars>>

\* ActivateLANShare refuses a share that has been removed.
PrepareActivates ==
    LET r == prepare.ref IN
    /\ prepare.step = "activate"
    /\ \/ /\ Validates(prepare.leaf) /\ share[r].state # "none"
          /\ share' = [share EXCEPT ![r] = [state |-> "active", name |-> prepare.name]]
          /\ prepare' = [prepare EXCEPT !.step = "record"]
          /\ UNCHANGED <<binding, session>>
       \/ /\ ~Validates(prepare.leaf) \/ share[r].state = "none"
          /\ binding' = Unbinds(prepare.name, r)
          /\ session' = Cleared({prepare.token})
          /\ prepare' = NotPreparing
          /\ UNCHANGED share
    /\ UNCHANGED <<record, token, drawn, rotation, removal, visitor, crossed, certVars>>

PrepareRecords ==
    LET r == prepare.ref IN
    /\ prepare.step = "record"
    /\ token' = [token EXCEPT ![r] = prepare.token]
    /\ record' = [record EXCEPT ![r] = prepare.leaf]
    /\ prepare' = [prepare EXCEPT !.step = "clear", !.token = token[r]]
    /\ UNCHANGED <<share, binding, session, drawn, rotation, removal, visitor, crossed, certVars>>

\* Mutant: the host name of before stays bound.
Mutant_PrepareClears ==
    /\ prepare.step = "clear"
    /\ session' = Cleared({prepare.token})
    /\ prepare' = NotPreparing
    /\ UNCHANGED <<share, binding, record, token, drawn, rotation, removal, visitor, crossed, certVars>>

\* The token of before, and the host name of before.
PrepareClears ==
    /\ prepare.step = "clear"
    /\ session' = Cleared({prepare.token})
    /\ binding' = IF prepare.previous = prepare.name THEN binding
                  ELSE Unbinds(prepare.previous, prepare.ref)
    /\ prepare' = NotPreparing
    /\ UNCHANGED <<share, record, token, drawn, rotation, removal, visitor, crossed, certVars>>

PrepareStep ==
    \/ PrepareIssues \/ PrepareTrusts \/ PrepareRegisters \/ PrepareActivates
    \/ PrepareRecords \/ PrepareClears

-----------------------------------------------------------------------------
(* The monitor *)

\* What a round is to replace: of another authority, or about to end.
Due(leaf, ca) == leaf # NoLANLeaf /\ (leaf.ca # ca \/ leaf.until <= now + RotateBefore)

\* A round that cannot load the authority, or finds nothing, does nothing.
RotationStarts ==
    /\ rotation.step = "idle" /\ Loadable
    /\ \E r \in Refs : Due(record[r], Current)
    /\ rotation' = [NotRotating EXCEPT !.step = "pick", !.ca = Current,
                        !.todo = {<<r, record[r]>> : r \in {q \in Refs : Due(record[q], Current)}}]
    /\ crossed' = (crossed \/ prepare.step # "idle")
    /\ UNCHANGED <<managed, prepare, removal, visitor, certVars>>

\* The round has finished with a share, with or without success.
Passes == rotation' = [NotRotating EXCEPT !.ca = rotation.ca, !.todo = rotation.todo,
                            !.step = IF rotation.todo = {} THEN "idle" ELSE "pick"]

\* The next share; the token of another authority ends, unless Prepare has
\* been here since.
RotationPicks(r, leaf) ==
    /\ rotation.step = "pick" /\ <<r, leaf>> \in rotation.todo
    /\ rotation' = [rotation EXCEPT !.step = "issue", !.ref = r, !.old = leaf,
                                    !.todo = @ \ {<<r, leaf>>}]
    /\ IF leaf.ca # rotation.ca /\ record[r] = leaf
       THEN /\ session' = Cleared({token[r]})
            /\ token' = [token EXCEPT ![r] = NoToken]
       ELSE UNCHANGED <<session, token>>
    /\ UNCHANGED <<share, binding, record, drawn, prepare, removal, visitor, crossed, certVars>>

RotationIssues ==
    /\ rotation.step = "issue"
    /\ IF Loadable
       THEN rotation' = [rotation EXCEPT !.step = "trust", !.leaf = LANIssued(rotation.old.name)]
       ELSE Passes
    /\ UNCHANGED <<managed, prepare, removal, visitor, crossed, certVars>>

\* Only another authority needs another token.
RotationTrusts ==
    /\ rotation.step = "trust"
    /\ \/ /\ Validates(rotation.leaf) /\ rotation.leaf.ca # rotation.old.ca
          /\ Draws(rotation.leaf.ca)
          /\ rotation' = [rotation EXCEPT !.step = "replace", !.token = drawn + 1]
       \/ /\ Validates(rotation.leaf) /\ rotation.leaf.ca = rotation.old.ca
          /\ rotation' = [rotation EXCEPT !.step = "replace"]
          /\ UNCHANGED <<drawn, session>>
       \/ /\ ~Validates(rotation.leaf)
          /\ Passes
          /\ UNCHANGED <<drawn, session>>
    /\ UNCHANGED <<share, binding, record, token, prepare, removal, visitor, crossed, certVars>>

\* replaceLANCertificate wants the host name to be bound to the same route.
RotationReplaces ==
    LET n == rotation.old.name IN
    /\ rotation.step = "replace"
    /\ \/ /\ binding[n].ref = rotation.ref
          /\ binding' = [binding EXCEPT ![n].leaf = rotation.leaf]
          /\ rotation' = [rotation EXCEPT !.step = "record"]
          /\ UNCHANGED session
       \/ /\ binding[n].ref # rotation.ref
          /\ session' = Cleared({rotation.token})
          /\ Passes
          /\ UNCHANGED binding
    /\ UNCHANGED <<share, record, token, drawn, prepare, removal, visitor, crossed, certVars>>

\* Mutant: the round does not look whether the record is still the same.
Mutant_RotationRecords ==
    LET r == rotation.ref
        new == rotation.token
        takes == Validates(rotation.leaf)
    IN
    /\ rotation.step = "record"
    /\ \/ /\ takes
          /\ record' = [record EXCEPT ![r] = rotation.leaf]
          /\ token' = IF new = NoToken THEN token ELSE [token EXCEPT ![r] = new]
          /\ session' = IF new = NoToken THEN session ELSE Cleared({token[r]})
       \/ /\ ~takes
          /\ session' = Cleared({new})
          /\ UNCHANGED <<record, token>>
    /\ Passes
    /\ UNCHANGED <<share, binding, drawn, prepare, removal, visitor, crossed, certVars>>

\* The record is changed only if it is the one the round began with.
RotationRecords ==
    LET r == rotation.ref
        new == rotation.token
        takes == Validates(rotation.leaf) /\ record[r] = rotation.old
    IN
    /\ rotation.step = "record"
    /\ \/ /\ takes
          /\ record' = [record EXCEPT ![r] = rotation.leaf]
          /\ token' = IF new = NoToken THEN token ELSE [token EXCEPT ![r] = new]
          /\ session' = IF new = NoToken THEN session ELSE Cleared({token[r]})
       \/ /\ ~takes
          /\ session' = Cleared({new})
          /\ UNCHANGED <<record, token>>
    /\ Passes
    /\ UNCHANGED <<share, binding, drawn, prepare, removal, visitor, crossed, certVars>>

RotationStep ==
    \/ RotationStarts \/ RotationIssues \/ RotationTrusts \/ RotationReplaces \/ RotationRecords
    \/ \E r \in Refs : \E pair \in rotation.todo : pair[1] = r /\ RotationPicks(r, pair[2])

-----------------------------------------------------------------------------
(* The share of a route *)

Request(r) ==
    /\ share[r].state = "none" /\ removal[r].step = "idle"
    /\ share' = [share EXCEPT ![r] = [state |-> "requested", name |-> NoName]]
    /\ UNCHANGED <<binding, record, trustVars, prepare, rotation, removal, visitor, crossed, certVars>>

Suspend(r) ==
    /\ share[r].state = "active"
    /\ share' = [share EXCEPT ![r].state = "suspended"]
    /\ UNCHANGED <<binding, record, trustVars, prepare, rotation, removal, visitor, crossed, certVars>>

\* Remove takes what the manager keeps, then closes the registration, ends
\* binding and session, and removes the share last.
RemoveTakes(r) ==
    /\ removal[r].step = "idle" /\ share[r].state # "none"
    /\ removal' = [removal EXCEPT ![r] = [step |-> "unbind", token |-> token[r]]]
    /\ token' = [token EXCEPT ![r] = NoToken]
    /\ record' = [record EXCEPT ![r] = NoLANLeaf]
    /\ crossed' = (crossed \/ (prepare.step # "idle" /\ prepare.ref = r))
    /\ UNCHANGED <<share, binding, session, drawn, prepare, rotation, visitor, certVars>>

RemoveUnbinds(r) ==
    /\ removal[r].step = "unbind"
    /\ binding' = [n \in Names |-> IF binding[n].ref = r THEN Unbound ELSE binding[n]]
    /\ session' = Cleared({removal[r].token})
    /\ removal' = [removal EXCEPT ![r] = [step |-> "unshare", token |-> NoToken]]
    /\ UNCHANGED <<share, record, token, drawn, prepare, rotation, visitor, crossed, certVars>>

RemoveShare(r) ==
    /\ removal[r].step = "unshare"
    /\ share' = [share EXCEPT ![r] = [state |-> "none", name |-> NoName]]
    /\ removal' = [removal EXCEPT ![r] = NotRemoving]
    /\ UNCHANGED <<binding, record, trustVars, prepare, rotation, visitor, crossed, certVars>>

-----------------------------------------------------------------------------
(* Handshakes of devices on the network *)

Arrives(v, n) ==
    /\ visitor[v].step = "idle" /\ binding[n] # Unbound
    /\ visitor' = [visitor EXCEPT ![v] =
            [Away EXCEPT !.step = "hello", !.name = n, !.ref = binding[n].ref, !.ca = binding[n].leaf.ca]]
    /\ UNCHANGED <<managed, prepare, rotation, removal, crossed, certVars>>

\* The binding is still that of the ClientHello.
Bound(v) ==
    LET b == binding[visitor[v].name] IN b.ref = visitor[v].ref /\ b.leaf.ca = visitor[v].ca

Shared(v) ==
    LET r == visitor[v].ref IN
        /\ binding[visitor[v].name].ref = r
        /\ share[r] = [state |-> "active", name |-> visitor[v].name]

Checking(v, what) ==
    visitor[v].step \in {"hello", "certificate", "verify"} /\ visitor[v].checked = what

\* revalidateLANTLS: the binding and the authority, the share, and the binding
\* once more, whose certificate it returns.
CheckAuthority(v) ==
    /\ Checking(v, "nothing")
    /\ visitor' = [visitor EXCEPT ![v] =
            IF Bound(v) /\ Current = visitor[v].ca THEN [visitor[v] EXCEPT !.checked = "authority"] ELSE Away]
    /\ UNCHANGED <<managed, prepare, rotation, removal, crossed, certVars>>

CheckShare(v) ==
    /\ Checking(v, "authority")
    /\ visitor' = [visitor EXCEPT ![v] =
            IF Shared(v) THEN [visitor[v] EXCEPT !.checked = "share"] ELSE Away]
    /\ UNCHANGED <<managed, prepare, rotation, removal, crossed, certVars>>

Following == [hello |-> "certificate", certificate |-> "verify", verify |-> "open"]
\* Mutant: the binding is not looked at again.
Mutant_CheckBinding(v) ==
    /\ Checking(v, "share")
    /\ visitor' = [visitor EXCEPT ![v] =
            [visitor[v] EXCEPT !.step = Following[@], !.checked = "nothing",
                !.leaf = IF visitor[v].step = "certificate"
                         THEN binding[visitor[v].name].leaf ELSE visitor[v].leaf]]
    /\ UNCHANGED <<managed, prepare, rotation, removal, crossed, certVars>>

CheckBinding(v) ==
    /\ Checking(v, "share")
    /\ visitor' = [visitor EXCEPT ![v] =
            IF ~Bound(v) THEN Away
            ELSE [visitor[v] EXCEPT !.step = Following[@], !.checked = "nothing",
                    !.leaf = IF visitor[v].step = "certificate"
                             THEN binding[visitor[v].name].leaf ELSE visitor[v].leaf]]
    /\ UNCHANGED <<managed, prepare, rotation, removal, crossed, certVars>>

\* The request is forwarded if the share is active, and the device leaves.
Departs(v) ==
    /\ visitor[v].step = "open"
    /\ visitor' = [visitor EXCEPT ![v] = Away]
    /\ UNCHANGED <<managed, prepare, rotation, removal, crossed, certVars>>

-----------------------------------------------------------------------------
LANNext ==
    \/ PrepareStep \/ RotationStep
    \/ \E t \in Tokens : VisitSetupPage(t)
    \/ \E r \in Refs :
         \/ Request(r) \/ Suspend(r) \/ RemoveTakes(r) \/ RemoveUnbinds(r) \/ RemoveShare(r)
         \/ \E n \in Names : PrepareStarts(r, n)
    \/ \E v \in Visitors :
         \/ CheckAuthority(v) \/ CheckShare(v) \/ CheckBinding(v) \/ Departs(v)
         \/ \E n \in Names : Arrives(v, n)

LANInit ==
    /\ share = [r \in Refs |-> [state |-> "none", name |-> NoName]]
    /\ binding = [n \in Names |-> Unbound]
    /\ record = [r \in Refs |-> NoLANLeaf]
    /\ token = [r \in Refs |-> NoToken]
    /\ session = [t \in Tokens |-> NoCA]
    /\ drawn = 0
    /\ prepare = NotPreparing
    /\ rotation = NotRotating
    /\ removal = [r \in Refs |-> NotRemoving]
    /\ visitor = [v \in Visitors |-> Away]
    /\ crossed = FALSE

AtRest == prepare.step = "idle" /\ rotation.step = "idle" /\ \A r \in Refs : removal[r].step = "idle"

\* Timing assumption: no Prepare, round, removal or check of a handshake takes
\* an hour, and the monitor, which begins a round every ten seconds, gets
\* every record up to date within one.
LANCalm ==
    /\ AtRest
    /\ \A v \in Visitors : visitor[v].checked = "nothing"
    /\ \A r \in Refs : ~Due(record[r], files.cert)

\* Setups replace the authority while all this goes on.
LANStep ==
    \/ LANCalm /\ CertTick /\ UNCHANGED lanVars
    \/ (\E s \in Setups : SetupStep(s)) /\ UNCHANGED lanVars
    \/ LANNext
LANSpec == CertInit /\ LANInit /\ [][LANStep]_<<lanVars, certVars>>

-----------------------------------------------------------------------------
\* A device is shown a certificate that has not ended, for the host name and
\* of the authority of its ClientHello, however the monitor, Prepare, removals
\* and setups come in between.
LANHandshakeSound ==
    [][\A v \in Visitors :
         visitor[v].step # "verify" /\ visitor'[v].step = "verify" =>
           LET leaf == visitor'[v].leaf IN
             /\ now < leaf.until
             /\ leaf.name = visitor[v].name
             /\ leaf.ca = visitor[v].ca]_<<lanVars, certVars>>

\* A certificate that is to be replaced is known to be: the record the monitor
\* goes by is as old as the binding it stands for, unless two goroutines have
\* worked on the share at a time.
StaleNoticed ==
    AtRest /\ ~crossed /\ Loadable =>
        \A n \in Names : binding[n] # Unbound =>
            /\ record[binding[n].ref].name = n
            /\ Due(binding[n].leaf, Current) => Due(record[binding[n].ref], Current)

\* At rest every setup page in use belongs to a share, and hands out the
\* authority of the certificate its share shows: what removals, failed
\* preparations and rounds drew they have cleared.
TokensOwned ==
    /\ CertTypeOK /\ LANTypeOK
    /\ AtRest /\ ~crossed =>
        \A t \in Tokens : session[t] # NoCA =>
            \E r \in Refs : token[r] = t /\ share[r].state # "none" /\ record[r].ca = session[t]
=============================================================================
