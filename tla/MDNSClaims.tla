----------------------------- MODULE MDNSClaims -----------------------------
(***************************************************************************)
(* The claims of the LAN mDNS responder, internal/lanmdns: the actor of    *)
(* actor.go, its pumps, and what it does with the probes, responses and    *)
(* queries that reach it.                                                  *)
(*                                                                         *)
(* Every host runs one responder with one claim, all for the same name;    *)
(* the claims of one responder share no more than its inbox and its clock. *)
(* A name is a number: 1 is the requested one, n + 1 the conflict name     *)
(* after n.  Hosts are numbered in the order of their addresses.           *)
(*                                                                         *)
(* Time passes in ticks of 250 ms, once everything that is due has been    *)
(* done and all messages have been handled: the link and the actor are     *)
(* faster than that, except while the link is cut.  A question that is     *)
(* answered to its sender alone changes nothing here and is left out, as   *)
(* are the delays of truncated and of multiple questions.                  *)
(***************************************************************************)
EXTENDS Integers, Sequences

CONSTANTS
    Hosts,       \* responders, numbered by address
    MaxName,     \* bound: names a claim tries before its minute is over
    MaxClients,  \* bound: registrations of a responder at a time
    MaxPrepare,  \* bound: ticks until a request to the coordinator is answered
    MaxEvents    \* bound: registrations, cuts, full queues, responders ended

ASSUME MDNSAssumption ==
    /\ Hosts \subseteq Nat \ {0}
    /\ MaxName \in Nat \ {0} /\ MaxClients \in Nat \ {0}
    /\ MaxPrepare \in Nat /\ MaxEvents \in Nat

VARIABLES
    claim,     \* [Hosts -> the claim, or NoClaim]
    answers,   \* [Hosts -> responses that wait for their time: scheduled]
    requests,  \* [Hosts -> Seq of the requests to the coordinator]
    inbox,     \* [Hosts -> Seq of messages]
    up,        \* the hosts whose responder runs
    cut,       \* messages do not reach other hosts
    split,     \* that has been so at some time
    calls,     \* [Hosts -> registrations so far]
    events     \* registrations, cuts, full queues and ends so far

link == <<cut, split>>
counts == <<calls, events>>
vars == <<claim, answers, requests, inbox, up, link, counts>>

NoName == 0
NoHost == 0
Names == 1 .. MaxName
Never == -1                   \* the zero deadline

\* The times of the code, in ticks.
ProbeDelays == 0 .. 1         \* before the first probe, at random
ProbeInterval == 1
AnnounceInterval == 4
AnswerInterval == 4           \* between multicast responses
DefenseInterval == 1          \* the same, if the response is to a probe

NoClaim ==
    [phase |-> "none", candidate |-> NoName, current |-> NoName, probes |-> 0,
     deadline |-> Never, generation |-> 0, since |-> AnswerInterval,
     waiting |-> 0, held |-> 0]

Probing == {"probing", "observing", "awaiting"}
Answering == {"announcing", "active"}

Init ==
    /\ claim = [h \in Hosts |-> NoClaim]
    /\ answers = [h \in Hosts |-> {}]
    /\ requests = [h \in Hosts |-> <<>>]
    /\ inbox = [h \in Hosts |-> <<>>]
    /\ up = Hosts
    /\ cut \in BOOLEAN /\ split = cut
    /\ calls = [h \in Hosts |-> 0]
    /\ events = 0

Another == events < MaxEvents /\ events' = events + 1

-----------------------------------------------------------------------------
(* Messages *)

Message(kind, name, h) == [kind |-> kind, name |-> name, from |-> h]

\* Multicast reaches every responder, unless the link is cut, and its sender,
\* to which its own probe means nothing.
Hears(h, m) ==
    /\ h \in up
    /\ IF m.from = h THEN m.kind # "probe" ELSE m.from = NoHost \/ ~cut

Arrived(box, m) == [h \in Hosts |-> IF Hears(h, m) THEN Append(box[h], m) ELSE box[h]]

Send(kind, name, h) == inbox' = Arrived(inbox, Message(kind, name, h))

-----------------------------------------------------------------------------
(* Registrations *)

\* completeClaim with an error, and the claim is deleted.
Drop(h) == claim' = [claim EXCEPT ![h] = NoClaim]

\* The first registration starts the claim, a later one joins it.
Register(h) ==
    /\ h \in up
    /\ claim[h].waiting + claim[h].held < MaxClients
    /\ Another
    /\ calls' = [calls EXCEPT ![h] = @ + 1]
    /\ \/ /\ claim[h].phase = "none"
          /\ \E delay \in ProbeDelays :
                claim' = [claim EXCEPT ![h] =
                            [NoClaim EXCEPT !.phase = "wait", !.candidate = 1,
                                            !.deadline = delay, !.generation = 1,
                                            !.waiting = 1]]
       \/ /\ claim[h].phase = "active"
          /\ claim' = [claim EXCEPT ![h].held = @ + 1]
       \/ /\ claim[h].phase \notin {"none", "active"}
          /\ claim' = [claim EXCEPT ![h].waiting = @ + 1]
    /\ UNCHANGED <<answers, requests, inbox, up, link>>

\* A client stops waiting: the last one takes the claim along.
Cancel(h) ==
    /\ claim[h].waiting > 0
    /\ IF claim[h].waiting + claim[h].held = 1 THEN Drop(h)
       ELSE claim' = [claim EXCEPT ![h].waiting = @ - 1]
    /\ UNCHANGED <<answers, requests, inbox, up, link, counts>>

\* The last registration is released: a name that was announced is taken back,
\* by a response that other responders do not tell from a claim.
Release(h) ==
    /\ claim[h].held > 0
    /\ IF claim[h].waiting + claim[h].held > 1
       THEN claim' = [claim EXCEPT ![h].held = @ - 1] /\ UNCHANGED inbox
       ELSE /\ Drop(h)
            /\ IF claim[h].phase \in Answering THEN Send("response", claim[h].current, h)
               ELSE UNCHANGED inbox
    /\ UNCHANGED <<answers, requests, up, link, counts>>

-----------------------------------------------------------------------------
(* Deadlines *)

Due(h) == {a \in answers[h] : a.due = 0}

\* A deadline is handled after the answers that are due.
Expired(h, phases) ==
    /\ claim[h].phase \in phases
    /\ claim[h].deadline = 0
    /\ Due(h) = {}

SendProbe(h) ==
    /\ Expired(h, {"wait", "probing"})
    /\ Send("probe", claim[h].candidate, h)
    /\ claim' = [claim EXCEPT ![h].probes = @ + 1,
                              ![h].deadline = ProbeInterval,
                              ![h].phase = IF claim[h].probes = 2 THEN "observing" ELSE "probing"]
    /\ UNCHANGED <<answers, requests, up, link, counts>>

\* Nobody has objected: the coordinator is asked to make the name ready.
AskCoordinator(h) ==
    /\ Expired(h, {"observing"})
    /\ claim' = [claim EXCEPT ![h].phase = "awaiting", ![h].deadline = Never]
    /\ requests' = [requests EXCEPT ![h] =
                        Append(@, [name |-> claim[h].candidate,
                                   generation |-> claim[h].generation,
                                   left |-> MaxPrepare])]
    /\ UNCHANGED <<answers, inbox, up, link, counts>>

\* Mutant: any answer will do.
Mutant_IsLatest(h) == claim[h].phase = "awaiting"

\* The request the coordinator has answered is that of the claim as it is now.
IsLatest(h) ==
    /\ claim[h].phase = "awaiting"
    /\ claim[h].generation = Head(requests[h]).generation

Answered(h) ==
    /\ requests[h] # <<>>
    /\ requests' = [requests EXCEPT ![h] = Tail(@)]

\* The first announcement.
Prepared(h) ==
    /\ Answered(h)
    /\ IF IsLatest(h)
       THEN /\ claim' = [claim EXCEPT ![h].phase = "announcing",
                                      ![h].current = claim[h].candidate,
                                      ![h].deadline = AnnounceInterval,
                                      ![h].since = 0]
            /\ Send("response", claim[h].candidate, h)
       ELSE UNCHANGED <<claim, inbox>>
    /\ UNCHANGED <<answers, up, link, counts>>

NotPrepared(h) ==
    /\ Answered(h)
    /\ IF IsLatest(h) THEN Drop(h) ELSE UNCHANGED claim
    /\ UNCHANGED <<answers, inbox, up, link, counts>>

\* Mutant: who waits for the name is not answered.
Mutant_AnnounceAgain(h) ==
    /\ Expired(h, {"announcing"})
    /\ Send("response", claim[h].candidate, h)
    /\ claim' = [claim EXCEPT ![h].phase = "active", ![h].deadline = Never, ![h].since = 0]
    /\ UNCHANGED <<answers, requests, up, link, counts>>

\* The second announcement: whoever waits has its name.
AnnounceAgain(h) ==
    /\ Expired(h, {"announcing"})
    /\ Send("response", claim[h].candidate, h)
    /\ claim' = [claim EXCEPT ![h].phase = "active", ![h].deadline = Never, ![h].since = 0,
                              ![h].held = claim[h].held + claim[h].waiting,
                              ![h].waiting = 0]
    /\ UNCHANGED <<answers, requests, up, link, counts>>

\* The queue of the writer or of the coordinator is full.
QueueFull(h) ==
    /\ Expired(h, {"wait", "probing", "observing", "announcing"})
    /\ Another
    /\ Drop(h)
    /\ UNCHANGED <<answers, requests, inbox, up, link, calls>>

\* The answers whose time has come, one by one; those of a claim that is not
\* announced any more are forgotten.
SendAnswers(h) ==
    /\ \E a \in Due(h) :
         /\ answers' = [answers EXCEPT ![h] = @ \ {a}]
         /\ IF claim[h].phase \in Answering
            THEN /\ Send("response", a.name, h)
                 /\ claim' = [claim EXCEPT ![h].since = 0]
            ELSE UNCHANGED <<claim, inbox>>
    /\ UNCHANGED <<requests, up, link, counts>>

-----------------------------------------------------------------------------
(* What a message does to a claim *)

\* Mutant: what others announce is heard only while the name is probed.
Mutant_Conflicts(h, m) ==
    /\ claim[h].phase \in Probing
    /\ m.kind = "response" /\ m.name = claim[h].current /\ m.from # h

\* conflictingAResponse: the announced name has another address.
Conflicts(h, m) ==
    /\ claim[h].phase \in Answering
    /\ m.kind = "response" /\ m.name = claim[h].current /\ m.from # h

\* The name is probed once more, as if it were new.
Reprobe(h) ==
    \E delay \in ProbeDelays :
        claim' = [claim EXCEPT ![h].phase = "wait", ![h].candidate = claim[h].current,
                               ![h].probes = 0, ![h].deadline = delay,
                               ![h].generation = @ + 1, ![h].since = AnswerInterval]

\* Mutant: a probe is not taken for a question.
Mutant_Asks(h, m) ==
    /\ claim[h].phase \in Answering
    /\ m.kind = "query" /\ m.name = claim[h].current

\* A question for the announced name, as a probe is.
Asks(h, m) ==
    /\ claim[h].phase \in Answering
    /\ m.kind \in {"query", "probe"} /\ m.name = claim[h].current

\* The answer goes to all, but not too soon after the last one.
MulticastDue(h, m) ==
    LET interval == IF m.kind = "probe" THEN DefenseInterval ELSE AnswerInterval
    IN  IF claim[h].since >= interval THEN 0 ELSE interval - claim[h].since

\* A candidate is lost to whoever responds under it, whatever the address, and
\* to the probe of a higher address.
Loses(h, m) ==
    /\ claim[h].phase \in Probing /\ claim[h].probes > 0
    /\ m.name = claim[h].candidate
    /\ m.kind = "response" \/ (m.kind = "probe" /\ h < m.from)

\* The next name; the claim ends when its minute is over.
Rename(h) ==
    IF claim[h].candidate = MaxName THEN Drop(h)
    ELSE \E delay \in ProbeDelays :
            claim' = [claim EXCEPT ![h].phase = "wait", ![h].candidate = @ + 1,
                                   ![h].probes = 0, ![h].deadline = delay,
                                   ![h].generation = @ + 1]

Receive(h) ==
    /\ inbox[h] # <<>>
    /\ LET m == Head(inbox[h])
           read == [inbox EXCEPT ![h] = Tail(@)]
       IN  \/ /\ Conflicts(h, m)
              /\ Reprobe(h)
              /\ inbox' = read
              /\ UNCHANGED answers
           \/ /\ Asks(h, m) /\ MulticastDue(h, m) = 0
              /\ claim' = [claim EXCEPT ![h].since = 0]
              /\ inbox' = Arrived(read, Message("response", m.name, h))
              /\ UNCHANGED answers
           \/ /\ Asks(h, m) /\ MulticastDue(h, m) > 0
              /\ answers' = [answers EXCEPT ![h] =
                                @ \cup {[name |-> m.name, due |-> MulticastDue(h, m)]}]
              /\ inbox' = read
              /\ UNCHANGED claim
           \/ /\ Loses(h, m)
              /\ Rename(h)
              /\ inbox' = read
              /\ UNCHANGED answers
           \/ /\ ~(Conflicts(h, m) \/ Asks(h, m) \/ Loses(h, m))
              /\ inbox' = read
              /\ UNCHANGED <<claim, answers>>
    /\ UNCHANGED <<requests, up, link, counts>>

-----------------------------------------------------------------------------
(* The responder ends, and another one is started *)

Ended(h) ==
    /\ Another
    /\ up' = up \ {h}
    /\ Drop(h)
    /\ answers' = [answers EXCEPT ![h] = {}]
    /\ requests' = [requests EXCEPT ![h] = <<>>]
    /\ UNCHANGED <<link, calls>>

\* A write fails, the process dies, or the goodbye takes more than its second.
Fail(h) ==
    /\ h \in up
    /\ Ended(h)
    /\ inbox' = [inbox EXCEPT ![h] = <<>>]

\* Close takes back the announced name.
Close(h) ==
    /\ h \in up
    /\ claim[h].phase \in Answering
    /\ Ended(h)
    /\ inbox' = [Arrived(inbox, Message("response", claim[h].current, h))
                    EXCEPT ![h] = <<>>]

New(h) ==
    /\ h \notin up
    /\ up' = up \cup {h}
    /\ UNCHANGED <<claim, answers, requests, inbox, link, counts>>

-----------------------------------------------------------------------------
(* The link, its other hosts, and time *)

Quiet == \A h \in Hosts : inbox[h] = <<>>

\* Nothing is left to do in this tick.
Calm ==
    /\ Quiet
    /\ \A h \in Hosts :
          /\ claim[h].deadline # 0
          /\ Due(h) = {}
          /\ requests[h] # <<>> => Head(requests[h]).left > 0

\* The hosts are apart for a while: a link that is down, or two networks that
\* are joined later.
Cut ==
    /\ Calm /\ ~cut
    /\ cut' = TRUE /\ split' = TRUE
    /\ Another
    /\ UNCHANGED <<claim, answers, requests, inbox, up, calls>>

Heal ==
    /\ Calm /\ cut
    /\ cut' = FALSE
    /\ UNCHANGED <<claim, answers, requests, inbox, up, split, counts>>

\* Somebody asks for an announced name that nobody is about to answer for.
Query(n) ==
    /\ Quiet
    /\ LET owners == {h \in Hosts : claim[h].phase \in Answering /\ claim[h].current = n}
       IN  owners # {} /\ \A h \in owners : answers[h] = {}
    /\ inbox' = Arrived(inbox, Message("query", n, NoHost))
    /\ UNCHANGED <<claim, answers, requests, up, link, counts>>

Later(n) == IF n > 0 THEN n - 1 ELSE n

Tick ==
    /\ Calm
    /\ claim' = [h \in Hosts |->
                    [claim[h] EXCEPT !.deadline = Later(@),
                                     !.since = IF @ < AnswerInterval THEN @ + 1 ELSE @]]
    /\ answers' = [h \in Hosts |-> {[a EXCEPT !.due = Later(@)] : a \in answers[h]}]
    /\ requests' = [h \in Hosts |->
                        [i \in DOMAIN requests[h] |-> [requests[h][i] EXCEPT !.left = Later(@)]]]
    /\ UNCHANGED <<inbox, up, link, counts>>

-----------------------------------------------------------------------------

Deadline(h) == SendProbe(h) \/ AskCoordinator(h) \/ AnnounceAgain(h) \/ SendAnswers(h)
Client(h) == Register(h) \/ Cancel(h) \/ Release(h)
Coordinated(h) == Prepared(h) \/ NotPrepared(h)

Next ==
    \/ \E h \in Hosts :
          \/ Client(h) \/ Deadline(h) \/ Coordinated(h) \/ Receive(h)
          \/ QueueFull(h) \/ Fail(h) \/ Close(h) \/ New(h)
    \/ \E n \in Names : Query(n)
    \/ Cut \/ Heal \/ Tick

Spec == Init /\ [][Next]_vars

\* The actor does what is due and reads its messages, Prepare returns, time
\* passes, the link comes back, and what is announced is asked for.
FairSpec ==
    /\ Spec
    /\ \A h \in Hosts :
          WF_vars(Deadline(h)) /\ WF_vars(Receive(h)) /\ WF_vars(Coordinated(h))
    /\ \A n \in Names : WF_vars(Query(n))
    /\ WF_vars(Tick) /\ SF_vars(Heal)

-----------------------------------------------------------------------------
(* Properties *)

Claims ==
    [phase : {"none", "wait"} \cup Probing \cup Answering,
     candidate : 0 .. MaxName, current : 0 .. MaxName, probes : 0 .. 3,
     deadline : Never .. AnnounceInterval, generation : Nat,
     since : 0 .. AnswerInterval, waiting : 0 .. MaxClients, held : 0 .. MaxClients]
Answers == [name : Names, due : 0 .. AnswerInterval]

\* Types, and that a claim is there exactly as long as somebody has or awaits
\* a registration of it, which nobody awaits of an active one.
TypeOK ==
    /\ claim \in [Hosts -> Claims]
    /\ \A h \in Hosts :
          /\ claim[h].phase = "none" <=> claim[h].waiting + claim[h].held = 0
          /\ claim[h].phase = "active" => claim[h].waiting = 0
    /\ answers \in [Hosts -> SUBSET Answers]
    /\ up \subseteq Hosts /\ cut \in BOOLEAN /\ split \in BOOLEAN

\* On a link that loses nothing, two hosts do not announce one name for longer
\* than their messages take to reach each other: probing, the comparison of
\* addresses and the defence of announced names let one of them through
\* (actor.go, probing.go, responding.go).
OneOwner ==
    /\ TypeOK
    /\ (~split /\ Quiet) =>
        \A g, h \in Hosts :
            (/\ g # h
             /\ claim[g].phase \in Answering
             /\ claim[h].phase \in Answering) => claim[g].current # claim[h].current

\* On such a link a host that has been given a name keeps it, however many
\* others try to claim it and whatever their addresses: nothing that comes
\* from them makes it take another.
KeepsName ==
    [][\A h \in Hosts :
        (~split /\ claim[h].held > 0 /\ claim[h].candidate = claim[h].current) =>
            claim'[h].candidate \in {claim[h].candidate, NoName}]_vars

\* A name is announced only after Prepare has succeeded for that very name,
\* although the claim may have moved on while Prepare ran.  This is said of the
\* first claim of a responder: generations start at 1 again with the next.
AnnouncesPrepared ==
    [][\A h \in Hosts :
        (/\ calls[h] = 1
         /\ claim[h].phase = "awaiting" /\ claim'[h].phase = "announcing") =>
            Head(requests[h]).name = claim[h].candidate]_vars

\* Every call of Register is answered, with a name or an error.
RegisterAnswered ==
    \A h \in Hosts : claim[h].waiting > 0 ~> claim[h].waiting = 0

Doubled(n) ==
    \E g, h \in Hosts :
        /\ g # h
        /\ claim[g].phase = "active" /\ claim[g].current = n
        /\ claim[h].phase = "active" /\ claim[h].current = n

\* Two hosts that came to own one name while they were apart do not keep it
\* both, once they hear each other and someone asks for that name.
DuplicatesResolved == \A n \in Names : Doubled(n) ~> ~Doubled(n)

=============================================================================
