--------------------------- MODULE MCRunLifecycle ---------------------------
(* RunLifecycle with a group of two services and runs of one service. *)
EXTENDS RunLifecycle, TLC

CONSTANTS Group, Single, h1, h2, h3, t1, t2, t3, o1, http

MCService(host, target) ==
    [host |-> host, owner |-> o1, wsl |-> Native, target |-> target,
     scheme |-> http, lan |-> FALSE, reuse |-> NoId]

\* The second service of the group and the other runs want the same name.
MCServices ==
    [r \in Runs |->
        CASE r = Group  -> <<MCService(h1, t1), MCService(h2, t2)>>
          [] r = Single -> <<MCService(h2, t3)>>
          [] OTHER      -> <<MCService(h2, t2)>>]

MCVariants == [p \in Hosts \X Owners |-> IF p[1] = h2 THEN <<h2, h3>> ELSE <<p[1], h3>>]

=============================================================================
