--------------------------- MODULE MCEdgeDispatch ---------------------------
(* Instances of EdgeDispatch for TLC. *)
EXTENDS EdgeDispatch

Names           == {"web", "db"}
BadServiceNames == {"", "my web"}

\* The paths of a set of routes, each parameter filled with each name; what
\* follows the first may be the name of a service.
Fill(rts) ==
    {[i \in DOMAIN rt.path |-> IF rt.path[i] # "*" THEN rt.path[i]
                               ELSE IF i = 3 THEN n ELSE m] :
        rt \in rts, n \in Names, m \in Names \cup BadServiceNames}

\* Paths with a segment too many after the second, where sub and the ID begin.
Longer(ps) == {SubSeq(p, 1, 2) \o <<p[2]>> \o SubSeq(p, 3, Len(p)) : p \in ps}

ContainerPaths == Fill(ContainerRoutes)
EdgePaths      == {<<"compose", "stop">>, <<"compose", "remove">>}

AllPaths == Fill(Routes) \cup EdgePaths
              \cup Longer(ContainerPaths) \cup Longer(Fill(StackRoutes))
=============================================================================
