----------------------------- MODULE Edge_proofs -----------------------------
(***************************************************************************)
(* Edge mode: the requests that are dispatched (EdgeDispatch) and the      *)
(* connection they come over (EdgeClient).                                 *)
(*                                                                         *)
(* ServedInv, which is DispatchInv with what an answer says, is an         *)
(* inductive invariant of EdgeDispatch, for any paths and any length of a  *)
(* stream.  That edge mode runs what direct mode does, or nothing, for     *)
(* every path that names nothing comes from it and from going through the  *)
(* two tables of routes once.                                              *)
(*                                                                         *)
(* EdgeInv is an inductive invariant of EdgeClient, for every number of    *)
(* connections and every set of requests; OneWriter, OneConnection and     *)
(* HeartbeatServes follow.  One lemma for each action, one step in it for  *)
(* each conjunct of EdgeInv.                                               *)
(***************************************************************************)
EXTENDS EdgeClient, EdgeDispatch, SequenceTheorems, TLAPS

-----------------------------------------------------------------------------
(* The routes: what the dispatchers find for a path.  Both are tables, and  *)
(* the lemmas go through them.                                              *)

\* Every operation that edge mode finds is one of direct mode.
LEMMA EdgeOpType == ASSUME NEW r PROVE EdgeOp(r).op \in Ops \cup {"none"}
<1> DEFINE Known == {rt.op : rt \in Routes}
<1>0. Known \subseteq Ops BY DEF Ops
<1>1. \A m, p, o : Route(m, p, o).op = o BY DEF Route
<1>2. \A o, a : Op(o, a).op = o BY DEF Op
<1>3. Nothing.op = "none" BY DEF Nothing, Op
<1>4. {rt.op : rt \in FixedRoutes} \subseteq Known BY DEF Routes
<1>5. {rt.op : rt \in ComposeRoutes} \subseteq Known BY DEF Routes
<1>6. {rt.op : rt \in ContainerRoutes} \subseteq Known BY DEF Routes
<1>7. {rt.op : rt \in StackRoutes} \subseteq Known BY DEF Routes
<1>8. {"ListContainers", "ListImages", "DeployCompose", "DeployComposeStreamed", "ListFiles",
       "ReadFile", "WriteFile", "DeleteFile", "GetHostInfo", "GetHostStats", "PullImage"}
      \subseteq Known
  <2>1. {"ListContainers", "ListImages", "DeployCompose", "DeployComposeStreamed", "ListFiles",
         "ReadFile", "WriteFile", "DeleteFile", "GetHostInfo", "GetHostStats", "PullImage"}
        \subseteq {rt.op : rt \in FixedRoutes}
    BY <1>1 DEF FixedRoutes
  <2>2. QED BY <1>4, <2>1
<1>9. {"StopCompose", "RemoveCompose"} \subseteq Known
  <2>1. {"StopCompose", "RemoveCompose"} \subseteq {rt.op : rt \in ComposeRoutes}
    BY <1>1 DEF ComposeRoutes
  <2>2. QED BY <1>5, <2>1
<1>10. {"InspectContainer", "StartContainer", "StopContainer", "RestartContainer",
        "RemoveContainer", "EditContainer", "GetContainerStats", "ContainerLogs",
        "StatsStream", "RemoveImage"} \subseteq Known
  <2>1. {"InspectContainer", "StartContainer", "StopContainer", "RestartContainer",
         "RemoveContainer", "EditContainer", "GetContainerStats", "ContainerLogs",
         "StatsStream", "RemoveImage"}
        \subseteq {rt.op : rt \in ContainerRoutes}
    BY <1>1 DEF ContainerRoutes
  <2>2. QED BY <1>6, <2>1
<1>11. \A rt \in EdgeStackRoutes : rt.op \in Known
  <2>1. ASSUME NEW rt \in EdgeStackRoutes
        PROVE  rt.op \in {s.op : s \in StackRoutes}
    <3>1. CASE \E a \in StackActions : rt = Route("POST", <<"stacks", "*", a[1]>>, a[2])
      <4>1. PICK a \in StackActions : rt.op = a[2] BY <1>1, <3>1
      <4>2. Route("POST", <<"docker", "stacks", "*", a[1]>>, a[2]) \in StackRoutes
        BY <4>1 DEF StackRoutes
      <4>3. QED BY <1>1, <4>1, <4>2
    <3>2. CASE \E a \in ServiceActions :
                 rt = Route("POST", <<"stacks", "*", "services", "*", a[1]>>, a[2])
      <4>1. PICK a \in ServiceActions : rt.op = a[2] BY <1>1, <3>2
      <4>2. Route("POST", <<"docker", "stacks", "*", "services", "*", a[1]>>, a[2])
     \in StackRoutes
        BY <4>1 DEF StackRoutes
      <4>3. QED BY <1>1, <4>1, <4>2
    <3>3. CASE rt.op \in {"ListStacks", "ListDockerNetworks", "GetGlobalEnv", "SetGlobalEnv",
                          "GetStackFull", "CreateStack", "UpdateStack", "StackDelete"}
      <4>1. Route("GET", <<"docker", "stacks">>, "ListStacks") \in StackRoutes
        BY DEF StackRoutes
      <4>2. Route("GET", <<"docker", "stacks", "meta", "networks">>, "ListDockerNetworks") \in StackRoutes
        BY DEF StackRoutes
      <4>3. Route("GET", <<"docker", "stacks", "meta", "globalenv">>, "GetGlobalEnv") \in StackRoutes
        BY DEF StackRoutes
      <4>4. Route("PUT", <<"docker", "stacks", "meta", "globalenv">>, "SetGlobalEnv") \in StackRoutes
        BY DEF StackRoutes
      <4>5. Route("GET", <<"docker", "stacks", "*">>, "GetStackFull") \in StackRoutes
        BY DEF StackRoutes
      <4>6. Route("POST", <<"docker", "stacks">>, "CreateStack") \in StackRoutes
        BY DEF StackRoutes
      <4>7. Route("PUT", <<"docker", "stacks", "*">>, "UpdateStack") \in StackRoutes
        BY DEF StackRoutes
      <4>8. Route("DELETE", <<"docker", "stacks", "*">>, "StackDelete") \in StackRoutes
        BY DEF StackRoutes
      <4>9. QED BY <1>1, <3>3, <4>1, <4>2, <4>3, <4>4, <4>5, <4>6, <4>7, <4>8
    <3>4. \/ \E a \in StackActions :
               rt = Route("POST", <<"stacks", "*", a[1]>>, a[2])
          \/ \E a \in ServiceActions :
               rt = Route("POST", <<"stacks", "*", "services", "*", a[1]>>, a[2])
          \/ rt \in {Route("GET", <<"stacks">>, "ListStacks"),
                     Route("GET", <<"stacks", "meta", "networks">>, "ListDockerNetworks"),
                     Route("GET", <<"stacks", "meta", "globalenv">>, "GetGlobalEnv"),
                     Route("PUT", <<"stacks", "meta", "globalenv">>, "SetGlobalEnv"),
                     Route("GET", <<"stacks", "*">>, "GetStackFull"),
                     Route("POST", <<"stacks">>, "CreateStack"),
                     Route("PUT", <<"stacks", "*">>, "UpdateStack"),
                     Route("DELETE", <<"stacks", "*">>, "StackDelete")}
      BY Zenon DEF EdgeStackRoutes
    <3>5. ASSUME rt \in {Route("GET", <<"stacks">>, "ListStacks"),
                     Route("GET", <<"stacks", "meta", "networks">>, "ListDockerNetworks"),
                     Route("GET", <<"stacks", "meta", "globalenv">>, "GetGlobalEnv"),
                     Route("PUT", <<"stacks", "meta", "globalenv">>, "SetGlobalEnv"),
                     Route("GET", <<"stacks", "*">>, "GetStackFull"),
                     Route("POST", <<"stacks">>, "CreateStack"),
                     Route("PUT", <<"stacks", "*">>, "UpdateStack"),
                     Route("DELETE", <<"stacks", "*">>, "StackDelete")}
          PROVE  rt.op \in {"ListStacks", "ListDockerNetworks", "GetGlobalEnv", "SetGlobalEnv",
                            "GetStackFull", "CreateStack", "UpdateStack", "StackDelete"}
      BY <1>1, <3>5
    <3>6. QED BY <3>1, <3>2, <3>3, <3>4, <3>5
  <2>2. QED BY <1>7, <2>1
<1> HIDE DEF Known
<1>12. ExactOp(r).op \in Known \cup {"none"}
  <2>1. \A rt \in EdgeExact : rt.op \in Known
    BY <1>1, <1>8, <1>9, <1>10 DEF EdgeExact
  <2>2. QED BY <1>2, <1>3, <2>1 DEF ExactOp
<1>13. StackOp(r).op \in Known \cup {"none"}
  BY <1>2, <1>3, <1>11 DEF StackOp, Checked
<1>14. ContainerOp(r).op \in Known \cup {"none"}
  <2>1. \A a \in ContainerReads : a[2] \in Known BY <1>10 DEF ContainerReads
  <2>2. \A a \in ContainerActions : a[2] \in Known BY <1>10 DEF ContainerActions
  <2>3. QED BY <1>2, <1>3, <1>10, <2>1, <2>2 DEF ContainerOp
<1>15. QED
  BY <1>0, <1>2, <1>10, <1>12, <1>13, <1>14 DEF EdgeOp

\* The direct routes with a parameter, and those of stacks and compose projects,
\* are for other requests than the fixed ones.
Named(rt) == \/ rt.path[2] \in {"compose", "stacks"}
             \/ rt.path[2] = "containers" /\ Len(rt.path) > 2
             \/ rt.path[2] = "images" /\ Len(rt.path) > 2 /\ rt.method = "DELETE"

LEMMA NamedRoutes ==
    \A rt \in Routes \ FixedRoutes : Named(rt)
<1>1. \A m, p, o : Route(m, p, o).path = p /\ Route(m, p, o).method = m BY DEF Route
<1>2. \A rt \in ComposeRoutes : Named(rt) BY <1>1 DEF ComposeRoutes, Named
<1>3. \A rt \in ContainerRoutes : Named(rt)
  <2>1. ASSUME NEW rt \in ContainerRoutes
        PROVE  \/ rt.path[2] = "containers" /\ Len(rt.path) > 2
               \/ rt = Route("DELETE", <<"docker", "images", "*">>, "RemoveImage")
    BY <1>1 DEF ContainerRoutes
  <2>2. ASSUME NEW rt, rt = Route("DELETE", <<"docker", "images", "*">>, "RemoveImage")
        PROVE  rt.path[2] = "images" /\ Len(rt.path) > 2 /\ rt.method = "DELETE"
    BY <1>1, <2>2
  <2>3. QED BY <2>1, <2>2 DEF Named
<1>4. ASSUME NEW rt \in StackRoutes PROVE Named(rt)
  <2>1. \/ \E a \in StackActions :
             rt = Route("POST", <<"docker", "stacks", "*", a[1]>>, a[2])
        \/ \E a \in ServiceActions :
             rt = Route("POST", <<"docker", "stacks", "*", "services", "*", a[1]>>, a[2])
        \/ \E m, o : \E p \in {<<"docker", "stacks">>, <<"docker", "stacks", "meta", "networks">>,
                               <<"docker", "stacks", "meta", "globalenv">>,
                               <<"docker", "stacks", "*">>} : rt = Route(m, p, o)
    BY Zenon DEF StackRoutes
  <2>2. \/ \E x : rt.path = <<"docker", "stacks", "*", x>>
        \/ \E x : rt.path = <<"docker", "stacks", "*", "services", "*", x>>
        \/ rt.path = <<"docker", "stacks">> \/ rt.path = <<"docker", "stacks", "*">>
        \/ rt.path = <<"docker", "stacks", "meta", "networks">>
        \/ rt.path = <<"docker", "stacks", "meta", "globalenv">>
    <3>1. CASE \E a \in StackActions :
                 rt = Route("POST", <<"docker", "stacks", "*", a[1]>>, a[2])
      BY <1>1, <3>1
    <3>2. CASE \E a \in ServiceActions :
                 rt = Route("POST", <<"docker", "stacks", "*", "services", "*", a[1]>>, a[2])
      BY <1>1, <3>2
    <3>3. ASSUME NEW m, NEW o,
                 NEW p \in {<<"docker", "stacks">>, <<"docker", "stacks", "meta", "networks">>,
                            <<"docker", "stacks", "meta", "globalenv">>,
                            <<"docker", "stacks", "*">>}, rt = Route(m, p, o)
          PROVE  rt.path = p
      BY <1>1, <3>3
    <3>4. QED BY <2>1, <3>1, <3>2, <3>3
  <2>3. rt.path[2] = "stacks" BY <2>2
  <2>4. QED BY <2>3 DEF Named
<1>5. QED BY <1>2, <1>3, <1>4 DEF Routes

\* The fixed routes.
Segments == {"docker", "containers", "images", "deploy", "compose", "stream", "files", "read",
             "write", "host", "info", "stats", "pull"}

Fixed(rt) == /\ rt.path \in Seq(Segments) /\ Len(rt.path) \in {2, 3}
             /\ \A i \in 1..Len(rt.path) : rt.path[i] # "*"
             /\ ~Named(rt) /\ rt.path[2] \notin {"compose", "stacks"}
             /\ rt.op # "none" /\ rt.op # "StackUpStreamed"
             /\ rt \in EdgeExact

LEMMA FixedRoute == \A rt \in FixedRoutes : Fixed(rt)
<1>1. ASSUME NEW m, NEW o, NEW p \in Seq(Segments), Len(p) \in {2, 3},
             p[2] \notin {"compose", "stacks"},
             Len(p) > 2 => p[2] # "containers" /\ (p[2] = "images" => m # "DELETE"),
             o \notin {"none", "StackUpStreamed"},
             Route(m, p, o) \in EdgeExact
      PROVE  Fixed(Route(m, p, o))
  <2>1. PICK rt : rt = Route(m, p, o) OBVIOUS
  <2>2. rt.path = p /\ rt.op = o /\ rt.method = m BY <2>1 DEF Route
  <2>3. \A i \in 1..Len(p) : p[i] # "*"
    <3>1. \A i \in 1..Len(p) : p[i] \in Segments OBVIOUS
    <3>2. QED BY <3>1 DEF Segments
  <2>4. Fixed(rt) BY <1>1, <2>1, <2>2, <2>3 DEF Fixed, Named
  <2>5. QED BY <2>1, <2>4
<1>2. Fixed(Route("GET", <<"docker", "containers">>, "ListContainers"))
  <2> DEFINE p == <<"docker", "containers">>
  <2>1. p \in Seq(Segments) /\ Len(p) = 2 /\ p[2] = "containers" BY DEF Segments
  <2>2. Route("GET", p, "ListContainers") \in EdgeExact
    BY DEF EdgeExact
  <2> HIDE DEF p
  <2>3. Len(p) \in {2, 3} /\ (Len(p) > 2 => p[2] \notin {"containers", "images"})
    BY <2>1
  <2>4. Fixed(Route("GET", p, "ListContainers")) BY <2>1, <2>2, <2>3, <1>1
  <2>5. QED BY <2>4 DEF p
<1>3. Fixed(Route("GET", <<"docker", "images">>, "ListImages"))
  <2> DEFINE p == <<"docker", "images">>
  <2>1. p \in Seq(Segments) /\ Len(p) = 2 /\ p[2] = "images" BY DEF Segments
  <2>2. Route("GET", p, "ListImages") \in EdgeExact
    BY DEF EdgeExact
  <2> HIDE DEF p
  <2>3. Len(p) \in {2, 3} /\ (Len(p) > 2 => p[2] \notin {"containers", "images"})
    BY <2>1
  <2>4. Fixed(Route("GET", p, "ListImages")) BY <2>1, <2>2, <2>3, <1>1
  <2>5. QED BY <2>4 DEF p
<1>4. Fixed(Route("POST", <<"docker", "deploy", "compose">>, "DeployCompose"))
  <2> DEFINE p == <<"docker", "deploy", "compose">>
  <2>1. p \in Seq(Segments) /\ Len(p) = 3 /\ p[2] = "deploy" BY DEF Segments
  <2>2. Route("POST", p, "DeployCompose") \in EdgeExact
    BY DEF EdgeExact
  <2> HIDE DEF p
  <2>3. Len(p) \in {2, 3} /\ (Len(p) > 2 => p[2] \notin {"containers", "images"})
    BY <2>1
  <2>4. Fixed(Route("POST", p, "DeployCompose")) BY <2>1, <2>2, <2>3, <1>1
  <2>5. QED BY <2>4 DEF p
<1>5. Fixed(Route("POST", <<"docker", "deploy", "stream">>, "DeployComposeStreamed"))
  <2> DEFINE p == <<"docker", "deploy", "stream">>
  <2>1. p \in Seq(Segments) /\ Len(p) = 3 /\ p[2] = "deploy" BY DEF Segments
  <2>2. Route("POST", p, "DeployComposeStreamed") \in EdgeExact
    BY DEF EdgeExact
  <2> HIDE DEF p
  <2>3. Len(p) \in {2, 3} /\ (Len(p) > 2 => p[2] \notin {"containers", "images"})
    BY <2>1
  <2>4. Fixed(Route("POST", p, "DeployComposeStreamed")) BY <2>1, <2>2, <2>3, <1>1
  <2>5. QED BY <2>4 DEF p
<1>6. Fixed(Route("GET", <<"docker", "files">>, "ListFiles"))
  <2> DEFINE p == <<"docker", "files">>
  <2>1. p \in Seq(Segments) /\ Len(p) = 2 /\ p[2] = "files" BY DEF Segments
  <2>2. Route("GET", p, "ListFiles") \in EdgeExact
    BY DEF EdgeExact
  <2> HIDE DEF p
  <2>3. Len(p) \in {2, 3} /\ (Len(p) > 2 => p[2] \notin {"containers", "images"})
    BY <2>1
  <2>4. Fixed(Route("GET", p, "ListFiles")) BY <2>1, <2>2, <2>3, <1>1
  <2>5. QED BY <2>4 DEF p
<1>7. Fixed(Route("GET", <<"docker", "files", "read">>, "ReadFile"))
  <2> DEFINE p == <<"docker", "files", "read">>
  <2>1. p \in Seq(Segments) /\ Len(p) = 3 /\ p[2] = "files" BY DEF Segments
  <2>2. Route("GET", p, "ReadFile") \in EdgeExact
    BY DEF EdgeExact
  <2> HIDE DEF p
  <2>3. Len(p) \in {2, 3} /\ (Len(p) > 2 => p[2] \notin {"containers", "images"})
    BY <2>1
  <2>4. Fixed(Route("GET", p, "ReadFile")) BY <2>1, <2>2, <2>3, <1>1
  <2>5. QED BY <2>4 DEF p
<1>8. Fixed(Route("POST", <<"docker", "files", "write">>, "WriteFile"))
  <2> DEFINE p == <<"docker", "files", "write">>
  <2>1. p \in Seq(Segments) /\ Len(p) = 3 /\ p[2] = "files" BY DEF Segments
  <2>2. Route("POST", p, "WriteFile") \in EdgeExact
    BY DEF EdgeExact
  <2> HIDE DEF p
  <2>3. Len(p) \in {2, 3} /\ (Len(p) > 2 => p[2] \notin {"containers", "images"})
    BY <2>1
  <2>4. Fixed(Route("POST", p, "WriteFile")) BY <2>1, <2>2, <2>3, <1>1
  <2>5. QED BY <2>4 DEF p
<1>9. Fixed(Route("DELETE", <<"docker", "files">>, "DeleteFile"))
  <2> DEFINE p == <<"docker", "files">>
  <2>1. p \in Seq(Segments) /\ Len(p) = 2 /\ p[2] = "files" BY DEF Segments
  <2>2. Route("DELETE", p, "DeleteFile") \in EdgeExact
    BY DEF EdgeExact
  <2> HIDE DEF p
  <2>3. Len(p) \in {2, 3} /\ (Len(p) > 2 => p[2] \notin {"containers", "images"})
    BY <2>1
  <2>4. Fixed(Route("DELETE", p, "DeleteFile")) BY <2>1, <2>2, <2>3, <1>1
  <2>5. QED BY <2>4 DEF p
<1>10. Fixed(Route("GET", <<"host", "info">>, "GetHostInfo"))
  <2> DEFINE p == <<"host", "info">>
  <2>1. p \in Seq(Segments) /\ Len(p) = 2 /\ p[2] = "info" BY DEF Segments
  <2>2. Route("GET", p, "GetHostInfo") \in EdgeExact
    BY DEF EdgeExact
  <2> HIDE DEF p
  <2>3. Len(p) \in {2, 3} /\ (Len(p) > 2 => p[2] \notin {"containers", "images"})
    BY <2>1
  <2>4. Fixed(Route("GET", p, "GetHostInfo")) BY <2>1, <2>2, <2>3, <1>1
  <2>5. QED BY <2>4 DEF p
<1>11. Fixed(Route("GET", <<"host", "stats">>, "GetHostStats"))
  <2> DEFINE p == <<"host", "stats">>
  <2>1. p \in Seq(Segments) /\ Len(p) = 2 /\ p[2] = "stats" BY DEF Segments
  <2>2. Route("GET", p, "GetHostStats") \in EdgeExact
    BY DEF EdgeExact
  <2> HIDE DEF p
  <2>3. Len(p) \in {2, 3} /\ (Len(p) > 2 => p[2] \notin {"containers", "images"})
    BY <2>1
  <2>4. Fixed(Route("GET", p, "GetHostStats")) BY <2>1, <2>2, <2>3, <1>1
  <2>5. QED BY <2>4 DEF p
<1>12. Fixed(Route("POST", <<"docker", "images", "pull">>, "PullImage"))
  <2> DEFINE p == <<"docker", "images", "pull">>
  <2>1. p \in Seq(Segments) /\ Len(p) = 3 /\ p[2] = "images" BY DEF Segments
  <2>2. Route("POST", p, "PullImage") \in EdgeExact
    BY DEF EdgeExact
  <2> HIDE DEF p
  <2>3. Len(p) \in {2, 3} /\ p[2] # "containers"
    BY <2>1
  <2>4. Fixed(Route("POST", p, "PullImage")) BY <2>1, <2>2, <2>3, <1>1
  <2>5. QED BY <2>4 DEF p
<1>13. QED
  BY <1>2, <1>3, <1>4, <1>5, <1>6, <1>7, <1>8, <1>9, <1>10, <1>11, <1>12 DEF FixedRoutes

\* One operation for a method and a path, in both tables.
LEMMA FixedOnce ==
    \A s, t \in EdgeExact : s.method = t.method /\ s.path = t.path => s.op = t.op
BY DEF EdgeExact, Route

\* Where the path names nothing, both modes find the same operation...
LEMMA FixedAsDirect ==
    ASSUME NEW r, NEW q \in FixedRoutes, q.method = r.method, q.path = r.path
    PROVE  /\ EdgeOp(r) = DirectOp(r)
           /\ DirectOp(r).op \notin {"none", "StackUpStreamed"}
           /\ DirectOp(r).args = <<>>
<1>2. PICK p \in Seq(Segments) : p = r.path /\ p = q.path /\ Len(p) \in {2, 3}
  BY FixedRoute DEF Fixed
<1>3. /\ p[2] \notin {"compose", "stacks"}
      /\ Len(p) > 2 => p[2] # "containers" /\ (p[2] = "images" => r.method # "DELETE")
  BY <1>2, FixedRoute DEF Fixed, Named
<1>4. ASSUME NEW rt \in Routes, Matches(rt.path, p), rt.method = r.method
      PROVE  rt \in FixedRoutes /\ rt.path = p
  <2>1. Len(rt.path) = Len(p) /\ \A i \in 1..Len(p) : rt.path[i] \in {"*", p[i]}
    BY <1>4 DEF Matches
  <2>2. 2 \in 1..Len(p)
    <3>1. \A m \in {2, 3} : 2 \in 1..m OBVIOUS
    <3>2. QED BY <1>2, <3>1
  <2>3. rt \in FixedRoutes
    <3> SUFFICES ASSUME rt \notin FixedRoutes PROVE FALSE OBVIOUS
    <3>1. Named(rt) BY NamedRoutes
    <3>2. rt.path[2] = p[2] BY <2>1, <2>2, <3>1 DEF Named
    <3>3. QED BY <1>3, <1>4, <2>1, <3>1, <3>2 DEF Named
  <2>4. rt.path \in Seq(Segments) /\ \A i \in 1..Len(rt.path) : rt.path[i] # "*"
    BY <2>3, FixedRoute DEF Fixed
  <2>5. \A i \in 1..Len(p) : rt.path[i] = p[i] BY <2>1, <2>4
  <2>6. rt.path = p BY <1>2, <2>1, <2>4, <2>5, SeqEqual
  <2>7. QED BY <2>3, <2>6
<1>5. PICK rt \in Routes :
         /\ rt.method = r.method /\ Matches(rt.path, p)
         /\ DirectOp(r) = Checked(Op(rt.op, Params(rt.path, p)))
  <2>1. Matches(q.path, p) BY <1>2 DEF Matches
  <2>2. q \in Routes BY DEF Routes
  <2>3. QED BY <1>2, <2>1, <2>2 DEF DirectOp
<1>6. rt \in FixedRoutes /\ rt.path = p BY <1>4, <1>5
<1>7. Fixed(rt) BY <1>6, FixedRoute
<1>8. Params(rt.path, p) = <<>>
  <2>1. {i \in 1..Len(rt.path) : rt.path[i] = "*"} = {} BY <1>7 DEF Fixed
  <2>2. QED BY <2>1 DEF Params
<1>9. DirectOp(r) = Op(rt.op, <<>>)
  <2>1. \A o : Op(o, <<>>).args = <<>> /\ Len(<<>>) # 2 BY DEF Op
  <2>2. \A o : Checked(Op(o, <<>>)) = Op(o, <<>>) BY <2>1 DEF Checked
  <2>3. QED BY <1>5, <1>8, <2>2
<1>10. ExactOp(r) = Op(rt.op, <<>>)
  <2> DEFINE these == {s \in EdgeExact : s.method = r.method /\ s.path = r.path}
  <2>1. rt \in these BY <1>2, <1>5, <1>6, <1>7 DEF Fixed
  <2>2. PICK s \in these : s = CHOOSE x \in these : TRUE BY <2>1
  <2>3. s.op = rt.op BY <2>1, <2>2, FixedOnce
  <2>4. QED BY <2>1, <2>2, <2>3 DEF ExactOp
<1>11. EdgeOp(r) = ExactOp(r)
  <2>1. SubSeq(p, 1, 2)[2] = p[2] BY <1>2
  <2>2. /\ <<"docker", "stacks">>[2] = "stacks" /\ <<"docker", "images">>[2] = "images"
        /\ <<"docker", "containers">>[2] = "containers"
    OBVIOUS
  <2>3. /\ SubSeq(p, 1, 2) # <<"docker", "stacks">>
        /\ Len(p) > 2 => SubSeq(p, 1, 2) # <<"docker", "containers">>
        /\ Len(p) > 2 /\ r.method = "DELETE" => SubSeq(p, 1, 2) # <<"docker", "images">>
    <3>1. PICK s : s = SubSeq(p, 1, 2) /\ s[2] = p[2] BY <2>1
    <3>2. s # <<"docker", "stacks">> BY <1>3, <2>2, <3>1
    <3>3. ASSUME Len(p) > 2
          PROVE  /\ s # <<"docker", "containers">>
                 /\ r.method = "DELETE" => s # <<"docker", "images">>
      BY <1>3, <2>2, <3>1, <3>3
    <3>4. QED BY <3>1, <3>2, <3>3
  <2>4. /\ ~Under(r, <<"docker", "containers">>)
        /\ ~(Under(r, <<"docker", "images">>) /\ r.method = "DELETE")
    BY <1>2, <2>3 DEF Under
  <2>5. QED BY <1>2, <2>3, <2>4 DEF EdgeOp
<1>12. DirectOp(r).op = rt.op /\ DirectOp(r).args = <<>> BY <1>9 DEF Op
<1>13. QED BY <1>7, <1>9, <1>10, <1>11, <1>12 DEF Fixed

\* ... or edge mode finds none: sub of a path of stacks that names nothing does
\* not begin with "stacks", and no exact route has a path of compose.
LEMMA MovedIsNothing ==
    ASSUME NEW r, NEW q \in ComposeRoutes \cup StackRoutes, q.path = r.path,
           \A i \in 1..Len(q.path) : q.path[i] # "*"
    PROVE  EdgeOp(r) = Nothing
<1>1. \A m, p, o : Route(m, p, o).path = p BY DEF Route
<1>2. CASE q \in ComposeRoutes
  <2>1. PICK x : r.path = <<"docker", "compose", x>>
    BY <1>1, <1>2 DEF ComposeRoutes
  <2>2. /\ SubSeq(r.path, 1, 2) # <<"docker", "stacks">>
        /\ SubSeq(r.path, 1, 2) # <<"docker", "containers">>
        /\ SubSeq(r.path, 1, 2) # <<"docker", "images">>
    <3>1. SubSeq(r.path, 1, 2)[2] = "compose" BY <2>1
    <3>2. /\ <<"docker", "stacks">>[2] = "stacks" /\ <<"docker", "images">>[2] = "images"
          /\ <<"docker", "containers">>[2] = "containers"
      OBVIOUS
    <3>3. PICK s : s = SubSeq(r.path, 1, 2) /\ s[2] = "compose" BY <3>1
    <3>4. QED BY <3>2, <3>3
  <2>3. EdgeOp(r) = ExactOp(r) BY <2>2 DEF EdgeOp, Under
  <2>4. \A rt \in EdgeExact : rt.path # r.path
    <3>1. r.path[2] = "compose" /\ Len(r.path) = 3 BY <2>1
    <3>2. \A rt \in EdgeExact : ~(rt.path[2] = "compose" /\ Len(rt.path) = 3)
      BY <1>1 DEF EdgeExact
    <3>3. QED BY <3>1, <3>2
  <2>5. QED BY <2>3, <2>4 DEF ExactOp
<1>3. CASE q \in StackRoutes
  <2>1. \/ r.path = <<"docker", "stacks">>
        \/ \E x : r.path = <<"docker", "stacks", "meta", x>>
    <3>1. \/ \E a \in StackActions :
               q = Route("POST", <<"docker", "stacks", "*", a[1]>>, a[2])
          \/ \E a \in ServiceActions :
               q = Route("POST", <<"docker", "stacks", "*", "services", "*", a[1]>>, a[2])
          \/ \E m, o : \E p \in {<<"docker", "stacks">>,
                                 <<"docker", "stacks", "meta", "networks">>,
                                 <<"docker", "stacks", "meta", "globalenv">>,
                                 <<"docker", "stacks", "*">>} : q = Route(m, p, o)
      BY <1>3, Zenon DEF StackRoutes
    <3>2. ASSUME NEW x, q.path = <<"docker", "stacks", "*", x>> PROVE FALSE
      <4>1. q.path[3] = "*" /\ 3 \in 1..Len(q.path) BY <3>2
      <4>2. QED BY <4>1
    <3>3. ASSUME NEW x, q.path = <<"docker", "stacks", "*", "services", "*", x>> PROVE FALSE
      <4>1. q.path[3] = "*" /\ 3 \in 1..Len(q.path) BY <3>3
      <4>2. QED BY <4>1
    <3>4. ASSUME q.path = <<"docker", "stacks", "*">> PROVE FALSE
      <4>1. q.path[3] = "*" /\ 3 \in 1..Len(q.path) BY <3>4
      <4>2. QED BY <4>1
    <3>5. CASE \E a \in StackActions :
                 q = Route("POST", <<"docker", "stacks", "*", a[1]>>, a[2])
      BY <1>1, <3>2, <3>5
    <3>6. CASE \E a \in ServiceActions :
                 q = Route("POST", <<"docker", "stacks", "*", "services", "*", a[1]>>, a[2])
      BY <1>1, <3>3, <3>6
    <3>7. ASSUME NEW m, NEW o,
                 NEW p \in {<<"docker", "stacks">>, <<"docker", "stacks", "meta", "networks">>,
                            <<"docker", "stacks", "meta", "globalenv">>,
                            <<"docker", "stacks", "*">>}, q = Route(m, p, o)
          PROVE  q.path = p
      BY <1>1, <3>7
    <3>8. QED BY <3>1, <3>4, <3>5, <3>6, <3>7
  <2>2. \A rt \in EdgeStackRoutes : Len(rt.path) \in Nat \ {0} /\ rt.path[1] = "stacks"
    <3>1. ASSUME NEW rt \in EdgeStackRoutes
          PROVE  \/ rt.path = <<"stacks">>
                 \/ \E x : rt.path = <<"stacks", x>>
                 \/ \E x, y : rt.path = <<"stacks", x, y>>
                 \/ \E x : rt.path = <<"stacks", "*", "services", "*", x>>
      <4>1. \/ \E a \in StackActions :
                 rt = Route("POST", <<"stacks", "*", a[1]>>, a[2])
            \/ \E a \in ServiceActions :
                 rt = Route("POST", <<"stacks", "*", "services", "*", a[1]>>, a[2])
            \/ \E m, o : \E p \in {<<"stacks">>, <<"stacks", "meta", "networks">>,
                                   <<"stacks", "meta", "globalenv">>,
                                   <<"stacks", "*">>} : rt = Route(m, p, o)
        BY Zenon DEF EdgeStackRoutes
      <4>2. CASE \E a \in StackActions :
                   rt = Route("POST", <<"stacks", "*", a[1]>>, a[2])
        BY <1>1, <4>2
      <4>3. CASE \E a \in ServiceActions :
                   rt = Route("POST", <<"stacks", "*", "services", "*", a[1]>>, a[2])
        BY <1>1, <4>3
      <4>4. ASSUME NEW m, NEW o,
                   NEW p \in {<<"stacks">>, <<"stacks", "meta", "networks">>,
                              <<"stacks", "meta", "globalenv">>, <<"stacks", "*">>},
                   rt = Route(m, p, o)
            PROVE  rt.path = p
        BY <1>1, <4>4
      <4>5. QED BY <4>1, <4>2, <4>3, <4>4
    <3>2. QED BY <3>1
  <2>3. PICK sub : /\ sub = SubSeq(r.path, 3, Len(r.path))
                   /\ sub = <<>> \/ (Len(sub) = 2 /\ sub[1] = "meta")
    <3>1. CASE r.path = <<"docker", "stacks">>
      <4>1. Len(r.path) = 2 BY <3>1
      <4>2. SubSeq(r.path, 3, 2) = <<>> BY SubSeqEmpty
      <4>3. QED BY <4>1, <4>2
    <3>2. ASSUME NEW x, r.path = <<"docker", "stacks", "meta", x>>
          PROVE  /\ Len(SubSeq(r.path, 3, Len(r.path))) = 2
                 /\ SubSeq(r.path, 3, Len(r.path))[1] = "meta"
      <4>1. Len(r.path) = 4 /\ r.path[3] = "meta" /\ r.path[4] = x BY <3>2
      <4>2. \A i \in 3..4 : i = 3 \/ i = 4 OBVIOUS
      <4>3. \A i \in 3..4 : r.path[i] \in {"meta", x} BY <4>1, <4>2
      <4>4. /\ Len(SubSeq(r.path, 3, 4)) = IF 3 <= 4 THEN 4 - 3 + 1 ELSE 0
            /\ \A i \in 1..(4 - 3 + 1) : SubSeq(r.path, 3, 4)[i] = r.path[3 + i - 1]
        BY <4>3, SubSeqProperties
      <4>5. 4 - 3 + 1 = 2 /\ 1 \in 1..(4 - 3 + 1) /\ 3 + 1 - 1 = 3 /\ 3 <= 4 OBVIOUS
      <4>6. QED BY <4>1, <4>4, <4>5
    <3>3. QED BY <2>1, <3>1, <3>2
  <2>4. \A rt \in EdgeStackRoutes : ~Matches(rt.path, sub)
    <3>1. Len(<<>>) = 0 /\ 1 \in 1..2 OBVIOUS
    <3>2. QED BY <2>2, <2>3, <3>1 DEF Matches
  <2>5. StackOp(r) = Nothing BY <2>3, <2>4 DEF StackOp
  <2>6. SubSeq(r.path, 1, 2) = <<"docker", "stacks">>
    <3>1. /\ 1 \in 1..Len(r.path) /\ 2 \in 1..Len(r.path)
          /\ r.path[1] = "docker" /\ r.path[2] = "stacks"
      <4>1. CASE r.path = <<"docker", "stacks">>
        <5>1. Len(r.path) = 2 /\ r.path[1] = "docker" /\ r.path[2] = "stacks" BY <4>1
        <5>2. 1 \in 1..2 /\ 2 \in 1..2 OBVIOUS
        <5>3. QED BY <5>1, <5>2
      <4>2. ASSUME NEW x, r.path = <<"docker", "stacks", "meta", x>>
            PROVE  /\ 1 \in 1..Len(r.path) /\ 2 \in 1..Len(r.path)
                   /\ r.path[1] = "docker" /\ r.path[2] = "stacks"
        <5>1. Len(r.path) = 4 /\ r.path[1] = "docker" /\ r.path[2] = "stacks" BY <4>2
        <5>2. 1 \in 1..4 /\ 2 \in 1..4 OBVIOUS
        <5>3. QED BY <5>1, <5>2
      <4>3. QED BY <2>1, <4>1, <4>2
    <3>2. \A i \in 1..2 : i = 1 \/ i = 2 OBVIOUS
    <3>3. \A i \in 1..2 : r.path[i] \in {"docker", "stacks"} BY <3>1, <3>2
    <3>4. PICK t \in Seq({"docker", "stacks"}) :
            /\ t = SubSeq(r.path, 1, 2)
            /\ Len(t) = IF 1 <= 2 THEN 2 - 1 + 1 ELSE 0
            /\ \A i \in 1..(2 - 1 + 1) : t[i] = r.path[1 + i - 1]
      <4>0. PICK S : S = {"docker", "stacks"} OBVIOUS
      <4>1. 1 \in Int /\ 2 \in Int /\ \A i \in 1..2 : r.path[i] \in S BY <3>3, <4>0
      <4>2. /\ SubSeq(r.path, 1, 2) \in Seq(S)
            /\ Len(SubSeq(r.path, 1, 2)) = IF 1 <= 2 THEN 2 - 1 + 1 ELSE 0
            /\ \A i \in 1..(2 - 1 + 1) : SubSeq(r.path, 1, 2)[i] = r.path[1 + i - 1]
        BY <4>1, SubSeqProperties
      <4>3. QED BY <4>0, <4>2
    <3>5. Len(t) = 2 /\ t[1] = "docker" /\ t[2] = "stacks"
      <4>1. /\ 2 - 1 + 1 = 2 /\ 1 <= 2 /\ 1 + 1 - 1 = 1 /\ 1 + 2 - 1 = 2
            /\ 1 \in 1..2 /\ 2 \in 1..2
        OBVIOUS
      <4>2. QED BY <3>1, <3>4, <4>1
    <3>6. PICK u \in Seq({"docker", "stacks"}) :
            u = <<"docker", "stacks">> /\ Len(u) = 2 /\ u[1] = "docker" /\ u[2] = "stacks"
      <4>1. <<"docker", "stacks">> \in Seq({"docker", "stacks"}) OBVIOUS
      <4>2. /\ Len(<<"docker", "stacks">>) = 2 /\ <<"docker", "stacks">>[1] = "docker"
            /\ <<"docker", "stacks">>[2] = "stacks"
        OBVIOUS
      <4>3. QED BY <4>1, <4>2
    <3>7. \A i \in 1..Len(t) : t[i] = u[i] BY <3>2, <3>5, <3>6
    <3>8. t = u BY <3>5, <3>6, <3>7, SeqEqual
    <3>9. QED BY <3>4, <3>6, <3>8
  <2>7. /\ <<"docker", "stacks">> # <<"docker", "containers">>
        /\ <<"docker", "stacks">> # <<"docker", "images">>
    OBVIOUS
  <2>8. ~Under(r, <<"docker", "containers">>) /\ ~Under(r, <<"docker", "images">>)
    BY <2>6, <2>7 DEF Under
  <2>9. QED BY <2>5, <2>6, <2>8 DEF EdgeOp
<1>4. QED BY <1>2, <1>3

-----------------------------------------------------------------------------
(* The frames: an open sequence has no end yet and its next chunk is k; a   *)
(* closed one has its end.                                                  *)

HeadOf(s)   == IF s # <<>> /\ s[1].kind = "head" THEN 1 ELSE 0
InOrder(s)  == \A i \in (HeadOf(s) + 1)..Len(s) : ~Final(s[i]) =>
                 s[i].kind = "chunk" /\ s[i].n = i - (HeadOf(s) + 1)
OpenAt(s, k) == /\ Len(s) = HeadOf(s) + k /\ InOrder(s)
                /\ \A i \in 1..Len(s) : ~Final(s[i])
Alone(s)    == \A i \in 1..Len(s) : s[i].kind = "answer" => Len(s) = 1
Closed(s)   == /\ s # <<>> /\ InOrder(s) /\ Alone(s)
               /\ \A i \in 1..Len(s) : Final(s[i]) <=> i = Len(s)
NoneOk(s)   == \A i \in 1..Len(s) : ~(s[i].kind = "answer" /\ s[i].ok)

LEMMA NothingSent == HeadOf(<<>>) = 0 /\ OpenAt(<<>>, 0)
BY DEF HeadOf, OpenAt, InOrder

\* A stream that has not ended has no answer in it.
LEMMA OpenHasNone ==
    ASSUME NEW s, NEW k, OpenAt(s, k)
    PROVE  NoneOk(s) /\ Alone(s)
BY DEF OpenAt, NoneOk, Alone, Final

\* A frame more.
LEMMA AddFrame ==
    ASSUME NEW s \in Seq(Frames), NEW f \in Frames
    PROVE  /\ Append(s, f) \in Seq(Frames) /\ Append(s, f) # <<>>
           /\ Len(Append(s, f)) = Len(s) + 1 /\ Len(s) \in Nat
           /\ \A i \in 1..Len(s) : Append(s, f)[i] = s[i]
           /\ Append(s, f)[Len(s) + 1] = f
OBVIOUS

LEMMA AddHead ==
    ASSUME NEW f \in Frames, f.kind = "head"
    PROVE  OpenAt(Append(<<>>, f), 0) /\ HeadOf(Append(<<>>, f)) = 1
<1>1. PICK s : s = Append(<<>>, f) /\ Len(s) = 1 /\ s[1] = f /\ s # <<>>
  <2>1. <<>> \in Seq(Frames) /\ Len(<<>>) = 0 OBVIOUS
  <2>2. /\ Len(Append(<<>>, f)) = Len(<<>>) + 1 /\ Append(<<>>, f)[Len(<<>>) + 1] = f
        /\ Append(<<>>, f) # <<>>
    BY <2>1, AddFrame
  <2>3. Len(<<>>) + 1 = 1 BY <2>1
  <2>4. QED BY <2>2, <2>3
<1>2. HeadOf(s) = 1 BY <1>1 DEF HeadOf
<1>3. OpenAt(s, 0) BY <1>1, <1>2 DEF OpenAt, InOrder, Final
<1>4. QED BY <1>1, <1>2, <1>3

LEMMA AddedHead ==
    ASSUME NEW s \in Seq(Frames), NEW f \in Frames,
           f.kind # "head"
    PROVE  HeadOf(Append(s, f)) = HeadOf(s) /\ HeadOf(s) \in {0, 1} /\ (s = <<>> => HeadOf(s) = 0)
<1>1. PICK t : t = Append(s, f) /\ t # <<>> /\ Len(t) = Len(s) + 1 /\ Len(s) \in Nat
               /\ (\A i \in 1..Len(s) : t[i] = s[i]) /\ t[Len(s) + 1] = f
  BY AddFrame
<1>2. CASE s = <<>>
  <2>1. Len(s) = 0 BY <1>2
  <2>2. t[1] = f BY <1>1, <2>1
  <2>3. QED BY <1>1, <1>2, <2>2 DEF HeadOf
<1>3. CASE s # <<>>
  <2>1. Len(s) # 0 BY <1>3, EmptySeq
  <2>2. t[1] = s[1] BY <1>1, <2>1
  <2>3. QED BY <1>1, <1>3, <2>2 DEF HeadOf
<1>4. QED BY <1>2, <1>3

LEMMA AddChunk ==
    ASSUME NEW s \in Seq(Frames), NEW f \in Frames, NEW k \in Nat,
           OpenAt(s, k), f.kind = "chunk", f.n = k
    PROVE  OpenAt(Append(s, f), k + 1)
<1>1. PICK t : t = Append(s, f) OBVIOUS
<1>2. PICK m \in Nat : /\ m = Len(s) /\ Len(t) = m + 1
                       /\ (\A i \in 1..m : t[i] = s[i]) /\ t[m + 1] = f
  BY <1>1, AddFrame
<1>3. PICK h \in {0, 1} : h = HeadOf(s) /\ h = HeadOf(t) BY <1>1, AddedHead
<1>4. m = h + k /\ \A i \in 1..m : ~Final(s[i]) BY <1>2, <1>3 DEF OpenAt
<1>5. ASSUME NEW i \in 1..(m + 1) PROVE ~Final(t[i])
  <2>1. i \in 1..m \/ i = m + 1 OBVIOUS
  <2>2. ~Final(f) BY DEF Final
  <2>3. QED BY <1>2, <1>4, <2>1, <2>2
<1>6. ASSUME NEW i \in (h + 1)..(m + 1) PROVE t[i].kind = "chunk" /\ t[i].n = i - (h + 1)
  <2>1. CASE i = m + 1
    <3>1. i - (h + 1) = k BY <1>4, <2>1
    <3>2. QED BY <1>2, <2>1, <3>1
  <2>2. CASE i # m + 1
    <3>1. i \in (h + 1)..m /\ i \in 1..m BY <2>2
    <3>2. s[i].kind = "chunk" /\ s[i].n = i - (h + 1)
      BY <1>2, <1>3, <1>4, <3>1 DEF OpenAt, InOrder
    <3>3. QED BY <1>2, <3>1, <3>2
  <2>3. QED BY <2>1, <2>2
<1>7. m + 1 = h + (k + 1) BY <1>4
<1>8. InOrder(t) BY <1>2, <1>3, <1>6 DEF InOrder
<1>9. QED BY <1>1, <1>2, <1>3, <1>5, <1>7, <1>8 DEF OpenAt

LEMMA AddEnd ==
    ASSUME NEW s \in Seq(Frames), NEW f \in Frames, NEW k \in Nat,
           OpenAt(s, k), Final(f), f.kind = "answer" => s = <<>>
    PROVE  Closed(Append(s, f))
<1>1. PICK t : t = Append(s, f) /\ t # <<>> BY AddFrame
<1>2. PICK m \in Nat : /\ m = Len(s) /\ Len(t) = m + 1
                       /\ (\A i \in 1..m : t[i] = s[i]) /\ t[m + 1] = f
  BY <1>1, AddFrame
<1>3. PICK h \in {0, 1} : h = HeadOf(s) /\ h = HeadOf(t)
  BY <1>1, AddedHead DEF Final
<1>4. \A i \in 1..m : ~Final(s[i]) BY <1>2 DEF OpenAt
<1>5. ASSUME NEW i \in 1..(m + 1) PROVE Final(t[i]) <=> i = m + 1
  <2>1. CASE i = m + 1 BY <1>2, <2>1
  <2>2. CASE i # m + 1
    <3>1. i \in 1..m BY <2>2
    <3>2. QED BY <1>2, <1>4, <2>2, <3>1
  <2>3. QED BY <2>1, <2>2
<1>6. ASSUME NEW i \in (h + 1)..(m + 1), ~Final(t[i])
      PROVE  t[i].kind = "chunk" /\ t[i].n = i - (h + 1)
  <2>1. i \in 1..(m + 1) OBVIOUS
  <2>2. i # m + 1 BY <1>5, <1>6, <2>1
  <2>3. i \in 1..m /\ i \in (h + 1)..m BY <2>2
  <2>4. s[i].kind = "chunk" /\ s[i].n = i - (h + 1)
    BY <1>2, <1>3, <1>4, <2>3 DEF OpenAt, InOrder
  <2>5. QED BY <1>2, <2>3, <2>4
<1>7. InOrder(t) BY <1>2, <1>3, <1>6 DEF InOrder
<1>8. Alone(t)
  <2>1. ASSUME NEW i \in 1..(m + 1), t[i].kind = "answer" PROVE m = 0
    <3>1. i = m + 1 BY <1>5, <2>1 DEF Final
    <3>2. s = <<>> BY <1>2, <2>1, <3>1
    <3>3. QED BY <1>2, <3>2
  <2>2. QED BY <1>2, <2>1 DEF Alone
<1>9. QED BY <1>1, <1>2, <1>5, <1>7, <1>8 DEF Closed

-----------------------------------------------------------------------------
(* The calls. *)

CallsOK(c)  == \A i \in 1..Len(c) : c[i].op \in Ops /\ c[i].ok \in BOOLEAN
AllOk(c)    == c # <<>> /\ \A i \in 1..Len(c) : c[i].ok
Early       == {"wait", "dispatch", "prepare", "call", "reload"}
Reading     == {"reload", "logs", "eof", "stats"}
Deploying   == {"events", "drain"}

\* The calls that fit a place and a deploy.
Fits(at, d, c) ==
    /\ at \in {"wait", "dispatch", "prepare"} => c = <<>>
    /\ at \notin {"wait", "dispatch", "end"} => ~Refused
    /\ at = "prepare" => Deploys
    /\ at = "call" => c = Beforehand
    /\ at \in Reading => ~Deploys /\ c = <<Ran(TRUE)>>
    /\ d = "none" => at \notin Deploying
    /\ d # "none" => at \in Deploying \cup {"end"} /\ ~Refused
    /\ d = "running" => c = Beforehand
    /\ d = "done" => \E ok \in BOOLEAN : c = AndRan(ok)
    /\ at = "end" /\ d = "none" =>
         \/ Refused /\ c = <<>>
         \/ ~Refused /\ (Failed(c) \/ (~Deploys /\ c = <<Ran(TRUE)>>))

LEMMA Lists ==
    /\ \A x : Len(<<x>>) = 1 /\ <<x>>[1] = x /\ <<x>> # <<>>
    /\ \A x, y : /\ Len(<<x, y>>) = 2 /\ <<x, y>>[1] = x /\ <<x, y>>[2] = y
                 /\ <<x, y>> # <<>>
    /\ (\A i \in 1..1 : i = 1) /\ \A i \in 1..2 : i = 1 \/ i = 2
OBVIOUS

LEMMA Appended ==
    ASSUME NEW x, NEW y
    PROVE  Append(<<>>, y) = <<y>> /\ Append(<<x>>, y) = <<x, y>>
<1> DEFINE S == {x, y}
<1>1. <<>> \in Seq(S) /\ <<x>> \in Seq(S) /\ <<y>> \in Seq(S) /\ <<x, y>> \in Seq(S) OBVIOUS
<1>2. /\ Append(<<x>>, y) \in Seq(S) /\ Append(<<>>, y) \in Seq(S)
      /\ Len(Append(<<x>>, y)) = 2 /\ Len(Append(<<>>, y)) = 1
      /\ Append(<<x>>, y)[1] = x /\ Append(<<x>>, y)[2] = y /\ Append(<<>>, y)[1] = y
  BY <1>1
<1>3. /\ Len(<<x, y>>) = 2 /\ <<x, y>>[1] = x /\ <<x, y>>[2] = y
      /\ Len(<<y>>) = 1 /\ <<y>>[1] = y
  OBVIOUS
<1>4. (\A i \in 1..1 : i = 1) /\ \A i \in 1..2 : i = 1 \/ i = 2 OBVIOUS
<1>5. Append(<<>>, y) = <<y>> BY <1>1, <1>2, <1>3, <1>4, SeqEqual
<1>6. Append(<<x>>, y) = <<x, y>> BY <1>1, <1>2, <1>3, <1>4, SeqEqual
<1>7. QED BY <1>5, <1>6

LEMMA CallsTyped ==
    ASSUME NEW ok \in BOOLEAN, ~Refused
    PROVE  /\ CallsOK(<<>>) /\ CallsOK(<<Prepared(ok)>>) /\ CallsOK(AndRan(ok))
           /\ CallsOK(<<Ran(ok)>>) /\ CallsOK(<<Ran(TRUE), Ran(ok)>>)
<1>1. EdgeOp(request).op \in Ops BY EdgeOpType DEF Refused
<1>2. {"SaveStack", "GetStack"} \subseteq Ops BY DEF Ops
<1>3. \A b \in BOOLEAN : /\ Prepared(b).op \in Ops /\ Prepared(b).ok = b
                         /\ Ran(b).op \in Ops /\ Ran(b).ok = b
  BY <1>1, <1>2 DEF Prepared, Ran
<1>4. AndRan(ok) \in {<<Ran(ok)>>, <<Prepared(TRUE), Ran(ok)>>}
  BY DEF AndRan
<1>5. CallsOK(<<>>) BY DEF CallsOK
<1>6. ASSUME NEW x, x.op \in Ops, x.ok \in BOOLEAN PROVE CallsOK(<<x>>)
  <2>1. PICK c : c = <<x>> /\ Len(c) = 1 /\ c[1] = x BY Lists
  <2>2. CallsOK(c) BY <1>6, <2>1, Lists DEF CallsOK
  <2>3. QED BY <2>1, <2>2
<1>7. ASSUME NEW x, x.op \in Ops, x.ok \in BOOLEAN, NEW y, y.op \in Ops, y.ok \in BOOLEAN
      PROVE  CallsOK(<<x, y>>)
  <2> DEFINE c == <<x, y>>
  <2>1. Len(c) = 2 /\ c[1] = x /\ c[2] = y OBVIOUS
  <2> HIDE DEF c
  <2>2. CallsOK(c) BY <1>7, <2>1, Lists DEF CallsOK
  <2>3. QED BY <2>2 DEF c
<1>8. QED BY <1>3, <1>4, <1>5, <1>6, <1>7

LEMMA RanOk == AllOk(<<Ran(TRUE)>>)
<1>1. PICK c : c = <<Ran(TRUE)>> /\ Len(c) = 1 /\ c[1] = Ran(TRUE) /\ c # <<>> BY Lists
<1>2. Ran(TRUE).ok BY DEF Ran
<1>3. AllOk(c) BY <1>1, <1>2, Lists DEF AllOk
<1>4. QED BY <1>1, <1>3

\* A call more.
LEMMA CallAdded ==
    ASSUME NEW ok \in BOOLEAN, Called(EdgeOp(request), ok)
    PROVE  /\ calls = Beforehand => calls' = AndRan(ok)
           /\ calls = <<Ran(TRUE)>> => calls' = <<Ran(TRUE), Ran(ok)>>
<1>1. calls' = Append(calls, Ran(ok)) BY DEF Called, Ran
<1>2. QED BY <1>1, Appended DEF Beforehand, AndRan

\* What is kept: DispatchInv, and what an answer says.
ServedInv == DispatchInv /\ OkIsDone

\* The invariant, by frames and calls.
LEMMA DispatchParts ==
    ASSUME ServedInv
    PROVE  /\ request \in Requests \cup {NoReq} /\ place \in Pcs
           /\ deploy \in {"none", "running", "done"}
           /\ sent \in Seq(Frames) /\ chunk \in 0..MaxChunks /\ gone \in BOOLEAN
           /\ CallsOK(calls) /\ Fits(place, deploy, calls)
           /\ deploy # "none" <=> HeadOf(sent) = 1
           /\ place # "end" => OpenAt(sent, chunk)
           /\ place = "end" => Closed(sent)
           /\ place \in Early => sent = <<>>
           /\ AllOk(calls) \/ NoneOk(sent)
<1>0. DispatchTypeOK /\ AnsweredOnce /\ OkIsDone /\ InStep
  BY DEF DispatchInv, ServedInv
<1>1. /\ request \in Requests \cup {NoReq} /\ place \in Pcs
      /\ deploy \in {"none", "running", "done"}
      /\ sent \in Seq(Frames) /\ chunk \in 0..MaxChunks /\ gone \in BOOLEAN
      /\ CallsOK(calls)
  BY <1>0 DEF DispatchTypeOK, CallsOK
<1>2. Fits(place, deploy, calls) /\ (deploy # "none" <=> HeadOf(sent) = 1)
  BY <1>0 DEF InStep, Fits, Reading, Deploying, Heads, HeadOf
<1>3. place \in Early => sent = <<>> BY <1>0 DEF InStep, Early
<1>4. AllOk(calls) \/ NoneOk(sent) BY <1>0 DEF OkIsDone, AllOk, NoneOk
<1>5. InOrder(sent)
  <2>1. CASE sent # <<>> /\ sent[1].kind = "head"
    <3>1. HeadOf(sent) = 1 BY <2>1 DEF HeadOf
    <3>2. \A i \in 2..Len(sent) : ~Final(sent[i]) =>
            sent[i].kind = "chunk" /\ sent[i].n = i - 2
      BY <1>0, <2>1 DEF AnsweredOnce
    <3>3. QED BY <3>1, <3>2 DEF InOrder
  <2>2. CASE ~(sent # <<>> /\ sent[1].kind = "head")
    <3>1. HeadOf(sent) = 0 BY <2>2 DEF HeadOf
    <3>2. \A i \in 1..Len(sent) : ~Final(sent[i]) =>
            sent[i].kind = "chunk" /\ sent[i].n = i - 1
      BY <1>0, <2>2 DEF AnsweredOnce
    <3>3. QED BY <3>1, <3>2 DEF InOrder
  <2>3. QED BY <2>1, <2>2
<1>6. /\ \A i \in 1..Len(sent) : Final(sent[i]) <=> (i = Len(sent) /\ place = "end")
      /\ Alone(sent)
  BY <1>0 DEF AnsweredOnce, Alone
<1>7. ASSUME place # "end" PROVE OpenAt(sent, chunk)
  <2>1. Len(sent) = HeadOf(sent) + chunk
    BY <1>0, <1>7 DEF InStep, Heads, HeadOf
  <2>2. QED BY <1>5, <1>6, <1>7, <2>1 DEF OpenAt
<1>8. ASSUME place = "end" PROVE Closed(sent)
  BY <1>0, <1>5, <1>6, <1>8 DEF Closed, AnsweredOnce
<1>9. QED BY <1>1, <1>2, <1>3, <1>4, <1>7, <1>8

\* And what a step must show for it.
LEMMA DispatchKept ==
    ASSUME request \in Requests \cup {NoReq}, request' = request,
           place' \in Pcs, gone' \in BOOLEAN, deploy' \in {"none", "running", "done"},
           sent' \in Seq(Frames), chunk' \in 0..MaxChunks,
           CallsOK(calls'), Fits(place', deploy', calls'),
           deploy' # "none" <=> HeadOf(sent') = 1,
           place' # "end" => OpenAt(sent', chunk'), place' = "end" => Closed(sent'),
           place' \in Early => sent' = <<>>,
           AllOk(calls') \/ NoneOk(sent')
    PROVE  ServedInv'
<1>1. DispatchTypeOK' BY DEF DispatchTypeOK, CallsOK
<1>2. OkIsDone' BY DEF OkIsDone, AllOk, NoneOk
<1>3. AnsweredOnce'
  <2>1. \A i \in 1..Len(sent') : Final(sent'[i]) <=> (i = Len(sent') /\ place' = "end")
    BY DEF OpenAt, Closed
  <2>2. place' = "end" => sent' # <<>> BY DEF Closed
  <2>3. InOrder(sent') BY DEF OpenAt, Closed
  <2>4. \A i \in 1..Len(sent') : sent'[i].kind = "answer" => Len(sent') = 1
    <3>1. Alone(sent') BY OpenHasNone DEF Closed
    <3>2. QED BY <3>1 DEF Alone
  <2>5. CASE sent' # <<>> /\ sent'[1].kind = "head"
    <3>1. HeadOf(sent') = 1 BY <2>5 DEF HeadOf
    <3>2. \A i \in 2..Len(sent') : ~Final(sent'[i]) =>
            sent'[i].kind = "chunk" /\ sent'[i].n = i - 2
      BY <2>3, <3>1 DEF InOrder
    <3>3. QED BY <2>1, <2>2, <2>4, <2>5, <3>2 DEF AnsweredOnce
  <2>6. CASE ~(sent' # <<>> /\ sent'[1].kind = "head")
    <3>1. HeadOf(sent') = 0 BY <2>6 DEF HeadOf
    <3>2. \A i \in 1..Len(sent') : ~Final(sent'[i]) =>
            sent'[i].kind = "chunk" /\ sent'[i].n = i - 1
      BY <2>3, <3>1 DEF InOrder
    <3>3. QED BY <2>1, <2>2, <2>4, <2>6, <3>2 DEF AnsweredOnce
  <2>7. QED BY <2>5, <2>6
<1>4. InStep'
  <2>1. /\ place' # "end" => Len(sent') = Heads' + chunk'
        /\ deploy' # "none" <=> Heads' = 1
    BY DEF OpenAt, HeadOf, Heads
  <2>2. /\ Refused' = Refused /\ Deploys' = Deploys /\ Beforehand' = Beforehand
        /\ \A b : Ran(b)' = Ran(b)
        /\ \A b : AndRan(b)' = AndRan(b)
        /\ Failed(calls)' = Failed(calls')
    BY DEF Refused, Deploys, Prepared, AndRan, Ran, Beforehand, Failed
  <2>3. QED BY <2>1, <2>2 DEF InStep, Fits, Early, Reading, Deploying
<1>5. QED BY <1>1, <1>2, <1>3, <1>4 DEF DispatchInv, ServedInv

-----------------------------------------------------------------------------
(* The steps.  Frames first: each kind is one, and what sending it does.     *)

LEMMA Bounds == MaxChunks \in Nat /\ 0 \in 0..MaxChunks /\ TRUE \in BOOLEAN
BY EdgeDispatchAssumption

\* A final frame, an answer or an end.
LEMMA Finishing ==
    ASSUME sent \in Seq(Frames), chunk \in 0..MaxChunks,
           OpenAt(sent, chunk), NEW ok \in BOOLEAN,
           (sent = <<>> /\ Respond(ok)) \/ End(ok)
    PROVE  /\ place' = "end" /\ Closed(sent') /\ sent' \in Seq(Frames)
           /\ HeadOf(sent') = HeadOf(sent)
           /\ ~ok \/ End(ok) => NoneOk(sent')
<1>1. PICK f \in Frames :
         /\ sent' = Append(sent, f) /\ Final(f) /\ f.ok = ok /\ place' = "end"
         /\ f.kind = "answer" => sent = <<>>
         /\ End(ok) => f.kind = "end"
  <2>1. ASSUME NEW kind \in {"answer", "end"}
        PROVE  /\ Frame(kind, ok, 0, TRUE) \in Frames
               /\ Frame(kind, ok, 0, TRUE).kind = kind
               /\ Frame(kind, ok, 0, TRUE).ok = ok
    BY Bounds DEF Frame, Frames
  <2>2. CASE End(ok)
    <3>1. sent' = Append(sent, Frame("end", ok, 0, TRUE)) /\ place' = "end"
      BY <2>2 DEF End, Send, Move
    <3>2. QED BY <2>1, <3>1 DEF Final
  <2>3. CASE ~End(ok) /\ sent = <<>> /\ Respond(ok)
    <3>1. sent' = Append(sent, Frame("answer", ok, 0, TRUE)) /\ place' = "end"
      BY <2>3 DEF Respond, Send, Move
    <3>2. QED BY <2>1, <2>3, <3>1 DEF Final
  <2>4. QED BY <2>2, <2>3
<1>2. chunk \in Nat BY Bounds
<1>3. Closed(sent') BY <1>1, <1>2, AddEnd
<1>4. /\ sent' \in Seq(Frames) /\ Len(sent') = Len(sent) + 1 /\ Len(sent) \in Nat
      /\ (\A i \in 1..Len(sent) : sent'[i] = sent[i]) /\ sent'[Len(sent) + 1] = f
  BY <1>1, AddFrame
<1>5. HeadOf(sent') = HeadOf(sent) BY <1>1, AddedHead DEF Final
<1>6. ASSUME ~ok \/ End(ok) PROVE NoneOk(sent')
  <2>1. \A i \in 1..(Len(sent) + 1) : i \in 1..Len(sent) \/ i = Len(sent) + 1 BY <1>4
  <2>2. NoneOk(sent) BY OpenHasNone
  <2>3. ~(f.kind = "answer" /\ f.ok) BY <1>1, <1>6
  <2>4. QED BY <1>4, <2>1, <2>2, <2>3 DEF NoneOk
<1>7. QED BY <1>1, <1>3, <1>4, <1>5, <1>6

\* A chunk.
LEMMA Chunking ==
    ASSUME sent \in Seq(Frames), chunk \in 0..MaxChunks,
           OpenAt(sent, chunk), NEW json \in BOOLEAN, Chunk(json)
    PROVE  /\ sent' \in Seq(Frames) /\ OpenAt(sent', chunk') /\ chunk' \in 0..MaxChunks
           /\ HeadOf(sent') = HeadOf(sent)
<1>1. PICK f \in Frames : sent' = Append(sent, f) /\ f.kind = "chunk" /\ f.n = chunk
  <2>1. sent' = Append(sent, Frame("chunk", TRUE, chunk, json))
    BY DEF Chunk, Send
  <2>2. PICK f : f = Frame("chunk", TRUE, chunk, json) OBVIOUS
  <2>3. f \in Frames /\ f.kind = "chunk" /\ f.n = chunk BY <2>2, Bounds DEF Frame, Frames
  <2>4. QED BY <2>1, <2>2, <2>3
<1>2. chunk \in Nat /\ chunk' = chunk + 1 /\ chunk + 1 \in 0..MaxChunks
  BY Bounds DEF Chunk
<1>3. OpenAt(sent', chunk + 1) BY <1>1, <1>2, AddChunk
<1>4. HeadOf(sent') = HeadOf(sent) BY <1>1, AddedHead
<1>5. QED BY <1>1, <1>2, <1>3, <1>4, AddFrame

LEMMA InitDispatch == DispatchInit => ServedInv
<1> SUFFICES ASSUME DispatchInit PROVE ServedInv
  OBVIOUS
<1> USE DEF DispatchInit
<1>1. DispatchTypeOK
  <2>1. <<>> \in Seq(Frames) /\ Len(<<>>) = 0 OBVIOUS
  <2>2. chunk \in 0..MaxChunks /\ gone \in BOOLEAN BY Bounds
  <2>3. \A i \in 1..Len(calls) : calls[i].op \in Ops /\ calls[i].ok \in BOOLEAN
    BY <2>1
  <2>4. request \in Requests \cup {NoReq} OBVIOUS
  <2>5. QED BY <2>1, <2>2, <2>3, <2>4 DEF DispatchTypeOK, Pcs
<1>2. AnsweredOnce BY DEF AnsweredOnce
<1>3. OkIsDone BY DEF OkIsDone
<1>4. InStep BY DEF InStep, Heads
<1>5. QED BY <1>1, <1>2, <1>3, <1>4 DEF DispatchInv, ServedInv

\* A step that finishes the request, with an answer or an end.
LEMMA EndKept ==
    ASSUME ServedInv, place # "end", UNCHANGED <<request, deploy, gone, chunk>>,
           NEW ok \in BOOLEAN, (sent = <<>> /\ Respond(ok)) \/ End(ok),
           CallsOK(calls'), Fits("end", deploy, calls'),
           AllOk(calls') \/ ~ok \/ End(ok)
    PROVE  ServedInv'
<1>1. /\ request \in Requests \cup {NoReq} /\ sent \in Seq(Frames)
      /\ deploy \in {"none", "running", "done"}
      /\ chunk \in 0..MaxChunks /\ gone \in BOOLEAN /\ OpenAt(sent, chunk)
      /\ deploy # "none" <=> HeadOf(sent) = 1
  BY DispatchParts
<1>2. /\ place' = "end" /\ Closed(sent') /\ sent' \in Seq(Frames)
      /\ HeadOf(sent') = HeadOf(sent) /\ (~ok \/ End(ok) => NoneOk(sent'))
  BY <1>1, Finishing
<1>3. AllOk(calls') \/ NoneOk(sent') BY <1>2
<1>4. place' \in Pcs /\ place' \notin Early BY <1>2 DEF Pcs, Early
<1>5. QED BY <1>1, <1>2, <1>3, <1>4, DispatchKept

\* A step after which it goes on: with a chunk more, or none.
LEMMA GoOnKept ==
    ASSUME ServedInv, place # "end", UNCHANGED <<request, deploy, gone>>,
           place' \in Pcs \ {"end"}, place' \in Early => sent' = <<>>,
           (\E json \in BOOLEAN : Chunk(json)) \/ UNCHANGED <<sent, chunk>>,
           CallsOK(calls'), Fits(place', deploy, calls')
    PROVE  ServedInv'
<1>1. /\ request \in Requests \cup {NoReq} /\ sent \in Seq(Frames)
      /\ deploy \in {"none", "running", "done"}
      /\ chunk \in 0..MaxChunks /\ gone \in BOOLEAN /\ OpenAt(sent, chunk)
      /\ deploy # "none" <=> HeadOf(sent) = 1
  BY DispatchParts
<1>2. /\ sent' \in Seq(Frames) /\ OpenAt(sent', chunk') /\ chunk' \in 0..MaxChunks
      /\ HeadOf(sent') = HeadOf(sent)
  <2>1. CASE \E json \in BOOLEAN : Chunk(json) BY <1>1, <2>1, Chunking
  <2>2. CASE UNCHANGED <<sent, chunk>> BY <1>1, <2>2
  <2>3. QED BY <2>1, <2>2
<1>3. NoneOk(sent') BY <1>2, OpenHasNone
<1>4. QED BY <1>1, <1>2, <1>3, DispatchKept

LEMMA DispatchReceiveStep == ASSUME ServedInv, ReceiveRequest PROVE ServedInv'
<1>1. /\ sent = <<>> /\ calls = <<>> /\ OpenAt(sent, chunk) /\ deploy = "none"
      /\ chunk \in 0..MaxChunks /\ gone \in BOOLEAN /\ sent \in Seq(Frames)
  BY DispatchParts DEF ReceiveRequest, Fits, Early, Deploying
<1>2. /\ request' \in Requests /\ place' = "dispatch"
      /\ UNCHANGED <<calls, deploy, sent, chunk, gone>>
  BY DEF ReceiveRequest, Move
<1>3. chunk = 0
  <2>1. Len(sent) = 0 /\ HeadOf(sent) = 0 BY <1>1, NothingSent
  <2>2. Len(sent) = HeadOf(sent) + chunk BY <1>1 DEF OpenAt
  <2>3. QED BY <1>1, <2>1, <2>2
<1>4. DispatchTypeOK' BY <1>1, <1>2 DEF DispatchTypeOK, Pcs
<1>5. AnsweredOnce' BY <1>1, <1>2 DEF AnsweredOnce
<1>6. OkIsDone' BY <1>1, <1>2 DEF OkIsDone
<1>7. InStep' BY <1>1, <1>2, <1>3 DEF InStep, Heads
<1>8. QED BY <1>4, <1>5, <1>6, <1>7 DEF DispatchInv, ServedInv

\* Before anything is sent there is no deploy.
LEMMA EarlyHasNone ==
    ASSUME ServedInv, place \in Early
    PROVE  /\ sent = <<>> /\ deploy = "none" /\ place # "end" /\ CallsOK(calls)
           /\ Fits(place, deploy, calls)
BY DispatchParts DEF Fits, Early, Deploying

LEMMA DispatchDispatchStep == ASSUME ServedInv, Dispatch PROVE ServedInv'
<1>0. place = "dispatch" /\ UNCHANGED <<request, deploy, gone, calls, chunk>>
  BY DEF Dispatch, At
<1>1. sent = <<>> /\ deploy = "none" /\ calls = <<>> /\ CallsOK(calls)
  BY <1>0, EarlyHasNone DEF Fits, Early
<1>2. CASE Refused /\ Refuse
  <2>1. Fits("end", deploy, calls') BY <1>0, <1>1, <1>2 DEF Fits, Reading, Deploying
  <2>2. QED BY <1>0, <1>1, <1>2, <2>1, EndKept DEF Refuse
<1>3. CASE /\ ~Refused /\ UNCHANGED sent
           /\ Move(IF Deploys THEN "prepare" ELSE "call")
  <2>1. place' = IF Deploys THEN "prepare" ELSE "call" BY <1>3 DEF Move
  <2>2. Fits(place', deploy, calls')
    BY <1>0, <1>1, <1>3, <2>1 DEF Fits, Reading, Deploying, Beforehand
  <2>3. place' \in Pcs \ {"end"} BY <2>1 DEF Pcs
  <2>4. QED BY <1>0, <1>1, <1>3, <2>2, <2>3, GoOnKept
<1>4. QED BY <1>2, <1>3 DEF Dispatch

LEMMA DispatchPrepareStep == ASSUME ServedInv, Prepare PROVE ServedInv'
<1>0. place = "prepare" /\ UNCHANGED <<request, deploy, gone, chunk>>
  BY DEF Prepare, At
<1>1. sent = <<>> /\ deploy = "none" /\ calls = <<>> /\ ~Refused /\ Deploys
  BY <1>0, EarlyHasNone DEF Fits, Early
<1>2. PICK ok \in BOOLEAN :
         /\ Called(Op(IF request.body = "full" THEN "SaveStack" ELSE "GetStack",
                      EdgeOp(request).args), ok)
         /\ \/ ok /\ Move("call") /\ UNCHANGED sent
            \/ ~ok /\ Respond(FALSE)
  BY DEF Prepare
<1>3. calls' = <<Prepared(ok)>>
  BY <1>1, <1>2, Appended DEF Called, Op, Prepared
<1>4. CallsOK(calls') BY <1>1, <1>3, CallsTyped
<1>5. CASE ok /\ Move("call") /\ UNCHANGED sent
  <2>1. place' = "call" /\ ok = TRUE BY <1>5 DEF Move
  <2>2. Fits(place', deploy, calls')
    BY <1>1, <1>3, <2>1 DEF Fits, Reading, Deploying, Beforehand
  <2>3. place' \in Pcs \ {"end"} BY <2>1 DEF Pcs
  <2>4. QED BY <1>0, <1>1, <1>4, <1>5, <2>2, <2>3, GoOnKept
<1>6. CASE ~ok /\ Respond(FALSE)
  <2>1. Failed(calls') BY <1>1, <1>3, <1>6 DEF Failed
  <2>2. Fits("end", deploy, calls') BY <1>1, <2>1 DEF Fits, Reading, Deploying
  <2>3. QED BY <1>0, <1>1, <1>4, <1>6, <2>2, EndKept
<1>7. QED BY <1>2, <1>5, <1>6

\* The goroutine of a deploy is begun with the head of its stream.
LEMMA StartDeployStep == ASSUME ServedInv, StartDeploy PROVE ServedInv'
<1>0. /\ place = "call" /\ deploy' = "running" /\ place' = "events"
      /\ Send(Frame("head", TRUE, 0, TRUE)) /\ UNCHANGED <<request, calls, chunk, gone>>
  BY DEF StartDeploy, Move
<1>1. /\ sent = <<>> /\ ~Refused /\ calls = Beforehand /\ CallsOK(calls)
      /\ OpenAt(sent, chunk) /\ request \in Requests \cup {NoReq}
      /\ chunk \in 0..MaxChunks /\ gone \in BOOLEAN /\ sent \in Seq(Frames)
  BY <1>0, DispatchParts DEF Fits, Early
<1>2. PICK f : f = Frame("head", TRUE, 0, TRUE) OBVIOUS
<1>3. f \in Frames /\ f.kind = "head" BY <1>2, Bounds DEF Frame, Frames
<1>4. sent' = Append(<<>>, f) BY <1>0, <1>1, <1>2 DEF Send
<1>5. chunk' = 0
  <2>1. Len(sent) = 0 /\ HeadOf(sent) = 0 BY <1>1, NothingSent
  <2>2. Len(sent) = HeadOf(sent) + chunk BY <1>1 DEF OpenAt
  <2>3. QED BY <1>0, <1>1, <2>1, <2>2
<1>6. OpenAt(sent', chunk') /\ HeadOf(sent') = 1 BY <1>3, <1>4, <1>5, AddHead
<1>7. sent' \in Seq(Frames) BY <1>1, <1>3, <1>4, AddFrame
<1>8. NoneOk(sent') BY <1>6, OpenHasNone
<1>9. Fits(place', deploy', calls') BY <1>0, <1>1 DEF Fits, Reading, Deploying
<1>10. /\ place' \in Pcs \ {"end"} /\ place' \notin Early
       /\ deploy' \in {"none", "running", "done"} /\ deploy' # "none"
  BY <1>0 DEF Pcs, Early
<1>11. QED BY <1>0, <1>1, <1>6, <1>7, <1>8, <1>9, <1>10, DispatchKept

\* The goroutine runs beside the stream, also when that has ended; a stream
\* with a head has no answer in it that could say ok.
LEMMA RunDeployStep == ASSUME ServedInv, RunDeploy PROVE ServedInv'
<1>0. /\ deploy = "running" /\ deploy' = "done"
      /\ UNCHANGED <<request, place, sent, chunk, gone>>
  BY DEF RunDeploy
<1>1. /\ request \in Requests \cup {NoReq} /\ place \in Pcs
      /\ sent \in Seq(Frames) /\ chunk \in 0..MaxChunks /\ gone \in BOOLEAN
      /\ Fits(place, deploy, calls) /\ HeadOf(sent) = 1
      /\ place # "end" => OpenAt(sent, chunk)
      /\ place = "end" => Closed(sent)
      /\ place \in Early => sent = <<>>
  BY <1>0, DispatchParts
<1>2. place \in Deploying \cup {"end"} /\ ~Refused /\ calls = Beforehand
  BY <1>0, <1>1 DEF Fits
<1>3. PICK ok \in BOOLEAN : Called(EdgeOp(request), ok) BY DEF RunDeploy
<1>4. calls' = AndRan(ok) /\ CallsOK(calls') BY <1>2, <1>3, CallAdded, CallsTyped
<1>5. Fits(place', deploy', calls') BY <1>0, <1>2, <1>4 DEF Fits, Reading, Deploying
<1>6. NoneOk(sent)
  <2>1. Alone(sent) BY <1>1, OpenHasNone DEF Closed
  <2>2. sent[1].kind = "head" BY <1>1 DEF HeadOf
  <2>3. ASSUME NEW i \in 1..Len(sent), sent[i].kind = "answer" PROVE FALSE
    <3>1. Len(sent) = 1 BY <2>1, <2>3 DEF Alone
    <3>2. i = 1 BY <3>1
    <3>3. QED BY <2>2, <2>3, <3>2
  <2>4. QED BY <2>3 DEF NoneOk
<1>7. deploy' \in {"none", "running", "done"} /\ deploy' # "none" BY <1>0
<1>8. QED BY <1>0, <1>1, <1>4, <1>5, <1>6, <1>7, DispatchKept

LEMMA DispatchCallStep == ASSUME ServedInv, Call PROVE ServedInv'
<1>0. place = "call" /\ UNCHANGED <<request, deploy, gone>> BY DEF Call, At
<1>1. sent = <<>> /\ deploy = "none" /\ ~Refused /\ calls = Beforehand
  BY <1>0, EarlyHasNone DEF Fits, Early
<1>2. EdgeOp(request).op \notin Streamed /\ ~Deploys
  BY DEF Call, Deploys, Streamed
<1>3. ASSUME NEW ok \in BOOLEAN, Called(EdgeOp(request), ok)
      PROVE  calls' = <<Ran(ok)>> /\ CallsOK(calls')
  <2>1. calls' = AndRan(ok) BY <1>1, <1>3, CallAdded
  <2>2. calls' = <<Ran(ok)>> BY <1>2, <2>1 DEF AndRan
  <2>3. QED BY <1>1, <2>2, CallsTyped
<1>4. CASE /\ Called(EdgeOp(request), TRUE)
           /\ \/ Begin(EdgeOp(request).op)
              \/ Move("reload") /\ UNCHANGED <<sent, chunk>>
              \/ Respond(TRUE) /\ UNCHANGED chunk
  <2>1. calls' = <<Ran(TRUE)>> /\ CallsOK(calls') /\ AllOk(calls') BY <1>3, <1>4, RanOk
  <2>2. ASSUME NEW at \in Reading PROVE Fits(at, deploy, calls') /\ at \in Pcs \ {"end"}
    BY <1>1, <1>2, <2>1, <2>2 DEF Fits, Reading, Deploying, Pcs
  <2>3. CASE Chunk(TRUE) /\ Move("stats")
    <3>1. place' = "stats" /\ "stats" \in Reading /\ "stats" \notin Early
      BY <2>3 DEF Move, Reading, Early
    <3>2. QED BY <1>0, <2>1, <2>2, <2>3, <3>1, Bounds, GoOnKept
  <2>4. CASE Move("logs") /\ UNCHANGED <<sent, chunk>>
    <3>1. place' = "logs" /\ "logs" \in Reading BY <2>4 DEF Move, Reading
    <3>2. QED BY <1>0, <1>1, <2>1, <2>2, <2>4, <3>1, GoOnKept
  <2>5. CASE Move("reload") /\ UNCHANGED <<sent, chunk>>
    <3>1. place' = "reload" /\ "reload" \in Reading BY <2>5 DEF Move, Reading
    <3>2. QED BY <1>0, <1>1, <2>1, <2>2, <2>5, <3>1, GoOnKept
  <2>6. CASE Respond(TRUE) /\ UNCHANGED chunk
    <3>1. Fits("end", deploy, calls') BY <1>1, <1>2, <2>1 DEF Fits, Reading, Deploying
    <3>2. QED BY <1>0, <1>1, <2>1, <2>6, <3>1, Bounds, EndKept
  <2>7. QED BY <1>4, <2>3, <2>4, <2>5, <2>6 DEF Begin
<1>5. CASE /\ Called(EdgeOp(request), FALSE) /\ UNCHANGED chunk
           /\ Respond(FALSE) \/ End(FALSE)
  <2>1. calls' = <<Ran(FALSE)>> /\ CallsOK(calls') BY <1>3, <1>5
  <2>2. Failed(calls') BY <2>1 DEF Failed
  <2>3. Fits("end", deploy, calls') BY <1>1, <2>2 DEF Fits, Reading, Deploying
  <2>4. QED BY <1>0, <1>1, <1>5, <2>1, <2>3, EndKept
<1>6. QED BY <1>4, <1>5 DEF Call

\* Once the operation has been run: the answer, or a stream of what it reads, in
\* which a read may fail.
LEMMA ReadingStep ==
    ASSUME ServedInv, place \in Reading, UNCHANGED <<request, gone, deploy>>,
           UNCHANGED calls \/ (Called(EdgeOp(request), FALSE) /\ End(TRUE)),
           \/ (\E ok \in BOOLEAN : (place = "reload" /\ Respond(ok)) \/ End(ok))
              /\ UNCHANGED chunk
           \/ /\ place' \in Reading \ {"reload"} /\ UNCHANGED calls
              /\ (\E json \in BOOLEAN : Chunk(json)) \/ UNCHANGED <<sent, chunk>>
    PROVE  ServedInv'
<1>0. /\ CallsOK(calls) /\ calls = <<Ran(TRUE)>> /\ ~Deploys /\ ~Refused
      /\ place # "end" /\ deploy = "none"
      /\ place = "reload" => sent = <<>>
  BY DispatchParts DEF Fits, Reading, Deploying, Early
<1>1. \/ UNCHANGED calls
      \/ /\ calls' = <<Ran(TRUE), Ran(FALSE)>> /\ End(TRUE) /\ CallsOK(calls')
  BY <1>0, CallAdded, CallsTyped
<1>2. CASE (\E ok \in BOOLEAN : (place = "reload" /\ Respond(ok)) \/ End(ok))
           /\ UNCHANGED chunk
  <2>1. CallsOK(calls') /\ Fits("end", deploy, calls')
    <3>1. CASE UNCHANGED calls BY <1>0, <3>1 DEF Fits, Reading, Deploying
    <3>2. CASE calls' = <<Ran(TRUE), Ran(FALSE)>> /\ CallsOK(calls')
      BY <1>0, <3>2 DEF Fits, Reading, Deploying, Failed
    <3>3. QED BY <1>1, <3>1, <3>2
  <2>2. CASE UNCHANGED calls
    <3>1. AllOk(calls') BY <1>0, <2>2, RanOk
    <3>2. QED BY <1>0, <1>2, <2>1, <3>1, EndKept
  <2>3. CASE End(TRUE) BY <1>0, <1>2, <2>1, <2>3, Bounds, EndKept
  <2>4. QED BY <1>1, <2>2, <2>3
<1>3. CASE /\ place' \in Reading \ {"reload"} /\ UNCHANGED calls
           /\ (\E json \in BOOLEAN : Chunk(json)) \/ UNCHANGED <<sent, chunk>>
  <2>1. place' \in Pcs \ {"end"} /\ place' \notin Early /\ Fits(place', deploy, calls')
    BY <1>0, <1>3 DEF Pcs, Early, Reading, Fits, Deploying
  <2>2. QED BY <1>0, <1>3, <2>1, GoOnKept
<1>4. QED BY <1>2, <1>3

\* The stream of a deploy calls nothing itself.
LEMMA DeployingStep ==
    ASSUME ServedInv, place \in Deploying, UNCHANGED <<request, gone, deploy, calls>>,
           \/ End(TRUE) /\ UNCHANGED chunk
           \/ /\ place' \in Deploying
              /\ Chunk(TRUE) \/ UNCHANGED <<sent, chunk>>
    PROVE  ServedInv'
<1>0. CallsOK(calls) /\ place # "end" /\ Fits(place, deploy, calls) /\ deploy # "none"
  BY DispatchParts DEF Fits, Deploying
<1>1. CASE End(TRUE) /\ UNCHANGED chunk
  <2>1. Fits("end", deploy, calls') BY <1>0 DEF Fits, Reading, Deploying
  <2>2. QED BY <1>0, <1>1, <2>1, Bounds, EndKept
<1>2. CASE /\ place' \in Deploying
           /\ Chunk(TRUE) \/ UNCHANGED <<sent, chunk>>
  <2>1. place' \in Pcs \ {"end"} /\ place' \notin Early /\ Fits(place', deploy, calls')
    BY <1>0, <1>2 DEF Pcs, Early, Reading, Fits, Deploying
  <2>2. QED BY <1>0, <1>2, <2>1, Bounds, GoOnKept
<1>3. QED BY <1>1, <1>2

LEMMA DispatchStreamStep ==
    ASSUME ServedInv,
           \/ Reload \/ ReadLogs \/ EndLogs
           \/ Stats \/ Events \/ Drain
    PROVE  ServedInv'
<1> USE DEF At
<1>1. CASE Reload
  BY <1>1, ReadingStep, Bounds DEF Reload, Reading
<1>2. CASE ReadLogs
  BY <1>2, ReadingStep, Bounds DEF ReadLogs, Reading, Move
<1>3. CASE EndLogs
  BY <1>3, ReadingStep, Bounds DEF EndLogs, Reading
<1>4. CASE Stats
  BY <1>4, ReadingStep, Bounds DEF Stats, Reading
<1>5. CASE Events
  BY <1>5, DeployingStep DEF Events, Deploying, Move
<1>6. CASE Drain
  BY <1>6, DeployingStep DEF Drain, Deploying
<1>7. QED BY <1>1, <1>2, <1>3, <1>4, <1>5, <1>6

LEMMA DispatchCancelStep ==
    ASSUME ServedInv, Cancel \/ UNCHANGED dispatchVars
    PROVE  ServedInv'
<1>1. UNCHANGED <<request, place, calls, deploy, sent, chunk>> /\ gone' \in BOOLEAN
  BY DispatchParts DEF Cancel, dispatchVars
<1>2. /\ request \in Requests \cup {NoReq} /\ place \in Pcs
      /\ deploy \in {"none", "running", "done"}
      /\ sent \in Seq(Frames) /\ chunk \in 0..MaxChunks
      /\ CallsOK(calls) /\ Fits(place, deploy, calls)
      /\ deploy # "none" <=> HeadOf(sent) = 1
      /\ place # "end" => OpenAt(sent, chunk)
      /\ place = "end" => Closed(sent)
      /\ place \in Early => sent = <<>>
      /\ AllOk(calls) \/ NoneOk(sent)
  BY DispatchParts
<1>3. QED BY <1>1, <1>2, DispatchKept

LEMMA NextDispatch == ServedInv /\ [DispatchNext]_dispatchVars => ServedInv'
BY DispatchReceiveStep, DispatchDispatchStep, DispatchPrepareStep, StartDeployStep,
   RunDeployStep, DispatchCallStep, DispatchStreamStep, DispatchCancelStep
   DEF DispatchNext, Serve

\* Every route for one container or image has its name as a parameter.
LEMMA ContainersNamed ==
    \A rt \in ContainerRoutes : \E i \in 1..Len(rt.path) : rt.path[i] = "*"
<1> SUFFICES ASSUME NEW rt \in ContainerRoutes
             PROVE  \E i \in 1..Len(rt.path) : rt.path[i] = "*"
  OBVIOUS
<1>1. \A m, p, o : Route(m, p, o).path = p BY DEF Route
<1>2. \/ \E f : rt.path = <<"docker", f, "*">>
      \/ \E f, g : rt.path = <<"docker", f, "*", g>>
      \/ \E f, g, h : rt.path = <<"docker", f, "*", g, h>>
  BY <1>1 DEF ContainerRoutes
<1>3. ASSUME NEW f, rt.path = <<"docker", f, "*">>
      PROVE  rt.path[3] = "*" /\ 3 \in 1..Len(rt.path)
  BY <1>3
<1>4. ASSUME NEW f, NEW g, rt.path = <<"docker", f, "*", g>>
      PROVE  rt.path[3] = "*" /\ 3 \in 1..Len(rt.path)
  BY <1>4
<1>5. ASSUME NEW f, NEW g, NEW h, rt.path = <<"docker", f, "*", g, h>>
      PROVE  rt.path[3] = "*" /\ 3 \in 1..Len(rt.path)
  BY <1>5
<1>6. rt.path[3] = "*" /\ 3 \in 1..Len(rt.path) BY <1>2, <1>3, <1>4, <1>5
<1>7. QED BY <1>6

\* A deploy of a stack is begun when its stack is there.
LEMMA BegunPrepared == ServedInv => BegunIsPrepared
<1> SUFFICES ASSUME ServedInv, Heads = 1, Deploys
             PROVE  calls # <<>> /\ calls[1] = Prepared(TRUE)
  BY DEF BegunIsPrepared
<1>1. /\ deploy \in {"running", "done"} /\ Fits(place, deploy, calls)
  BY DispatchParts DEF Heads, HeadOf
<1>2. calls = <<Prepared(TRUE)>> \/ \E ok \in BOOLEAN : calls = <<Prepared(TRUE), Ran(ok)>>
  BY <1>1 DEF Fits, Beforehand, AndRan
<1>3. QED BY <1>2, Lists

\* What was run for a path that names nothing.
LEMMA PlainServed ==
    ASSUME ServedInv, place = "end", Plain(request)
    PROVE  IF request.path \in Moved THEN calls = <<>> /\ deploy = "none" ELSE RunAsDirect
<1>1. PICK rt \in Routes : /\ rt.method = request.method /\ rt.path = request.path
                           /\ \A i \in 1..Len(rt.path) : rt.path[i] # "*"
  BY DEF Plain, PlainRoutes
<1>2. Fits("end", deploy, calls) /\ deploy \in {"none", "running", "done"}
  BY DispatchParts
<1>3. ASSUME request.path \in Moved PROVE calls = <<>> /\ deploy = "none"
  <2>1. PICK q \in ComposeRoutes \cup StackRoutes : q.path = request.path
    BY <1>3 DEF Moved
  <2>2. EdgeOp(request) = Nothing BY <1>1, <2>1, MovedIsNothing
  <2>3. Refused BY <2>2 DEF Refused, Nothing, Op
  <2>4. QED BY <1>2, <2>3 DEF Fits
<1>4. ASSUME request.path \notin Moved PROVE RunAsDirect
  <2> DEFINE direct == DirectOp(request)
  <2> SUFFICES ASSUME direct # Nothing,
                      direct.op \in NeedsBody => request.body # "bad"
               PROVE  \/ deploy = "running" /\ EdgeOp(request) = direct
                      \/ /\ calls # <<>>
                         /\ Op(calls[Len(calls)].op, calls[Len(calls)].args) = direct
    BY DEF RunAsDirect
  <2>1. rt \in FixedRoutes BY <1>1, <1>4, ContainersNamed DEF Routes, Moved
  <2>2. EdgeOp(request) = direct /\ direct.op \notin {"none", "StackUpStreamed"}
    BY <1>1, <2>1, FixedAsDirect
  <2>3. \E o, a : direct = Op(o, a) BY DEF DirectOp, Nothing, Checked
  <2>4. direct = Op(direct.op, direct.args) BY <2>3 DEF Op
  <2> HIDE DEF direct
  <2>5. ~Refused /\ ~Deploys BY <2>2 DEF Refused, Deploys
  <2>6. CASE deploy = "running" BY <2>2, <2>6
  <2>7. CASE deploy # "running"
    <3>1. \E ok \in BOOLEAN : calls = <<Ran(ok)>> \/ calls = <<Ran(TRUE), Ran(ok)>>
      BY <1>2, <2>5, <2>7 DEF Fits, Failed, AndRan
    <3>2. PICK ok \in BOOLEAN : calls # <<>> /\ calls[Len(calls)] = Ran(ok)
      <4>1. PICK ok \in BOOLEAN : calls = <<Ran(ok)>> \/ calls = <<Ran(TRUE), Ran(ok)>>
        BY <3>1
      <4>2. CASE calls = <<Ran(ok)>> BY <4>2, Lists
      <4>3. CASE calls = <<Ran(TRUE), Ran(ok)>> BY <4>3, Lists
      <4>4. QED BY <4>1, <4>2, <4>3
    <3>3. Op(calls[Len(calls)].op, calls[Len(calls)].args) = Op(direct.op, direct.args)
      BY <2>2, <3>2 DEF Ran
    <3>4. QED BY <2>4, <3>2, <3>3
  <2>8. QED BY <2>6, <2>7
<1>5. QED BY <1>3, <1>4

LEMMA OkIsMeant == ServedInv => OkMeansDone
BY BegunPrepared, PlainServed DEF OkMeansDone, ServedInv

LEMMA ServedInvariant == DispatchSpec => []ServedInv
BY InitDispatch, NextDispatch, PTL DEF DispatchSpec

(* For any paths and any length of a stream: the frames of a request are one
   answer, or one numbered stream with one end, and they keep step with the
   calls that were made and with the deploy that was begun (client.go:128-401,
   stacks.go:28-287). *)
THEOREM DispatchInvariant == DispatchSpec => []DispatchInv
<1>1. ServedInv => DispatchInv BY DEF ServedInv
<1>2. QED BY ServedInvariant, <1>1, PTL

(* An answer says ok only if all that was run for it did not fail; a request
   for a path that names nothing has run what direct mode runs for it, or, on
   the paths of stacks and compose, nothing (client.go:132-398 and
   stacks.go:38-207 against server/routes.go:29-75 and server/stacks.go:18-52).
   Of the outcome of a stream it says nothing. *)
THEOREM ServedAsDirect == DispatchSpec => []OkMeansDone
BY ServedInvariant, OkIsMeant, PTL

-----------------------------------------------------------------------------
(* The connection. *)

USE ConnsAssumption, IdsAssumption DEF Conns, loop, workers, wire, Goto

\* The loop.
LEMMA RetryStep == ASSUME EdgeInv, Retry PROVE EdgeInv'
<1> USE DEF EdgeInv, Retry
<1>1. TypeOK' BY DEF TypeOK, MainPcs, NetStates, HbPcs, ReqPcs
<1>2. CurIsNewest' BY DEF TypeOK, CurIsNewest
<1>3. WriterHoldsMutex' BY DEF TypeOK, WriterHoldsMutex
<1>4. Shape'
  BY DEF TypeOK, CurIsNewest, Shape, Open, Connected, NotYetServing
<1>5. AnswerReachesServer'
  BY DEF TypeOK, CurIsNewest, Shape, Open, Connected, NotYetServing,
         AnswerReachesServer
<1>6. QED BY <1>1, <1>2, <1>3, <1>4, <1>5

LEMMA ReturnStep == ASSUME EdgeInv, Return PROVE EdgeInv'
<1> USE DEF EdgeInv, Return
<1>1. TypeOK' BY DEF TypeOK, MainPcs, NetStates, HbPcs, ReqPcs
<1>2. CurIsNewest' BY DEF TypeOK, CurIsNewest
<1>3. WriterHoldsMutex' BY DEF TypeOK, WriterHoldsMutex
<1>4. Shape'
  BY DEF TypeOK, CurIsNewest, Shape, Open, Connected, NotYetServing
<1>5. AnswerReachesServer'
  BY DEF TypeOK, CurIsNewest, Shape, Open, Connected, NotYetServing,
         AnswerReachesServer
<1>6. QED BY <1>1, <1>2, <1>3, <1>4, <1>5

LEMMA DialFailsStep == ASSUME EdgeInv, DialFails PROVE EdgeInv'
<1> USE DEF EdgeInv, DialFails
<1>1. TypeOK' BY DEF TypeOK, MainPcs, NetStates, HbPcs, ReqPcs
<1>2. CurIsNewest' BY DEF TypeOK, CurIsNewest
<1>3. WriterHoldsMutex' BY DEF TypeOK, WriterHoldsMutex
<1>4. Shape'
  BY DEF TypeOK, CurIsNewest, Shape, Open, Connected, NotYetServing
<1>5. AnswerReachesServer'
  BY DEF TypeOK, CurIsNewest, Shape, Open, Connected, NotYetServing,
         AnswerReachesServer
<1>6. QED BY <1>1, <1>2, <1>3, <1>4, <1>5

\* The new connection is no request's origin yet.
LEMMA DialOkStep == ASSUME EdgeInv, DialOk PROVE EdgeInv'
<1> USE DEF EdgeInv, DialOk
<1>1. TypeOK' BY DEF TypeOK, MainPcs, NetStates, HbPcs, ReqPcs
<1>2. CurIsNewest' BY DEF TypeOK, CurIsNewest
<1>3. WriterHoldsMutex' BY DEF TypeOK, WriterHoldsMutex
<1>4. Shape'
  BY DEF TypeOK, CurIsNewest, Shape, Open, Connected, NotYetServing
<1>5. AnswerReachesServer'
  <2> SUFFICES ASSUME NEW r \in Reqs
               PROVE  /\ (req[r] = "lost" => net[origin[r]] # "up")'
                      /\ (req[r] = "sent" => \E k \in origin[r]..n : r \in got[k])'
    BY DEF AnswerReachesServer
  <2>1. (req[r] = "lost" => net[origin[r]] # "up")'
    BY DEF TypeOK, Shape, AnswerReachesServer
  <2>2. CASE req[r] = "sent"
    <3>1. PICK k \in origin[r]..n : r \in got[k]
      BY <2>2 DEF AnswerReachesServer
    <3>2. k \in origin'[r]..n' /\ r \in got'[k]
      BY <3>1 DEF TypeOK
    <3>3. QED BY <2>1, <3>2
  <2>3. QED BY <2>1, <2>2
<1>6. QED BY <1>1, <1>2, <1>3, <1>4, <1>5

LEMMA InstallStep == ASSUME EdgeInv, Install PROVE EdgeInv'
<1> USE DEF EdgeInv, Install
<1>1. TypeOK' BY DEF TypeOK, MainPcs, NetStates, HbPcs, ReqPcs
<1>2. CurIsNewest' BY DEF TypeOK, CurIsNewest
<1>3. WriterHoldsMutex' BY DEF TypeOK, WriterHoldsMutex
<1>4. Shape'
  BY DEF TypeOK, CurIsNewest, Shape, Open, Connected, NotYetServing
<1>5. AnswerReachesServer'
  BY DEF TypeOK, CurIsNewest, Shape, Open, Connected, NotYetServing,
         AnswerReachesServer
<1>6. QED BY <1>1, <1>2, <1>3, <1>4, <1>5

LEMMA StartEnrollStep == ASSUME EdgeInv, StartEnroll PROVE EdgeInv'
<1> USE DEF EdgeInv, StartEnroll
<1>1. TypeOK' BY DEF TypeOK, MainPcs, NetStates, HbPcs, ReqPcs
<1>2. CurIsNewest' BY DEF TypeOK, CurIsNewest
<1>3. WriterHoldsMutex' BY DEF TypeOK, WriterHoldsMutex
<1>4. Shape'
  BY DEF TypeOK, CurIsNewest, Shape, Open, Connected, NotYetServing
<1>5. AnswerReachesServer'
  BY DEF TypeOK, CurIsNewest, Shape, Open, Connected, NotYetServing,
         AnswerReachesServer
<1>6. QED BY <1>1, <1>2, <1>3, <1>4, <1>5

\* The heartbeat that starts is not the holder of the mutex: it was off.
LEMMA EnrolledStep == ASSUME EdgeInv, Enrolled PROVE EdgeInv'
<1> USE DEF EdgeInv, Enrolled, OnWire
<1>1. TypeOK' BY DEF TypeOK, MainPcs, NetStates, HbPcs, ReqPcs
<1>2. CurIsNewest' BY DEF TypeOK, CurIsNewest
<1>3. WriterHoldsMutex'
  BY DEF TypeOK, WriterHoldsMutex, Shape, NotYetServing
<1>4. Shape'
  BY DEF TypeOK, CurIsNewest, Shape, Open, Connected, NotYetServing
<1>5. AnswerReachesServer'
  BY DEF TypeOK, CurIsNewest, Shape, Open, Connected, NotYetServing,
         AnswerReachesServer
<1>6. QED BY <1>1, <1>2, <1>3, <1>4, <1>5

LEMMA EnrollFailsStep == ASSUME EdgeInv, EnrollFails PROVE EdgeInv'
<1> USE DEF EdgeInv, EnrollFails
<1>1. TypeOK' BY DEF TypeOK, MainPcs, NetStates, HbPcs, ReqPcs
<1>2. CurIsNewest' BY DEF TypeOK, CurIsNewest
<1>3. WriterHoldsMutex' BY DEF TypeOK, WriterHoldsMutex
<1>4. Shape'
  BY DEF TypeOK, CurIsNewest, Shape, Open, Connected, NotYetServing
<1>5. AnswerReachesServer'
  BY DEF TypeOK, CurIsNewest, Shape, Open, Connected, NotYetServing,
         AnswerReachesServer
<1>6. QED BY <1>1, <1>2, <1>3, <1>4, <1>5

LEMMA ReadFailsStep == ASSUME EdgeInv, ReadFails PROVE EdgeInv'
<1> USE DEF EdgeInv, ReadFails
<1>1. TypeOK' BY DEF TypeOK, MainPcs, NetStates, HbPcs, ReqPcs
<1>2. CurIsNewest' BY DEF TypeOK, CurIsNewest
<1>3. WriterHoldsMutex' BY DEF TypeOK, WriterHoldsMutex
<1>4. Shape'
  BY DEF TypeOK, CurIsNewest, Shape, Open, Connected, NotYetServing
<1>5. AnswerReachesServer'
  BY DEF TypeOK, CurIsNewest, Shape, Open, Connected, NotYetServing,
         AnswerReachesServer
<1>6. QED BY <1>1, <1>2, <1>3, <1>4, <1>5

\* Closing the newest connection leaves none open.
LEMMA CancelContextStep == ASSUME EdgeInv, CancelContext PROVE EdgeInv'
<1> USE DEF EdgeInv, CancelContext
<1>1. TypeOK'
  BY DEF TypeOK, Shape, Connected, Open, MainPcs, NetStates, HbPcs, ReqPcs
<1>2. CurIsNewest' BY DEF TypeOK, CurIsNewest
<1>3. WriterHoldsMutex' BY DEF TypeOK, WriterHoldsMutex
<1>4. Shape'
  BY DEF TypeOK, CurIsNewest, Shape, Open, Connected, NotYetServing
<1>5. AnswerReachesServer'
  BY DEF TypeOK, CurIsNewest, Shape, Open, Connected, NotYetServing,
         AnswerReachesServer
<1>6. QED BY <1>1, <1>2, <1>3, <1>4, <1>5

LEMMA CloseStep == ASSUME EdgeInv, Close PROVE EdgeInv'
<1> USE DEF EdgeInv, Close
<1>1. TypeOK'
  BY DEF TypeOK, Shape, Connected, Open, MainPcs, NetStates, HbPcs, ReqPcs
<1>2. CurIsNewest' BY DEF TypeOK, CurIsNewest
<1>3. WriterHoldsMutex' BY DEF TypeOK, WriterHoldsMutex
<1>4. Shape'
  BY DEF TypeOK, CurIsNewest, Shape, Open, Connected, NotYetServing
<1>5. AnswerReachesServer'
  BY DEF TypeOK, CurIsNewest, Shape, Open, Connected, NotYetServing,
         AnswerReachesServer
<1>6. QED BY <1>1, <1>2, <1>3, <1>4, <1>5

LEMMA PanicStep == ASSUME EdgeInv, Panic PROVE EdgeInv'
<1> USE DEF EdgeInv, Panic
<1>1. TypeOK' BY DEF TypeOK, MainPcs, NetStates, HbPcs, ReqPcs
<1>2. CurIsNewest' BY DEF TypeOK, CurIsNewest
<1>3. WriterHoldsMutex' BY DEF TypeOK, WriterHoldsMutex
<1>4. Shape'
  BY DEF TypeOK, CurIsNewest, Shape, Open, Connected, NotYetServing
<1>5. AnswerReachesServer'
  BY DEF TypeOK, CurIsNewest, Shape, Open, Connected, NotYetServing,
         AnswerReachesServer
<1>6. QED BY <1>1, <1>2, <1>3, <1>4, <1>5

LEMMA StopStep == ASSUME EdgeInv, Stop PROVE EdgeInv'
<1> USE DEF EdgeInv, Stop
<1>1. TypeOK' BY DEF TypeOK, MainPcs, NetStates, HbPcs, ReqPcs
<1>2. CurIsNewest' BY DEF TypeOK, CurIsNewest
<1>3. WriterHoldsMutex' BY DEF TypeOK, WriterHoldsMutex
<1>4. Shape'
  BY DEF TypeOK, CurIsNewest, Shape, Open, Connected, NotYetServing
<1>5. AnswerReachesServer'
  BY DEF TypeOK, CurIsNewest, Shape, Open, Connected, NotYetServing,
         AnswerReachesServer
<1>6. QED BY <1>1, <1>2, <1>3, <1>4, <1>5

\* The heartbeats.
LEMMA TickStep == ASSUME NEW k \in Conns, EdgeInv, Tick(k) PROVE EdgeInv'
<1> USE DEF EdgeInv, Tick
<1>1. TypeOK' BY DEF TypeOK, MainPcs, NetStates, HbPcs, ReqPcs
<1>2. CurIsNewest' BY DEF TypeOK, CurIsNewest
<1>3. WriterHoldsMutex' BY DEF TypeOK, WriterHoldsMutex
<1>4. Shape'
  BY DEF TypeOK, CurIsNewest, Shape, Open, Connected, NotYetServing
<1>5. AnswerReachesServer'
  BY DEF TypeOK, CurIsNewest, Shape, Open, Connected, NotYetServing,
         AnswerReachesServer
<1>6. QED BY <1>1, <1>2, <1>3, <1>4, <1>5

LEMMA DoneStep == ASSUME NEW k \in Conns, EdgeInv, Done(k) PROVE EdgeInv'
<1> USE DEF EdgeInv, Done
<1>1. TypeOK' BY DEF TypeOK, MainPcs, NetStates, HbPcs, ReqPcs
<1>2. CurIsNewest' BY DEF TypeOK, CurIsNewest
<1>3. WriterHoldsMutex' BY DEF TypeOK, WriterHoldsMutex
<1>4. Shape'
  BY DEF TypeOK, CurIsNewest, Shape, Open, Connected, NotYetServing
<1>5. AnswerReachesServer'
  BY DEF TypeOK, CurIsNewest, Shape, Open, Connected, NotYetServing,
         AnswerReachesServer
<1>6. QED BY <1>1, <1>2, <1>3, <1>4, <1>5

LEMMA LockBeatStep == ASSUME NEW k \in Conns, EdgeInv, LockBeat(k) PROVE EdgeInv'
<1> USE DEF EdgeInv, LockBeat
<1>1. TypeOK' BY DEF TypeOK, MainPcs, NetStates, HbPcs, ReqPcs
<1>2. CurIsNewest' BY DEF TypeOK, CurIsNewest
<1>3. WriterHoldsMutex'
  <2>1. (\A j \in Conns : hb[j] = "write" <=> mu = j)'
    BY DEF TypeOK, WriterHoldsMutex
  <2>2. (\A q \in Reqs : req[q] = "write" <=> mu = q)'
    BY DEF TypeOK, WriterHoldsMutex
  <2>3. QED BY <2>1, <2>2 DEF WriterHoldsMutex
<1>4. Shape'
  BY DEF TypeOK, CurIsNewest, Shape, Open, Connected, NotYetServing
<1>5. AnswerReachesServer'
  BY DEF TypeOK, CurIsNewest, Shape, Open, Connected, NotYetServing,
         AnswerReachesServer
<1>6. QED BY <1>1, <1>2, <1>3, <1>4, <1>5

LEMMA BeatStep == ASSUME NEW k \in Conns, EdgeInv, Beat(k) PROVE EdgeInv'
<1> USE DEF EdgeInv, Beat, OnWire
<1>1. TypeOK' BY DEF TypeOK, MainPcs, NetStates, HbPcs, ReqPcs
<1>2. CurIsNewest' BY DEF TypeOK, CurIsNewest
<1>3. WriterHoldsMutex' BY DEF TypeOK, WriterHoldsMutex
<1>4. Shape'
  BY DEF TypeOK, CurIsNewest, Shape, Open, Connected, NotYetServing
<1>5. AnswerReachesServer'
  BY DEF TypeOK, CurIsNewest, Shape, Open, Connected, NotYetServing,
         AnswerReachesServer
<1>6. QED BY <1>1, <1>2, <1>3, <1>4, <1>5

LEMMA BeatFailsStep == ASSUME NEW k \in Conns, EdgeInv, BeatFails(k) PROVE EdgeInv'
<1> USE DEF EdgeInv, BeatFails
<1>1. TypeOK' BY DEF TypeOK, MainPcs, NetStates, HbPcs, ReqPcs
<1>2. CurIsNewest' BY DEF TypeOK, CurIsNewest
<1>3. WriterHoldsMutex'
  <2>1. (\A j \in Conns : hb[j] = "write" <=> mu = j)'
    BY DEF TypeOK, WriterHoldsMutex
  <2>2. (\A q \in Reqs : req[q] = "write" <=> mu = q)'
    BY DEF TypeOK, WriterHoldsMutex
  <2>3. QED BY <2>1, <2>2 DEF WriterHoldsMutex
<1>4. Shape'
  BY DEF TypeOK, CurIsNewest, Shape, Open, Connected, NotYetServing
<1>5. AnswerReachesServer'
  BY DEF TypeOK, CurIsNewest, Shape, Open, Connected, NotYetServing,
         AnswerReachesServer
<1>6. QED BY <1>1, <1>2, <1>3, <1>4, <1>5

LEMMA FailStep == ASSUME NEW k \in Conns, EdgeInv, Fail(k) PROVE EdgeInv'
<1> USE DEF EdgeInv, Fail
<1>1. TypeOK' BY DEF TypeOK, MainPcs, NetStates, HbPcs, ReqPcs
<1>2. CurIsNewest' BY DEF TypeOK, CurIsNewest
<1>3. WriterHoldsMutex' BY DEF TypeOK, WriterHoldsMutex
<1>4. Shape'
  BY DEF TypeOK, CurIsNewest, Shape, Open, Connected, NotYetServing
<1>5. AnswerReachesServer'
  BY DEF TypeOK, CurIsNewest, Shape, Open, Connected, NotYetServing,
         AnswerReachesServer
<1>6. QED BY <1>1, <1>2, <1>3, <1>4, <1>5

\* The handlers.
LEMMA ReceiveStep == ASSUME NEW r \in Reqs, EdgeInv, Receive(r) PROVE EdgeInv'
<1> USE DEF EdgeInv, Receive
<1>1. TypeOK' BY DEF TypeOK, MainPcs, NetStates, HbPcs, ReqPcs
<1>2. CurIsNewest' BY DEF TypeOK, CurIsNewest
<1>3. WriterHoldsMutex' BY DEF TypeOK, WriterHoldsMutex
<1>4. Shape'
  BY DEF TypeOK, CurIsNewest, Shape, Open, Connected, NotYetServing
<1>5. AnswerReachesServer'
  BY DEF TypeOK, CurIsNewest, Shape, Open, Connected, NotYetServing,
         AnswerReachesServer
<1>6. QED BY <1>1, <1>2, <1>3, <1>4, <1>5

LEMMA AnswerStep == ASSUME NEW r \in Reqs, EdgeInv, Answer(r) PROVE EdgeInv'
<1> USE DEF EdgeInv, Answer
<1>1. TypeOK' BY DEF TypeOK, MainPcs, NetStates, HbPcs, ReqPcs
<1>2. CurIsNewest' BY DEF TypeOK, CurIsNewest
<1>3. WriterHoldsMutex'
  <2>1. (\A j \in Conns : hb[j] = "write" <=> mu = j)'
    BY DEF TypeOK, WriterHoldsMutex
  <2>2. (\A q \in Reqs : req[q] = "write" <=> mu = q)'
    BY DEF TypeOK, WriterHoldsMutex
  <2>3. QED BY <2>1, <2>2 DEF WriterHoldsMutex
<1>4. Shape'
  BY DEF TypeOK, CurIsNewest, Shape, Open, Connected, NotYetServing
<1>5. AnswerReachesServer'
  BY DEF TypeOK, CurIsNewest, Shape, Open, Connected, NotYetServing,
         AnswerReachesServer
<1>6. QED BY <1>1, <1>2, <1>3, <1>4, <1>5

\* A handler writes to the newest connection.  If its own is not the newest,
\* its own is not open.
LEMMA WriteStep == ASSUME NEW r \in Reqs, EdgeInv, Write(r) PROVE EdgeInv'
<1> USE DEF EdgeInv, Write, OnWire
<1>1. TypeOK' BY DEF TypeOK, MainPcs, NetStates, HbPcs, ReqPcs
<1>2. CurIsNewest' BY DEF TypeOK, CurIsNewest
<1>3. WriterHoldsMutex' BY DEF TypeOK, WriterHoldsMutex
<1>4. Shape'
  BY DEF TypeOK, CurIsNewest, Shape, Open, Connected, NotYetServing
<1>5. AnswerReachesServer'
  BY DEF TypeOK, CurIsNewest, Shape, Open, Connected, NotYetServing,
         AnswerReachesServer
<1>6. QED BY <1>1, <1>2, <1>3, <1>4, <1>5

-----------------------------------------------------------------------------
(* The invariant. *)

LEMMA InitInv == Init => EdgeInv
<1> SUFFICES ASSUME Init PROVE EdgeInv
  OBVIOUS
<1> USE DEF Init
<1>1. TypeOK
  <2>1. net \in [Conns -> NetStates] /\ hb \in [Conns -> HbPcs]
    BY DEF NetStates, HbPcs
  <2>2. req \in [Reqs -> ReqPcs] /\ origin \in [Reqs -> 0..MaxConns]
    BY DEF ReqPcs
  <2>3. first \in [Conns -> {"none", "enroll", "other"}]
    OBVIOUS
  <2>4. got \in [Conns -> SUBSET Reqs]
    OBVIOUS
  <2>5. main \in MainPcs /\ n \in 0..MaxConns /\ cur \in 0..MaxConns
    BY DEF MainPcs
  <2>6. QED BY <2>1, <2>2, <2>3, <2>4, <2>5 DEF TypeOK
<1>2. CurIsNewest BY DEF CurIsNewest
<1>3. WriterHoldsMutex BY DEF WriterHoldsMutex
<1>4. Shape BY DEF Shape, Open, Connected, NotYetServing
<1>5. AnswerReachesServer BY DEF AnswerReachesServer
<1>6. QED BY <1>1, <1>2, <1>3, <1>4, <1>5 DEF EdgeInv

LEMMA StutterInv == EdgeInv /\ UNCHANGED vars => EdgeInv'
BY DEF EdgeInv, vars, TypeOK, CurIsNewest, WriterHoldsMutex, Shape, Open,
       AnswerReachesServer

LEMMA NextInv == EdgeInv /\ Next => EdgeInv'
<1> SUFFICES ASSUME EdgeInv, Next PROVE EdgeInv'
  OBVIOUS
<1>1. CASE Loop
  BY <1>1, RetryStep, ReturnStep, DialFailsStep, StartEnrollStep, EnrolledStep,
     EnrollFailsStep, ReadFailsStep, CancelContextStep, CloseStep DEF Loop
<1>2. CASE DialOk \/ Install \/ Panic \/ Stop
  BY <1>2, DialOkStep, InstallStep, PanicStep, StopStep
<1>3. CASE \E k \in Conns : Heartbeat(k) \/ Fail(k)
  <2>1. PICK k \in 1..MaxConns : Heartbeat(k) \/ Fail(k)
    BY <1>3
  <2>2. QED
    BY <2>1, TickStep, DoneStep, LockBeatStep, BeatStep, BeatFailsStep, FailStep
    DEF Heartbeat
<1>4. CASE \E r \in Reqs : Handle(r)
  BY <1>4, ReceiveStep, AnswerStep, WriteStep DEF Handle
<1>5. QED BY <1>1, <1>2, <1>3, <1>4 DEF Next

\* c.conn is the newest connection, c.mu belongs to the writer, at most the
\* newest connection is open, and an answer is lost only when the connection
\* of its request has failed (client.go:61-101, 105-126, 529-533).
THEOREM EdgeInvariant == Spec => []EdgeInv
<1>1. EdgeInv /\ [Next]_vars => EdgeInv'
  BY NextInv, StutterInv
<1>2. QED BY InitInv, <1>1, PTL DEF Spec

\* No answer is written to a stale connection while its own works
\* (client.go:529-533).
THEOREM AnswersReachServer == Spec => []AnswerReachesServer
<1>1. EdgeInv => AnswerReachesServer
  BY DEF EdgeInv
<1>2. QED BY EdgeInvariant, <1>1, PTL

\* After the enrollment nothing ever has two writers (client.go:114-119,
\* 530-531).
THEOREM WritersExclude == Spec => []OneWriter
<1>1. EdgeInv => OneWriter
  BY DEF EdgeInv, WriterHoldsMutex, OneWriter, Writers
<1>2. QED BY EdgeInvariant, <1>1, PTL

\* The agent has at most one open connection (client.go:75-78).
THEOREM ConnectionsExclude == Spec => []OneConnection
<1>1. EdgeInv => OneConnection
  BY DEF EdgeInv, Shape, OneConnection
<1>2. QED BY EdgeInvariant, <1>1, PTL

-----------------------------------------------------------------------------
(* The heartbeat of a working connection. *)

LEMMA ServesStep ==
    ASSUME EdgeInv, HeartbeatServes, [Next]_vars PROVE HeartbeatServes'
<1> SUFFICES ASSUME NEW k \in Conns, (hb[k] = "stopped" /\ net[k] = "up")',
                    ~stop'
             PROVE  FALSE
  BY DEF HeartbeatServes
<1> USE DEF EdgeInv, TypeOK, HeartbeatServes
<1>1. CASE UNCHANGED vars
  BY <1>1 DEF vars
<1>2. CASE Loop
  BY <1>2 DEF Loop, Retry, Return, DialFails, StartEnroll, Enrolled,
              EnrollFails, ReadFails, CancelContext, Close, Shape, NotYetServing
\* The heartbeat of a connection that is just dialled is off.
<1>3. CASE DialOk
  BY <1>3 DEF DialOk, Shape
<1>4. CASE Install \/ Stop
  BY <1>4 DEF Install, Stop
\* The process and its connection end together.
<1>5. CASE Panic
  BY <1>5 DEF Panic, Shape, Open
<1>6. ASSUME NEW j \in Conns, Heartbeat(j) \/ Fail(j) PROVE FALSE
  <2>1. CASE Tick(j) \/ LockBeat(j) \/ Beat(j) \/ Fail(j)
    BY <2>1 DEF Tick, LockBeat, Beat, Fail
  \* The context of a working connection is done only if Run's is.
  <2>2. CASE Done(j)
    BY <2>2 DEF Done, Live, Shape
  \* A write that fails is to c.conn: the newest connection does not work,
  \* and no other is open.
  <2>3. CASE BeatFails(j)
    BY <2>3 DEF BeatFails, CurIsNewest, Shape, Open, NotYetServing
  <2>4. QED BY <1>6, <2>1, <2>2, <2>3 DEF Heartbeat
<1>7. ASSUME NEW r \in Reqs, Handle(r) PROVE FALSE
  BY <1>7 DEF Handle, Receive, Answer, Write
<1>8. QED BY <1>1, <1>2, <1>3, <1>4, <1>5, <1>6, <1>7 DEF Next

\* A working connection keeps its heartbeat until the agent is stopped
\* (client.go:87, 111-123).
THEOREM HeartbeatsServe == Spec => []HeartbeatServes
<1>1. Init => HeartbeatServes
  BY DEF Init, HeartbeatServes
<1>2. EdgeInv /\ HeartbeatServes /\ [Next]_vars => HeartbeatServes'
  BY ServesStep
<1>3. QED BY EdgeInvariant, <1>1, <1>2, PTL DEF Spec
=============================================================================
