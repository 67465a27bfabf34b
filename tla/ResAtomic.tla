----------------------------- MODULE ResAtomic ------------------------------
(***************************************************************************)
(* What the resource table promises its callers, with no mutex and no      *)
(* steps, on a partial map from ids to nodes and on what is in the nodes.  *)
(* Each call takes effect at one instant between its invocation and its    *)
(* return, but for one: res_create_and_clone links a zeroed node, and      *)
(* fills it at a later instant, between which the others can find the      *)
(* empty node, and release it.                                             *)
(***************************************************************************)
EXTENDS Integers

CONSTANTS
  Threads,  \* the callers
  NoThread, \* nobody: what is in a zeroed node
  Ids,      \* the ids
  Nodes,    \* the nodes; each is handed out once
  NoNode    \* no node under this id

VARIABLES
  table,   \* id -> the node under it, or NoNode
  used,    \* the nodes ever handed out
  content, \* node -> who filled it, or NoThread
  stage,   \* thread -> "idle", "called" (no effect yet) or "done"
  req,     \* thread -> the function called and its id argument
  reply    \* thread -> what the call returns, once done: an id and a node

avars == <<table, used, content, stage, req, reply>>

InUse   == {i \in Ids : table[i] # NoNode}
NoReply == [id |-> 0, node |-> NoNode]

AInit ==
  /\ table = [i \in Ids |-> NoNode]
  /\ used = {}
  /\ content = [n \in Nodes |-> NoThread]
  /\ stage = [t \in Threads |-> "idle"]
  /\ req = [t \in Threads |-> [fn |-> "any", id |-> 0]]
  /\ reply = [t \in Threads |-> NoReply]

AInvoke(t, f, i) ==
  /\ stage[t] = "idle"
  /\ stage' = [stage EXCEPT ![t] = "called"]
  /\ req' = [req EXCEPT ![t] = [fn |-> f, id |-> i]]
  /\ UNCHANGED <<table, used, content, reply>>

Answer(t, r) ==
  /\ stage[t] = "called"
  /\ stage' = [stage EXCEPT ![t] = "done"]
  /\ reply' = [reply EXCEPT ![t] = r]
  /\ UNCHANGED <<content, req>>

\* A creation gets an id nobody uses and a node nobody has had, still zeroed.
ACreate(t) ==
  /\ req[t].fn \in {"create", "clone"}
  /\ \E i \in Ids \ InUse, n \in Nodes \ used :
       /\ table' = [table EXCEPT ![i] = n]
       /\ used' = used \cup {n}
       /\ Answer(t, [id |-> i, node |-> n])

AGet(t) ==
  /\ req[t].fn = "get"
  /\ Answer(t, [id |-> 0, node |-> table[req[t].id]])
  /\ UNCHANGED <<table, used>>

ARelease(t) ==
  /\ req[t].fn = "release"
  /\ table' = [table EXCEPT ![req[t].id] = NoNode]
  /\ Answer(t, NoReply)
  /\ UNCHANGED used

\* Any id in use, or -1 exactly when the table is empty.
AAny(t) ==
  /\ req[t].fn = "any"
  /\ \E i \in IF InUse = {} THEN {-1} ELSE InUse : Answer(t, [id |-> i, node |-> NoNode])
  /\ UNCHANGED <<table, used>>

AReleaseAll(t) ==
  /\ req[t].fn = "all"
  /\ table' = [i \in Ids |-> NoNode]
  /\ Answer(t, NoReply)
  /\ UNCHANGED used

\* A clone that got an id that is not negative fills its node as it returns,
\* whether the node is still in the table or not; nobody else fills a node.
Fills(t) == req[t].fn = "clone" /\ reply[t].id >= 0
AReturn(t) ==
  /\ stage[t] = "done"
  /\ content' = IF Fills(t) THEN [content EXCEPT ![reply[t].node] = t] ELSE content
  /\ stage' = [stage EXCEPT ![t] = "idle"]
  /\ req' = [req EXCEPT ![t] = [fn |-> "any", id |-> 0]]
  /\ reply' = [reply EXCEPT ![t] = NoReply]
  /\ UNCHANGED <<table, used>>

Calls == ({"create", "clone", "any", "all"} \X {0}) \cup ({"get", "release"} \X Ids)

ANext ==
  \E t \in Threads :
    \/ \E c \in Calls : AInvoke(t, c[1], c[2])
    \/ ACreate(t) \/ AGet(t) \/ ARelease(t) \/ AAny(t) \/ AReleaseAll(t)
    \/ AReturn(t)

ASpec == AInit /\ [][ANext]_avars
=============================================================================
