------------------------------- MODULE KeyMap -------------------------------
(***************************************************************************)
(* What a collection promises its clients, however many storage servers    *)
(* its keys are spread over: one set of keys, on which every command takes *)
(* effect at one moment between its request and its answer, or is refused  *)
(* for want of memory and has none.                                        *)
(***************************************************************************)
EXTENDS Naturals

CONSTANTS Clients, Keys, ClientCmds

VARIABLES
  keys,  \* the keys in the collection
  op     \* [client -> the command it has under way, if any]

vars == <<keys, op>>

NoOp == [at |-> "idle"]

Op(at, cmd, key, status) ==
  [at |-> at, cmd |-> cmd, key |-> key, status |-> status]

Init == keys = {} /\ op = [c \in Clients |-> NoOp]

Ask(c, cmd, key) ==
  /\ op[c] = NoOp
  /\ op' = [op EXCEPT ![c] = Op("asked", cmd, key, "CLIENT")]
  /\ UNCHANGED keys

Outcome(cmd, key) ==
  IF cmd = "ADD" THEN IF key \in keys THEN "EXISTENT_KEY" ELSE "OK"
                 ELSE IF key \in keys THEN "OK" ELSE "NONEXISTENT_KEY"

Perform(c) ==
  /\ op[c].at = "asked"
  /\ LET o == op[c]
     IN  /\ op' = [op EXCEPT ![c] =
                     Op("done", o.cmd, o.key, Outcome(o.cmd, o.key))]
         /\ keys' = CASE o.cmd = "ADD"     -> keys \cup {o.key}
                      [] o.cmd = "DISPOSE" -> keys \ {o.key}
                      [] OTHER             -> keys

Refuse(c) ==
  /\ op[c].at = "asked" /\ op[c].cmd \in {"ADD", "UPDATE"}
  /\ op' = [op EXCEPT ![c] = Op("done", op[c].cmd, op[c].key, "BAD_ALLOC")]
  /\ UNCHANGED keys

Return(c) ==
  /\ op[c].at = "done"
  /\ op' = [op EXCEPT ![c] = NoOp]
  /\ UNCHANGED keys

Next ==
  \E c \in Clients :
    \/ \E cmd \in ClientCmds, key \in Keys : Ask(c, cmd, key)
    \/ Perform(c)
    \/ Refuse(c)
    \/ Return(c)

Spec == Init /\ [][Next]_vars
=============================================================================
