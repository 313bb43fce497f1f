---------------------------- MODULE HandleTable ----------------------------
(***************************************************************************)
(* What the handles of a WebAssembly instance promise the scripts that     *)
(* share it: a table of places, each empty or holding one expression for   *)
(* one client.  A request is answered with some empty place; which one,    *)
(* and how it is found, is nobody's business.  WasmInstance, with its      *)
(* counter that wraps and its loop, implements this.                       *)
(***************************************************************************)
CONSTANTS Source, Client, Handle, None

VARIABLES table,  \* the expression and the holders of each handle
          asking  \* the request being answered: whose, and for what

vars == <<table, asking>>

Empty == [source |-> None, holders |-> {}]

Init == table = [h \in Handle |-> Empty] /\ asking = None

(* A client asks for a handle on an expression; one can be given. *)
Ask(c, s) == /\ asking = None
             /\ \E h \in Handle : table[h] = Empty
             /\ asking' = [client |-> c, source |-> s]
             /\ UNCHANGED table

(* It gets an empty place of its own. *)
Give == /\ asking # None
        /\ \E h \in Handle :
              /\ table[h] = Empty
              /\ table' = [table EXCEPT ![h] =
                             [source |-> asking.source, holders |-> {asking.client}]]
        /\ asking' = None

(* The only holder gives a handle back: the place is empty again. *)
Release(c, h) == /\ asking = None
                 /\ table[h].holders = {c}
                 /\ table' = [table EXCEPT ![h] = Empty]
                 /\ UNCHANGED asking

Next == \/ \E c \in Client, s \in Source : Ask(c, s)
        \/ Give
        \/ \E c \in Client, h \in Handle : Release(c, h)

Spec == Init /\ [][Next]_vars
=============================================================================
