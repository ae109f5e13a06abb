------------------------------ MODULE Allocator ------------------------------
(***************************************************************************)
(* What the callers of malloc, calloc, realloc and free (stdlib.h) rely    *)
(* on, with no mention of headers, pages or a block list: a set of live    *)
(* regions that never share a byte, each of which only its owner can       *)
(* release, move or resize.                                                *)
(***************************************************************************)
EXTENDS Naturals

CONSTANT NULL

VARIABLES
  region,  (* region[p]: the bytes the owner of pointer p may use          *)
  op       (* what the last call did                                       *)

Ops == {"none", "allocate", "release", "resize"}

Bytes(p, n) == p .. p + n - 1

Live == DOMAIN region

(* None of the n bytes at p belongs to one of the live regions in others. *)
Fresh(p, n, others) ==
  \A q \in others : Bytes(p, n) \cap Bytes(q, region[q]) = {}

Init ==
  /\ region = [p \in {} |-> 0]
  /\ op = "none"

(* A request for no bytes: the caller gets NULL. *)
Refuse ==
  /\ op' = "none"
  /\ UNCHANGED region

(* malloc, calloc, realloc(NULL, n): a new region clear of all the others. *)
Allocate ==
  /\ op' = "allocate"
  /\ \E p \in DOMAIN region' \ Live :
       /\ p # NULL
       /\ Fresh(p, region'[p], Live)
       /\ region' = [q \in Live \cup {p} |-> IF q = p THEN region'[p] ELSE region[q]]

(* free(p), realloc(p, 0): only the one region goes. *)
Release ==
  /\ op' = "release"
  /\ \E p \in Live : region' = [q \in Live \ {p} |-> region[q]]

(* realloc(p, n): the region grows, shrinks or moves; the others stay. *)
Resize ==
  /\ op' = "resize"
  /\ \E p \in Live, q \in DOMAIN region' :
       /\ q \notin Live \ {p}
       /\ q # NULL
       /\ Fresh(q, region'[q], Live \ {p})
       /\ region' = [r \in (Live \ {p}) \cup {q} |->
                       IF r = q THEN region'[q] ELSE region[r]]

Next == Refuse \/ Allocate \/ Release \/ Resize

Spec == Init /\ [][Next]_<<region, op>>

=============================================================================
