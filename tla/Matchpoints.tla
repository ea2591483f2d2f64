---------------------------- MODULE Matchpoints ----------------------------
(***************************************************************************)
(* The matchpoint table of rsp-server.c: an open hash table, one chain per *)
(* bucket, new entries at its head.  The debugger inserts and removes, and *)
(* may repeat either; the main loop looks up the PC after each instruction *)
(* and simStoreData the word it stores.  The instruction an entry keeps is *)
(* never used and left out, and so is the memory of entries removed, which *)
(* the code never frees.                                                   *)
(***************************************************************************)
EXTENDS Integers, Sequences

CONSTANTS
  MP_HASH_SIZE,
  Addrs  \* the addresses the debugger and the program use

ASSUME MatchpointAssumption ==
  /\ MP_HASH_SIZE \in Nat \ {0}
  /\ Addrs \subseteq Nat

VARIABLES
  mp_hash, \* the chains
  answer   \* the last request or check, its matchpoint if any, and the reply

vars == <<mp_hash, answer>>

BP_MEMORY == 0
WP_WRITE  == 2
Types     == 0 .. 9   \* what %1d can read
Entry     == [type : {BP_MEMORY, WP_WRITE}, addr : Addrs]
Buckets   == 0 .. MP_HASH_SIZE - 1

Answers   == [op : {"none", "Z", "z", "refused", "check"}, named : SUBSET Entry,
              reply : {"none", "OK", "", "E01", "stop", "run"}]
Answer(op, named, reply) == [op |-> op, named |-> named, reply |-> reply]

TypeOK ==
  /\ mp_hash \in [Buckets -> Seq(Entry)]
  /\ answer \in Answers

Init ==
  /\ mp_hash = [b \in Buckets |-> <<>>]
  /\ answer = Answer("none", {}, "none")

-----------------------------------------------------------------------------
hv(e) == e.addr % MP_HASH_SIZE

\* Where an entry is in its chain.
\* Mutant: an entry matches on its address alone.
PositionsOfAddr(chain, e) == {i \in DOMAIN chain : chain[i].addr = e.addr}
Positions(chain, e) == {i \in DOMAIN chain : chain[i] = e}

mp_hash_lookup(e) == Positions(mp_hash[hv(e)], e) # {}

\* Mutant: only the head of the chain is looked at.
mp_hash_addAlways(e) ==
  IF Positions(mp_hash[hv(e)], e) = {1} THEN UNCHANGED mp_hash
  ELSE mp_hash' = [mp_hash EXCEPT ![hv(e)] = <<e>> \o @]
mp_hash_add(e) ==
  IF mp_hash_lookup(e)
  THEN UNCHANGED mp_hash
  ELSE mp_hash' = [mp_hash EXCEPT ![hv(e)] = <<e>> \o @]

First(S) == CHOOSE i \in S : \A j \in S : i <= j
Unlinked(chain, i) == SubSeq(chain, 1, i - 1) \o SubSeq(chain, i + 1, Len(chain))

mp_hash_delete(e) ==
  mp_hash' = [mp_hash EXCEPT ![hv(e)] =
                IF Positions(@, e) = {} THEN @ ELSE Unlinked(@, First(Positions(@, e)))]

Matchpoint(t, a) == [type |-> t, addr |-> a]

\* Z and z answer OK for the types the table holds, "" for the other three of
\* the protocol, and E01 for the rest and for what sscanf cannot read.
\* Mutant: every type of the protocol is inserted.
rsp_insert_anyType(t, a) ==
  /\ t \in 0 .. 4
  /\ mp_hash_add(Matchpoint(t, a))
  /\ answer' = Answer("Z", {Matchpoint(t, a)}, "OK")
rsp_insert_matchpoint(t, a) ==
  /\ t \in {BP_MEMORY, WP_WRITE}
  /\ mp_hash_add(Matchpoint(t, a))
  /\ answer' = Answer("Z", {Matchpoint(t, a)}, "OK")

rsp_remove_matchpoint(t, a) ==
  /\ t \in {BP_MEMORY, WP_WRITE}
  /\ mp_hash_delete(Matchpoint(t, a))
  /\ answer' = Answer("z", {Matchpoint(t, a)}, "OK")

RefusedMatchpoint(t) ==
  /\ t \notin {BP_MEMORY, WP_WRITE}
  /\ answer' = Answer("refused", {}, IF t \in 1 .. 4 THEN "" ELSE "E01")
  /\ UNCHANGED mp_hash

\* The look-ups of rsp_check_stall and rsp_check_watch.
CheckMatchpoint(e) ==
  /\ answer' = Answer("check", {e}, IF mp_hash_lookup(e) THEN "stop" ELSE "run")
  /\ UNCHANGED mp_hash

Next ==
  \/ \E t \in Types, a \in Addrs : rsp_insert_matchpoint(t, a)
  \/ \E t \in Types, a \in Addrs : rsp_remove_matchpoint(t, a)
  \/ \E t \in Types : RefusedMatchpoint(t)
  \/ \E e \in Entry : CheckMatchpoint(e)

Spec == Init /\ [][Next]_vars

-----------------------------------------------------------------------------
(***************************************************************************)
(* Properties                                                              *)
(***************************************************************************)

\* An entry is in the chain its address hashes to, and only once.
Linked ==
  \A b \in Buckets : \A i, j \in DOMAIN mp_hash[b] :
    /\ hv(mp_hash[b][i]) = b
    /\ mp_hash[b][i] = mp_hash[b][j] => i = j

InChain(e, b) == \E i \in DOMAIN mp_hash[b] : mp_hash[b][i] = e
Contents == {e \in Entry : \E b \in Buckets : InChain(e, b)}

AsASet == INSTANCE MatchpointSet WITH
            Matchpoints <- Entry, Supported <- Entry, set <- Contents

\* The table behaves as a set of <type, address> pairs, so a matchpoint that
\* was acknowledged is hit, and one whose removal was acknowledged is not.
ActsAsASet == AsASet!Spec
=============================================================================
