-------------------------- MODULE MatchpointProofs --------------------------
(***************************************************************************)
(* The matchpoint table keeps its chains well formed, and implements a set.*)
(***************************************************************************)
EXTENDS Matchpoints, SequenceTheorems, TLAPS

\* The chain after an entry was linked at its head.
LEMMA PushHead ==
  ASSUME NEW S, NEW c \in Seq(S), NEW e \in S
  PROVE  /\ <<e>> \o c \in Seq(S)
         /\ Len(<<e>> \o c) = Len(c) + 1
         /\ (<<e>> \o c)[1] = e
         /\ \A i \in 1 .. Len(c) : (<<e>> \o c)[i + 1] = c[i]
  OBVIOUS

\* The chain after the entry at position p was unlinked.
LEMMA UnlinkAt ==
  ASSUME NEW S, NEW c \in Seq(S), NEW p \in DOMAIN c
  PROVE  /\ Unlinked(c, p) \in Seq(S)
         /\ Len(Unlinked(c, p)) = Len(c) - 1
         /\ \A i \in 1 .. Len(c) - 1 :
              Unlinked(c, p)[i] = IF i < p THEN c[i] ELSE c[i + 1]
<1> DEFINE a == SubSeq(c, 1, p - 1)
           z == SubSeq(c, p + 1, Len(c))
<1>1. /\ Len(c) \in Nat
      /\ p \in 1 .. Len(c)
  OBVIOUS
<1>2. /\ a \in Seq(S)
      /\ Len(a) = p - 1
      /\ \A i \in 1 .. p - 1 : a[i] = c[i]
  BY <1>1
<1>3. /\ z \in Seq(S)
      /\ Len(z) = Len(c) - p
      /\ \A i \in 1 .. Len(c) - p : z[i] = c[i + p]
  BY <1>1
<1>4. Unlinked(c, p) = a \o z
  BY DEF Unlinked
<1> HIDE DEF a, z
<1>5. /\ a \o z \in Seq(S)
      /\ Len(a \o z) = Len(a) + Len(z)
      /\ \A i \in 1 .. Len(a) + Len(z) :
           (a \o z)[i] = IF i <= Len(a) THEN a[i] ELSE z[i - Len(a)]
  BY <1>2, <1>3, SMTT(60)
<1>6. ASSUME NEW i \in 1 .. Len(c) - 1
      PROVE  Unlinked(c, p)[i] = IF i < p THEN c[i] ELSE c[i + 1]
  <2>1. CASE i < p
    BY <1>1, <1>2, <1>3, <1>4, <1>5, <2>1, SMTT(60)
  <2>2. CASE ~(i < p)
    <3>1. i - Len(a) \in 1 .. Len(c) - p
      BY <1>1, <1>2, <2>2
    <3>2. z[i - Len(a)] = c[i + 1]
      BY <1>1, <1>2, <1>3, <3>1, SMTT(60)
    <3>3. /\ i \in 1 .. Len(a) + Len(z)
          /\ ~(i <= Len(a))
      BY <1>1, <1>2, <1>3, <2>2
    <3>4. (a \o z)[i] = z[i - Len(a)]
      BY <1>5, <3>3
    <3> QED
      BY <1>4, <2>2, <3>2, <3>4
  <2> QED
    BY <2>1, <2>2
<1> QED
  BY <1>1, <1>2, <1>3, <1>4, <1>5, <1>6, SMTT(30)

-----------------------------------------------------------------------------
IInv == TypeOK /\ Linked

LEMMA HashInBuckets ==
  ASSUME NEW e \in Entry
  PROVE  hv(e) \in Buckets
<1>1. e.addr \in Nat
  BY MatchpointAssumption DEF Entry
<1>2. MP_HASH_SIZE \in Nat /\ MP_HASH_SIZE > 0
  BY MatchpointAssumption
<1>3. e.addr % MP_HASH_SIZE \in 0 .. MP_HASH_SIZE - 1
  BY <1>1, <1>2
<1> QED
  BY <1>3 DEF hv, Buckets

\* The answers of the requests and of the checks.
LEMMA AnswerTypes ==
  ASSUME NEW e \in Entry
  PROVE  /\ Answer("Z", {e}, "OK") \in Answers
         /\ Answer("z", {e}, "OK") \in Answers
         /\ \A r \in {"stop", "run"} : Answer("check", {e}, r) \in Answers
  BY DEF Answers, Answer

LEMMA Together ==
  ASSUME mp_hash' \in [Buckets -> Seq(Entry)], Linked', answer' \in Answers
  PROVE  IInv'
  BY DEF IInv, TypeOK, Answers, Entry, Buckets, BP_MEMORY, WP_WRITE

LEMMA Bucketed ==
  ASSUME NEW e \in Entry, IInv, NEW b \in Buckets, InChain(e, b)
  PROVE  b = hv(e)
  BY DEF IInv, Linked, InChain

\* A look-up finds exactly what the chains hold.
LEMMA LookupFinds ==
  ASSUME NEW e \in Entry, IInv
  PROVE  mp_hash_lookup(e) <=> e \in Contents
<1>1. mp_hash_lookup(e) <=> InChain(e, hv(e))
  BY DEF mp_hash_lookup, Positions, InChain
<1>2. hv(e) \in Buckets
  BY HashInBuckets
<1> QED
  BY <1>1, <1>2, Bucketed DEF Contents

\* Linking an entry that is in no chain keeps the chains well formed, and
\* puts just that entry into the table.
LEMMA Added ==
  ASSUME NEW e \in Entry, IInv, e \notin Contents,
         mp_hash' = [mp_hash EXCEPT ![hv(e)] = <<e>> \o @]
  PROVE  /\ mp_hash' \in [Buckets -> Seq(Entry)]
         /\ Linked'
         /\ Contents' = Contents \cup {e}
<1> DEFINE h == hv(e)
           c == mp_hash[h]
           d == <<e>> \o c
<1>1. h \in Buckets
  BY HashInBuckets
<1>2. mp_hash \in [Buckets -> Seq(Entry)]
  BY DEF IInv, TypeOK
<1>3. c \in Seq(Entry)
  BY <1>1, <1>2
<1>4. /\ d \in Seq(Entry)
      /\ Len(d) = Len(c) + 1
      /\ d[1] = e
      /\ \A i \in 1 .. Len(c) : d[i + 1] = c[i]
  BY <1>3, PushHead
<1>5. \A b \in Buckets : mp_hash'[b] = IF b = h THEN d ELSE mp_hash[b]
  BY <1>1, <1>2
<1>6. mp_hash' \in [Buckets -> Seq(Entry)]
  BY <1>1, <1>2, <1>4
<1> HIDE DEF d
<1> /\ Len(c) \in Nat /\ DOMAIN c = 1 .. Len(c)
    /\ DOMAIN d = 1 .. Len(c) + 1
  BY <1>3, <1>4
<1>7. \A j \in DOMAIN d : j = 1 \/ (j - 1 \in DOMAIN c /\ d[j] = c[j - 1])
  BY <1>3, <1>4
<1>8. \A j \in DOMAIN c : c[j] # e /\ hv(c[j]) = h
  BY <1>1 DEF IInv, Linked, Contents, InChain
<1>9. \A i, j \in DOMAIN d : hv(d[i]) = h /\ (d[i] = d[j] => i = j)
  <2>1. \A j \in DOMAIN d : hv(d[j]) = h
    BY <1>4, <1>7, <1>8
  <2>2. \A i, j \in DOMAIN c : c[i] = c[j] => i = j
    BY <1>1 DEF IInv, Linked
  <2> SUFFICES ASSUME NEW i \in DOMAIN d, NEW j \in DOMAIN d, d[i] = d[j]
               PROVE  i = j
    BY <2>1
  <2>3. i \in Int /\ j \in Int
    BY <1>4
  <2> QED
    BY <1>4, <1>7, <1>8, <2>2, <2>3, SMTT(30)
<1>10. Linked'
  <2> SUFFICES ASSUME NEW b \in Buckets, NEW i \in DOMAIN mp_hash'[b],
                      NEW j \in DOMAIN mp_hash'[b]
               PROVE  /\ hv(mp_hash'[b][i]) = b
                      /\ mp_hash'[b][i] = mp_hash'[b][j] => i = j
    BY Zenon DEF Linked, hv, Buckets
  <2>1. CASE b = h
    BY <1>5, <1>9, <2>1
  <2>2. CASE b # h
    BY <1>5, <2>2 DEF IInv, Linked
  <2> QED
    BY <2>1, <2>2
<1>11. \A x \in Entry, b \in Buckets :
         InChain(x, b)' <=> InChain(x, b) \/ (b = h /\ x = e)
  <2> SUFFICES ASSUME NEW x \in Entry, NEW b \in Buckets
               PROVE  (\E i \in DOMAIN mp_hash'[b] : mp_hash'[b][i] = x)
                        <=> InChain(x, b) \/ (b = h /\ x = e)
    BY DEF InChain
  <2>1. CASE b = h
    <3>1. mp_hash'[b] = d
      BY <1>5, <2>1
    <3>2. ASSUME NEW i \in DOMAIN c PROVE i + 1 \in DOMAIN d /\ d[i + 1] = c[i]
      BY <1>3, <1>4
    <3>3. 1 \in DOMAIN d
      BY <1>3, <1>4
    <3>4. (\E i \in DOMAIN d : d[i] = x) <=> (\E i \in DOMAIN c : c[i] = x) \/ x = e
      <4>1. ASSUME NEW i \in DOMAIN d, d[i] = x
            PROVE  (\E k \in DOMAIN c : c[k] = x) \/ x = e
        BY <1>4, <1>7, <4>1
      <4>2. ASSUME NEW i \in DOMAIN c, c[i] = x
            PROVE  \E k \in DOMAIN d : d[k] = x
        BY <3>2, <4>2
      <4> QED
        BY <1>4, <3>3, <4>1, <4>2
    <3> QED
      BY <2>1, <3>1, <3>4 DEF InChain
  <2>2. CASE b # h
    BY <1>5, <2>2 DEF InChain
  <2> QED
    BY <2>1, <2>2
<1>12. Contents' = {x \in Entry : \E b \in Buckets : InChain(x, b)'}
  BY DEF Contents, Entry, Buckets, BP_MEMORY, WP_WRITE
<1>13. Contents' = Contents \cup {e}
  BY <1>1, <1>11, <1>12 DEF Contents
<1> QED
  BY <1>6, <1>10, <1>13

\* Unlinking the one entry that matches keeps the chains well formed, and
\* takes just that entry out of the table.
LEMMA Deleted ==
  ASSUME NEW e \in Entry, IInv, e \in Contents, mp_hash_delete(e)
  PROVE  /\ mp_hash' \in [Buckets -> Seq(Entry)]
         /\ Linked'
         /\ Contents' = Contents \ {e}
<1> DEFINE h == hv(e)
           c == mp_hash[h]
           p == First(Positions(c, e))
           d == Unlinked(c, p)
<1>1. h \in Buckets
  BY HashInBuckets
<1>2. mp_hash \in [Buckets -> Seq(Entry)]
  BY DEF IInv, TypeOK
<1>3. c \in Seq(Entry)
  BY <1>1, <1>2
<1> /\ Len(c) \in Nat /\ DOMAIN c = 1 .. Len(c)
  BY <1>3
<1>4. \A i, j \in DOMAIN c : hv(c[i]) = h /\ (c[i] = c[j] => i = j)
  BY <1>1 DEF IInv, Linked
<1>5. Positions(c, e) # {}
  BY LookupFinds DEF mp_hash_lookup
<1>6. p \in DOMAIN c /\ c[p] = e
  <2>1. PICK q \in DOMAIN c : c[q] = e
    BY <1>5 DEF Positions
  <2>2. Positions(c, e) = {q}
    BY <1>4, <2>1 DEF Positions
  <2>3. \E i \in {q} : \A j \in {q} : i <= j
    BY <2>1
  <2>4. p = q
    BY <2>2, <2>3 DEF First
  <2> QED
    BY <2>1, <2>4
<1>7. /\ d \in Seq(Entry)
      /\ Len(d) = Len(c) - 1
      /\ \A i \in 1 .. Len(c) - 1 : d[i] = IF i < p THEN c[i] ELSE c[i + 1]
  BY <1>3, <1>6, UnlinkAt
<1>8. mp_hash' = [mp_hash EXCEPT ![h] = d]
  BY <1>5 DEF mp_hash_delete
<1>9. \A b \in Buckets : mp_hash'[b] = IF b = h THEN d ELSE mp_hash[b]
  BY <1>1, <1>2, <1>8
<1>10. mp_hash' \in [Buckets -> Seq(Entry)]
  BY <1>1, <1>2, <1>7, <1>8
<1> HIDE DEF d, p
<1> DOMAIN d = 1 .. Len(c) - 1 /\ p \in 1 .. Len(c)
  BY <1>6, <1>7
<1> DEFINE old(i) == IF i < p THEN i ELSE i + 1
<1>11. \A i \in DOMAIN d : old(i) \in DOMAIN c /\ old(i) # p /\ d[i] = c[old(i)]
  BY <1>7
<1>12. \A k \in DOMAIN c : k # p => \E i \in DOMAIN d : old(i) = k
  <2> SUFFICES ASSUME NEW k \in DOMAIN c, k # p
               PROVE  \E i \in DOMAIN d : old(i) = k
    OBVIOUS
  <2>1. CASE k < p
    BY <2>1
  <2>2. CASE ~(k < p)
    <3>1. k - 1 \in DOMAIN d /\ old(k - 1) = k
      BY <2>2
    <3> QED
      BY <3>1
  <2> QED
    BY <2>1, <2>2
<1>13. \A i, j \in DOMAIN d : old(i) = old(j) => i = j
  OBVIOUS
<1> HIDE DEF old, c
<1>14. \A i, j \in DOMAIN d : hv(d[i]) = h /\ (d[i] = d[j] => i = j)
  BY <1>4, <1>11, <1>13
<1>15. Linked'
  <2> SUFFICES ASSUME NEW b \in Buckets, NEW i \in DOMAIN mp_hash'[b],
                      NEW j \in DOMAIN mp_hash'[b]
               PROVE  /\ hv(mp_hash'[b][i]) = b
                      /\ mp_hash'[b][i] = mp_hash'[b][j] => i = j
    BY Zenon DEF Linked, hv, Buckets
  <2>1. CASE b = h
    BY <1>9, <1>14, <2>1
  <2>2. CASE b # h
    BY <1>9, <2>2 DEF IInv, Linked
  <2> QED
    BY <2>1, <2>2
<1>16. \A x \in Entry : (\E i \in DOMAIN d : d[i] = x)
                          <=> (\E i \in DOMAIN c : c[i] = x) /\ x # e
  <2> SUFFICES ASSUME NEW x \in Entry
               PROVE  (\E i \in DOMAIN d : d[i] = x)
                        <=> (\E i \in DOMAIN c : c[i] = x) /\ x # e
    OBVIOUS
  <2>1. ASSUME NEW i \in DOMAIN d, d[i] = x
        PROVE  (\E k \in DOMAIN c : c[k] = x) /\ x # e
    BY <1>4, <1>6, <1>11, <2>1
  <2>2. ASSUME NEW k \in DOMAIN c, c[k] = x, x # e
        PROVE  \E i \in DOMAIN d : d[i] = x
    BY <1>6, <1>11, <1>12, <2>2
  <2> QED
    BY <2>1, <2>2
<1>17. \A x \in Entry, b \in Buckets :
         InChain(x, b)' <=> InChain(x, b) /\ ~(b = h /\ x = e)
  <2> SUFFICES ASSUME NEW x \in Entry, NEW b \in Buckets
               PROVE  (\E i \in DOMAIN mp_hash'[b] : mp_hash'[b][i] = x)
                        <=> InChain(x, b) /\ ~(b = h /\ x = e)
    BY DEF InChain
  <2>1. CASE b = h
    BY <1>9, <1>16, <2>1 DEF InChain, c
  <2>2. CASE b # h
    BY <1>9, <2>2 DEF InChain
  <2> QED
    BY <2>1, <2>2
<1>18. Contents' = {x \in Entry : \E b \in Buckets : InChain(x, b)'}
  BY DEF Contents, Entry, Buckets, BP_MEMORY, WP_WRITE
<1>19. Contents' = Contents \ {e}
  BY <1>1, <1>17, <1>18, Bucketed DEF Contents
<1> QED
  BY <1>10, <1>15, <1>19

-----------------------------------------------------------------------------
\* A matchpoint that is already there is not linked again.
LEMMA Kept ==
  ASSUME IInv, UNCHANGED mp_hash
  PROVE  /\ mp_hash' \in [Buckets -> Seq(Entry)]
         /\ Linked'
         /\ Contents' = Contents
  BY DEF IInv, TypeOK, Linked, Contents, InChain, hv, Buckets, Entry

\* What each action does to the set the table stands for.
LEMMA InsertStep ==
  ASSUME IInv, NEW t \in Types, NEW a \in Addrs, rsp_insert_matchpoint(t, a)
  PROVE  /\ IInv'
         /\ Matchpoint(t, a) \in Entry
         /\ Contents' = Contents \cup {Matchpoint(t, a)}
<1> DEFINE e == Matchpoint(t, a)
<1>1. e \in Entry
  BY DEF rsp_insert_matchpoint, Matchpoint, Entry
<1>2. answer' = Answer("Z", {Matchpoint(t, a)}, "OK") /\ mp_hash_add(e)
  BY DEF rsp_insert_matchpoint
<1>3. answer' \in Answers
  BY <1>1, <1>2, AnswerTypes
<1> HIDE DEF e
<1>4. CASE mp_hash_lookup(e)
  <2>1. UNCHANGED mp_hash
    BY <1>2, <1>4 DEF mp_hash_add
  <2>2. e \in Contents
    BY <1>1, <1>4, LookupFinds
  <2>3. IInv'
    BY <1>3, <2>1, Kept, Together
  <2> QED
    BY <1>1, <2>1, <2>2, <2>3, Kept DEF e
<1>5. CASE ~mp_hash_lookup(e)
  <2>1. mp_hash' = [mp_hash EXCEPT ![hv(e)] = <<e>> \o @]
    BY <1>2, <1>5 DEF mp_hash_add
  <2>2. e \notin Contents
    BY <1>1, <1>5, LookupFinds
  <2>3. /\ mp_hash' \in [Buckets -> Seq(Entry)]
        /\ Linked'
        /\ Contents' = Contents \cup {e}
    BY <1>1, <2>1, <2>2, Added
  <2>4. IInv'
    BY <1>3, <2>3, Together
  <2> QED
    BY <1>1, <2>3, <2>4 DEF e
<1> QED
  BY <1>4, <1>5

LEMMA RemoveStep ==
  ASSUME IInv, NEW t \in Types, NEW a \in Addrs, rsp_remove_matchpoint(t, a)
  PROVE  /\ IInv'
         /\ Matchpoint(t, a) \in Entry
         /\ Contents' = Contents \ {Matchpoint(t, a)}
<1> DEFINE e == Matchpoint(t, a)
<1>1. e \in Entry
  BY DEF rsp_remove_matchpoint, Matchpoint, Entry
<1>2. answer' = Answer("z", {Matchpoint(t, a)}, "OK") /\ mp_hash_delete(e)
  BY DEF rsp_remove_matchpoint
<1>3. answer' \in Answers
  BY <1>1, <1>2, AnswerTypes
<1> HIDE DEF e
<1>4. CASE e \in Contents
  <2>1. /\ mp_hash' \in [Buckets -> Seq(Entry)]
        /\ Linked'
        /\ Contents' = Contents \ {e}
    BY <1>1, <1>2, <1>4, Deleted
  <2>2. IInv'
    BY <1>3, <2>1, Together
  <2> QED
    BY <1>1, <2>1, <2>2 DEF e
<1>5. CASE e \notin Contents
  <2>1. Positions(mp_hash[hv(e)], e) = {}
    BY <1>1, <1>5, LookupFinds DEF mp_hash_lookup
  <2>2. hv(e) \in Buckets /\ mp_hash \in [Buckets -> Seq(Entry)]
    BY <1>1, HashInBuckets DEF IInv, TypeOK
  <2>3. UNCHANGED mp_hash
    BY <1>2, <2>1, <2>2 DEF mp_hash_delete
  <2>4. IInv'
    BY <1>3, <2>3, Kept, Together
  <2> QED
    BY <1>1, <1>5, <2>3, <2>4, Kept DEF e
<1> QED
  BY <1>4, <1>5

LEMMA RefuseStep ==
  ASSUME IInv, NEW t \in Types, RefusedMatchpoint(t)
  PROVE  /\ IInv'
         /\ Contents' = Contents
         /\ \E r \in {"", "E01"} : answer' = Answer("refused", {}, r)
<1>1. UNCHANGED mp_hash
  BY DEF RefusedMatchpoint
<1>2. PICK r \in {"", "E01"} : answer' = Answer("refused", {}, r)
  BY DEF RefusedMatchpoint
<1>3. Answer("refused", {}, r) \in Answers
  BY DEF Answers, Answer
<1>4. answer' \in Answers
  BY <1>2, <1>3
<1> QED
  BY <1>1, <1>2, <1>4, Kept, Together

LEMMA CheckStep ==
  ASSUME IInv, NEW e \in Entry, CheckMatchpoint(e)
  PROVE  /\ IInv'
         /\ Contents' = Contents
         /\ answer' = Answer("check", {e}, IF e \in Contents THEN "stop" ELSE "run")
  <1>1. UNCHANGED mp_hash
  BY DEF CheckMatchpoint
<1>2. answer' = Answer("check", {e}, IF e \in Contents THEN "stop" ELSE "run")
  BY LookupFinds DEF CheckMatchpoint
<1>3. answer' \in Answers
  BY <1>2, AnswerTypes
<1> QED
  BY <1>1, <1>2, <1>3, Kept, Together

LEMMA InitHolds == Init => IInv /\ Contents = {}
<1>1. Init => answer \in Answers
  BY DEF Init, Answers, Answer
<1> QED
  BY <1>1 DEF Init, IInv, TypeOK, Linked, Contents, InChain

-----------------------------------------------------------------------------
LEMMA Inductive == Spec => []IInv
<1>1. Init => IInv
  BY InitHolds
<1>2. IInv /\ [Next]_vars => IInv'
  <2> SUFFICES ASSUME IInv, [Next]_vars
               PROVE  IInv'
    OBVIOUS
  <2>1. ASSUME NEW t \in Types, NEW a \in Addrs, rsp_insert_matchpoint(t, a)
        PROVE  IInv'
    BY <2>1, InsertStep
  <2>2. ASSUME NEW t \in Types, NEW a \in Addrs, rsp_remove_matchpoint(t, a)
        PROVE  IInv'
    BY <2>2, RemoveStep
  <2>3. ASSUME NEW t \in Types, RefusedMatchpoint(t)
        PROVE  IInv'
    BY <2>3, RefuseStep
  <2>4. ASSUME NEW e \in Entry, CheckMatchpoint(e)
        PROVE  IInv'
    BY <2>4, CheckStep
  <2>5. CASE UNCHANGED vars
    BY <2>5, Kept DEF IInv, TypeOK, vars
  <2> QED
    BY <2>1, <2>2, <2>3, <2>4, <2>5 DEF Next
<1> QED
  BY <1>1, <1>2, PTL DEF Spec

\* Every chain stays a sequence of supported matchpoints: a type the server
\* refuses never gets into the table.
THEOREM MatchpointTypes == Spec => []TypeOK
  BY Inductive, PTL DEF IInv

\* No entry is ever in a chain twice or in the wrong one, so removing an
\* entry removes all there is of it, however often it was inserted.
THEOREM WellLinked == Spec => []Linked
  BY Inductive, PTL DEF IInv

\* The hash table of rsp-server.c implements a set: every look-up answers
\* membership, for every size of the table and every set of addresses.
THEOREM ImplementsSet == Spec => ActsAsASet
<1>1. Init => AsASet!Init
  BY InitHolds DEF AsASet!Init, AsASet!Answer, Answer, Init
<1>2. IInv /\ [Next]_vars => [AsASet!Next]_<<Contents, answer>>
  <2> SUFFICES ASSUME IInv, [Next]_vars
               PROVE  AsASet!Next \/ UNCHANGED <<Contents, answer>>
    OBVIOUS
  <2>1. ASSUME NEW t \in Types, NEW a \in Addrs, rsp_insert_matchpoint(t, a)
        PROVE  AsASet!Next
    <3>1. AsASet!Insert(Matchpoint(t, a))
      BY <2>1, InsertStep DEF AsASet!Insert, AsASet!Answer, Answer, rsp_insert_matchpoint
    <3> QED
      BY <2>1, <3>1, InsertStep DEF AsASet!Next
  <2>2. ASSUME NEW t \in Types, NEW a \in Addrs, rsp_remove_matchpoint(t, a)
        PROVE  AsASet!Next
    <3>1. AsASet!Remove(Matchpoint(t, a))
      BY <2>2, RemoveStep DEF AsASet!Remove, AsASet!Answer, Answer, rsp_remove_matchpoint
    <3> QED
      BY <2>2, <3>1, RemoveStep DEF AsASet!Next
  <2>3. ASSUME NEW t \in Types, RefusedMatchpoint(t)
        PROVE  AsASet!Next
    BY <2>3, RefuseStep DEF AsASet!Next, AsASet!Refuse, AsASet!Answer, Answer
  <2>4. ASSUME NEW e \in Entry, CheckMatchpoint(e)
        PROVE  AsASet!Next
    BY <2>4, CheckStep DEF AsASet!Next, AsASet!Check, AsASet!Answer, Answer
  <2>5. CASE UNCHANGED vars
    BY <2>5, Kept DEF vars
  <2> QED
    BY <2>1, <2>2, <2>3, <2>4, <2>5 DEF Next
<1> QED
  BY <1>1, <1>2, Inductive, PTL DEF Spec, ActsAsASet, AsASet!Spec

=============================================================================
