------------------------ MODULE MessageChannelProofs ------------------------
(***************************************************************************)
(* MessageChannel for every capacity and any number of deaths and          *)
(* failures: a late header wipes no message, only a full queue loses one,  *)
(* and a segment without a header has someone who will store it, or has    *)
(* lost its creator.  The strengthening: a header                          *)
(* that is still to be stored is owned by one process, its segment has no  *)
(* size, and after the store of a size nothing is left to store in that    *)
(* header; a segment without a size has seen no message.                   *)
(***************************************************************************)
EXTENDS MessageChannel, SequenceTheorems, TLAPS

Store == Keys \X {"head", "tail", "size"}

\* The size of a header is its last store.
SizeIsLast(s) ==
    \A i, j \in DOMAIN s : s[i][2] = "size" /\ s[j][1] = s[i][1] => j <= i

Types ==
    /\ there \in [Keys -> BOOLEAN]
    /\ head \in [Keys -> Nat] /\ tail \in [Keys -> Nat] /\ size \in [Keys -> {0, Capacity}]
    /\ pc \in [Procs -> {"down", "half", "attach", "up", "advance", "publish"}]
    /\ todo \in [Procs -> Seq(Store)]
    /\ sTail \in [Procs -> Nat]
    /\ accepted \in [Keys -> Nat] /\ returned \in [Keys -> Nat]

HeadersToCome ==
    /\ \A p \in Procs : SizeIsLast(todo[p])
    /\ \A p \in Procs : \A k \in Pending(p) : there[k] /\ size[k] = 0
    /\ \A p, q \in Procs : p # q => Pending(p) \cap Pending(q) = {}
    /\ \A k \in Keys : ~there[k] => size[k] = 0

\* No message has gone through a segment without a size.
BareIsUnused == \A k \in Keys : size[k] = 0 => head[k] = 0 /\ tail[k] = 0

SenderHoldsTail ==
    \A p \in Procs :
        /\ pc[p] \in {"advance", "publish"} => sTail[p] = tail[SendKey(p)]
        /\ pc[p] = "publish" => size[SendKey(p)] # 0

IInv ==
    /\ Types
    /\ HeadersToCome
    /\ BareIsUnused
    /\ SenderHoldsTail
    /\ NothingWiped

LEMMA KeyTypes == ASSUME NEW p \in Procs
                  PROVE  /\ SendKey(p) \in Keys /\ RecvKey(p) \in Keys
                         /\ \A q \in Procs : SendKey(q) = SendKey(p) => q = p
  BY DEF Procs, Keys, SendKey, RecvKey

LEMMA PendingSame == ASSUME UNCHANGED todo PROVE \A p \in Procs : Pending(p)' = Pending(p)
  BY Zenon DEF Pending

LEMMA PendingKeys == ASSUME IInv, NEW p \in Procs PROVE Pending(p) \subseteq Keys
  <1>1. todo[p] \in Seq(Store)
    BY DEF IInv, Types
  <1>2. \A i \in DOMAIN todo[p] : todo[p][i] \in Store
    BY <1>1
  <1> QED BY <1>2 DEF Pending, Store

LEMMA HeadersSame == ASSUME IInv, UNCHANGED <<there, size, todo>> PROVE HeadersToCome'
  <1>1. /\ \A p \in Procs : Pending(p)' = Pending(p)
        /\ there' = there /\ size' = size /\ todo' = todo
    BY PendingSame
  <1>2. HeadersToCome
    BY DEF IInv
  <1>3. \A p \in Procs : SizeIsLast(todo'[p])
    BY <1>1, <1>2, Zenon DEF HeadersToCome
  <1>4. \A p \in Procs : \A k \in Pending(p)' : there'[k] /\ size'[k] = 0
    BY <1>1, <1>2, Zenon DEF HeadersToCome
  <1>5. \A p, q \in Procs : p # q => Pending(p)' \cap Pending(q)' = {}
    BY <1>1, <1>2, Zenon DEF HeadersToCome
  <1>6. \A k \in Keys : ~there'[k] => size'[k] = 0
    BY <1>1, <1>2, Zenon DEF HeadersToCome
  <1> QED BY <1>3, <1>4, <1>5, <1>6, Zenon DEF HeadersToCome

LEMMA InitInv == ASSUME Init PROVE IInv
  BY ChannelAssumption
  DEF Init, IInv, Types, HeadersToCome, BareIsUnused, SenderHoldsTail, NothingWiped,
      SizeIsLast, Pending, Store

\* A new segment's stores are added behind those of the other one.
LEMMA AddStores ==
    ASSUME NEW s \in Seq(Store), SizeIsLast(s), NEW k \in Keys,
           \A i \in DOMAIN s : s[i][1] # k
    PROVE  LET t == s \o HeaderStores(k)
           IN  /\ t \in Seq(Store)
               /\ SizeIsLast(t)
               /\ {t[i][1] : i \in DOMAIN t} = {s[i][1] : i \in DOMAIN s} \cup {k}
  <1> DEFINE h == HeaderStores(k)
             t == s \o h
  <1>1. /\ h \in Seq(Store) /\ Len(h) = 3
        /\ h[1] = <<k, "head">> /\ h[2] = <<k, "tail">> /\ h[3] = <<k, "size">>
    BY DEF HeaderStores, Store
  <1>2. /\ \A i \in 1 .. 3 : h[i][1] = k
        /\ \A i \in 1 .. 3 : h[i][2] = "size" => i = 3
    BY <1>1
  <1> HIDE DEF h
  <1>3. /\ t \in Seq(Store) /\ Len(t) = Len(s) + 3 /\ Len(s) \in Nat
        /\ \A i \in 1 .. Len(s) : t[i] = s[i]
        /\ \A i \in (Len(s) + 1) .. (Len(s) + 3) : t[i] = h[i - Len(s)]
        /\ DOMAIN s = 1 .. Len(s) /\ DOMAIN t = 1 .. Len(s) + 3
    <2>1. /\ t \in Seq(Store) /\ Len(t) = Len(s) + Len(h)
          /\ \A i \in 1 .. Len(s) + Len(h) : t[i] = IF i <= Len(s) THEN s[i] ELSE h[i - Len(s)]
      BY <1>1, ConcatProperties
    <2>2. Len(s) \in Nat /\ DOMAIN s = 1 .. Len(s) /\ DOMAIN t = 1 .. Len(t)
      BY <2>1
    <2> HIDE DEF t
    <2> QED BY <1>1, <2>1, <2>2
  <1> HIDE DEF t
  <1>4. \A i \in (Len(s) + 1) .. (Len(s) + 3) : i - Len(s) \in 1 .. 3
    BY <1>3
  <1>5. /\ \A i \in (Len(s) + 1) .. (Len(s) + 3) : t[i][1] = k
        /\ \A i \in (Len(s) + 1) .. (Len(s) + 3) : t[i][2] = "size" => i = Len(s) + 3
    <2> SUFFICES ASSUME NEW i \in (Len(s) + 1) .. (Len(s) + 3)
                 PROVE  t[i][1] = k /\ (t[i][2] = "size" => i = Len(s) + 3)
      OBVIOUS
    <2>1. t[i] = h[i - Len(s)] /\ i - Len(s) \in 1 .. 3
      BY <1>3, <1>4
    <2>2. t[i][1] = k
      BY <1>2, <2>1
    <2>3. t[i][2] = "size" => i - Len(s) = 3
      BY <1>2, <2>1
    <2> QED BY <1>3, <2>1, <2>2, <2>3
  <1>6. SizeIsLast(t)
    BY <1>3, <1>5 DEF SizeIsLast
  <1>7. {t[i][1] : i \in DOMAIN t} = {s[i][1] : i \in DOMAIN s} \cup {k}
    <2>1. ASSUME NEW i \in DOMAIN t
          PROVE  t[i][1] \in {s[j][1] : j \in DOMAIN s} \cup {k}
      <3>1. CASE i \in 1 .. Len(s)
        BY <1>3, <3>1
      <3>2. CASE i \in (Len(s) + 1) .. (Len(s) + 3)
        BY <1>5, <3>2
      <3> QED BY <1>3, <3>1, <3>2
    <2>2. ASSUME NEW j \in DOMAIN s PROVE j \in DOMAIN t /\ t[j][1] = s[j][1]
      BY <1>3
    <2>3. Len(s) + 1 \in DOMAIN t /\ t[Len(s) + 1][1] = k
      BY <1>3, <1>5
    <2> QED BY <2>1, <2>2, <2>3
  <1>8. t \in Seq(Store)
    BY <1>3
  <1> QED BY <1>6, <1>7, <1>8, Zenon DEF t, h

\* Doing the first store leaves the others, in their order.
LEMMA DoFirst ==
    ASSUME NEW s \in Seq(Store), s # << >>, SizeIsLast(s)
    PROVE  /\ Tail(s) \in Seq(Store)
           /\ SizeIsLast(Tail(s))
           /\ Head(s) \in Store /\ Head(s) = s[1] /\ 1 \in DOMAIN s
           /\ {Tail(s)[i][1] : i \in DOMAIN Tail(s)} \subseteq {s[i][1] : i \in DOMAIN s}
           /\ Head(s)[2] = "size" => Head(s)[1] \notin {Tail(s)[i][1] : i \in DOMAIN Tail(s)}
  <1>1. /\ Tail(s) \in Seq(Store) /\ Len(Tail(s)) = Len(s) - 1
        /\ Len(s) \in Nat /\ Len(s) > 0
        /\ DOMAIN s = 1 .. Len(s) /\ DOMAIN Tail(s) = 1 .. Len(s) - 1
        /\ \A i \in 1 .. Len(s) - 1 : Tail(s)[i] = s[i + 1]
        /\ Head(s) = s[1]
    OBVIOUS
  <1>2. \A i \in DOMAIN Tail(s) : i + 1 \in DOMAIN s /\ Tail(s)[i] = s[i + 1]
    BY <1>1
  <1>3. SizeIsLast(Tail(s))
    BY <1>1, <1>2 DEF SizeIsLast
  <1>4. Head(s) \in Store /\ 1 \in DOMAIN s
    BY <1>1
  <1>5. {Tail(s)[i][1] : i \in DOMAIN Tail(s)} \subseteq {s[i][1] : i \in DOMAIN s}
    BY <1>2
  <1>6. ASSUME Head(s)[2] = "size", NEW i \in DOMAIN Tail(s), Tail(s)[i][1] = Head(s)[1]
        PROVE  FALSE
    BY <1>1, <1>2, <1>4, <1>6 DEF SizeIsLast
  <1> QED BY <1>1, <1>3, <1>4, <1>5, <1>6

\* Whoever creates a segment is the only one to store its header.
LEMMA GetShmExInv ==
    ASSUME IInv, NEW p \in Procs, NEW k \in Keys, GetShmEx(p, k),
           UNCHANGED size
    PROVE  /\ there' \in [Keys -> BOOLEAN] /\ todo' \in [Procs -> Seq(Store)]
           /\ HeadersToCome'
  <1>1. CASE there[k]
    <2>1. there' = there /\ todo' = todo
      BY <1>1 DEF GetShmEx, IInv, Types
    <2> QED BY <2>1, HeadersSame DEF IInv, Types
  <1>2. CASE ~there[k]
    <2>1. /\ there' = [there EXCEPT ![k] = TRUE]
          /\ todo' = [todo EXCEPT ![p] = @ \o HeaderStores(k)]
      BY <1>2 DEF GetShmEx
    <2>2. \A q \in Procs : k \notin Pending(q)
      BY <1>2 DEF IInv, HeadersToCome
    <2>3. todo[p] \in Seq(Store) /\ SizeIsLast(todo[p])
      BY DEF IInv, Types, HeadersToCome
    <2>4. /\ todo'[p] = todo[p] \o HeaderStores(k)
          /\ \A q \in Procs : q # p => todo'[q] = todo[q]
          /\ DOMAIN todo' = Procs /\ todo' = [q \in Procs |-> todo'[q]]
      BY <2>1 DEF IInv, Types
    <2>5. /\ todo'[p] \in Seq(Store) /\ SizeIsLast(todo'[p])
          /\ Pending(p)' = Pending(p) \cup {k}
      <3>1. \A i \in DOMAIN todo[p] : todo[p][i][1] # k
        BY <2>2 DEF Pending
      <3> DEFINE t == todo[p] \o HeaderStores(k)
      <3>2. /\ t \in Seq(Store)
            /\ SizeIsLast(t)
            /\ {t[i][1] : i \in DOMAIN t} = {todo[p][i][1] : i \in DOMAIN todo[p]} \cup {k}
        BY <2>3, <3>1, AddStores, Zenon
      <3>3. todo'[p] = t
        BY <2>4
      <3> HIDE DEF t
      <3> QED BY <3>2, <3>3, Zenon DEF Pending
    <2>6. \A q \in Procs : q # p => Pending(q)' = Pending(q)
      BY <2>4 DEF Pending
    <2>7. \A q \in Procs : todo'[q] \in Seq(Store) /\ SizeIsLast(todo'[q])
      BY <2>4, <2>5 DEF IInv, Types, HeadersToCome
    <2>8. size[k] = 0
      BY <1>2 DEF IInv, HeadersToCome
    <2>9. there' \in [Keys -> BOOLEAN] /\ there'[k] /\ \A j \in Keys : j # k => there'[j] = there[j]
      BY <2>1 DEF IInv, Types
    <2>10. todo' \in [Procs -> Seq(Store)]
      BY <2>4, <2>7
    <2>11. ASSUME NEW q \in Procs, NEW j \in Pending(q)' PROVE there'[j] /\ size'[j] = 0
      <3>1. CASE j = k
        BY <2>8, <2>9, <3>1
      <3>2. CASE j # k
        <4>1. j \in Pending(q)
          BY <2>5, <2>6, <2>11, <3>2
        <4>2. j \in Keys /\ there[j] /\ size[j] = 0
          BY <4>1, PendingKeys DEF IInv, HeadersToCome
        <4> QED BY <2>9, <3>2, <4>2
      <3> QED BY <3>1, <3>2
    <2>12. \A q, r \in Procs : q # r => Pending(q)' \cap Pending(r)' = {}
      BY <2>2, <2>5, <2>6 DEF IInv, HeadersToCome
    <2>13. \A j \in Keys : ~there'[j] => size'[j] = 0
      BY <2>9 DEF IInv, HeadersToCome
    <2> QED BY <2>7, <2>9, <2>10, <2>11, <2>12, <2>13 DEF HeadersToCome
  <1> QED BY <1>1, <1>2

LEMMA CreateInv ==
    ASSUME IInv, NEW p \in Procs, CreateSend(p) \/ CreateRecv(p)
    PROVE  IInv'
  <1>1. PICK k \in Keys : GetShmEx(p, k)
    BY KeyTypes DEF CreateSend, CreateRecv
  <1>2. /\ UNCHANGED <<head, tail, size, sTail, accepted, returned>>
        /\ \E s \in {"half", "attach"} : pc' = [pc EXCEPT ![p] = s]
    BY DEF CreateSend, CreateRecv, header, history
  <1>3. /\ there' \in [Keys -> BOOLEAN] /\ todo' \in [Procs -> Seq(Store)]
        /\ HeadersToCome'
    BY <1>1, <1>2, GetShmExInv
  <1>4. Types'
    BY <1>2, <1>3 DEF IInv, Types
  <1>5. SenderHoldsTail'
    BY <1>2 DEF IInv, Types, SenderHoldsTail
  <1> QED BY <1>2, <1>3, <1>4, <1>5 DEF IInv, BareIsUnused, NothingWiped

LEMMA AttachStoreInv == ASSUME IInv, NEW p \in Procs, AttachStore(p) PROVE IInv'
  <1> DEFINE s == todo[p]
             k == Head(s)[1]
             field == Head(s)[2]
  <1>1. /\ s \in Seq(Store) /\ s # << >> /\ SizeIsLast(s)
        /\ Capacity \in Nat \ {0}
    BY ChannelAssumption DEF IInv, Types, HeadersToCome, AttachStore
  <1>2. /\ Tail(s) \in Seq(Store) /\ SizeIsLast(Tail(s))
        /\ Head(s) \in Store /\ Head(s) = s[1] /\ 1 \in DOMAIN s
        /\ {Tail(s)[i][1] : i \in DOMAIN Tail(s)} \subseteq {s[i][1] : i \in DOMAIN s}
        /\ field = "size" => k \notin {Tail(s)[i][1] : i \in DOMAIN Tail(s)}
    BY <1>1, DoFirst
  <1>3. k \in Keys /\ k \in Pending(p)
    BY <1>2 DEF Store, Pending
  <1>4. there[k] /\ size[k] = 0 /\ head[k] = 0 /\ tail[k] = 0
    BY <1>3 DEF IInv, HeadersToCome, BareIsUnused
  <1>5. /\ head' = head /\ tail' = tail
        /\ size' = IF field = "size" THEN [size EXCEPT ![k] = Capacity] ELSE size
        /\ todo' = [todo EXCEPT ![p] = Tail(s)]
        /\ UNCHANGED <<there, pc, sTail, accepted, returned>>
    BY <1>3, <1>4 DEF AttachStore, StoredSize, history, IInv, Types
  <1>6. /\ todo'[p] = Tail(s)
        /\ \A q \in Procs : q # p => todo'[q] = todo[q]
        /\ todo' \in [Procs -> Seq(Store)]
    BY <1>2, <1>5 DEF IInv, Types
  <1>7. /\ Pending(p)' \subseteq Pending(p)
        /\ field = "size" => k \notin Pending(p)'
        /\ \A q \in Procs : q # p => Pending(q)' = Pending(q) /\ k \notin Pending(q)
    <2>1. Pending(p)' \subseteq Pending(p) /\ (field = "size" => k \notin Pending(p)')
      BY <1>2, <1>6 DEF Pending
    <2>2. \A q \in Procs : q # p => Pending(q)' = Pending(q)
      BY <1>6 DEF Pending
    <2>3. \A q \in Procs : q # p => k \notin Pending(q)
      BY <1>3 DEF IInv, HeadersToCome
    <2> QED BY <2>1, <2>2, <2>3
  <1>8. \A j \in Keys : j # k \/ field # "size" => size'[j] = size[j]
    BY <1>3, <1>5 DEF IInv, Types
  <1>9. Types'
    BY <1>1, <1>3, <1>5, <1>6 DEF IInv, Types
  <1>10. HeadersToCome'
    <2>1. \A q \in Procs : SizeIsLast(todo'[q])
      BY <1>2, <1>6 DEF IInv, HeadersToCome
    <2>2. ASSUME NEW q \in Procs, NEW j \in Pending(q)'
          PROVE  there'[j] /\ size'[j] = 0
      <3>1. j \in Pending(q) /\ (j # k \/ field # "size")
        BY <1>7, <2>2
      <3>2. there[j] /\ size[j] = 0 /\ j \in Keys
        BY <3>1, PendingKeys DEF IInv, HeadersToCome
      <3> QED BY <1>5, <1>8, <3>1, <3>2
    <2>3. \A q, r \in Procs : q # r => Pending(q)' \cap Pending(r)' = {}
      BY <1>7 DEF IInv, HeadersToCome
    <2>4. \A j \in Keys : ~there'[j] => size'[j] = 0
      BY <1>4, <1>5, <1>8 DEF IInv, HeadersToCome
    <2> QED BY <2>1, <2>2, <2>3, <2>4 DEF HeadersToCome
  <1>11. SenderHoldsTail'
    BY <1>1, <1>3, <1>4, <1>5, <1>8, KeyTypes DEF IInv, SenderHoldsTail
  <1>12. BareIsUnused'
    BY <1>5, <1>8, <1>4 DEF IInv, BareIsUnused
  <1> QED BY <1>5, <1>9, <1>10, <1>11, <1>12 DEF IInv, NothingWiped

\* What is given up leaves the rest as it was.
LEMMA LoseInv ==
    ASSUME IInv, NEW p \in Procs, pc' = [pc EXCEPT ![p] = "down"],
           todo' = [todo EXCEPT ![p] = << >>],
           UNCHANGED <<head, tail, size, sTail, accepted, returned>>,
           there' = there \/ \E k \in Keys : there' = [there EXCEPT ![k] = TRUE]
    PROVE  IInv'
  <1>1. Types'
    <2>1. there' \in [Keys -> BOOLEAN]
      BY DEF IInv, Types
    <2>2. pc' \in [Procs -> {"down", "half", "attach", "up", "advance", "publish"}]
      BY DEF IInv, Types
    <2>3. todo' \in [Procs -> Seq(Store)]
      <3>1. << >> \in Seq(Store) /\ todo \in [Procs -> Seq(Store)]
        BY DEF IInv, Types
      <3> QED BY <3>1
    <2> QED BY <2>1, <2>2, <2>3 DEF IInv, Types
  <1>2. \A q \in Procs : todo'[q] = todo[q] \/ todo'[q] = << >>
    BY DEF IInv, Types
  <1>3. \A q \in Procs : Pending(q)' \subseteq Pending(q)
    BY <1>2 DEF Pending
  <1>4. \A k \in Keys : there[k] => there'[k]
    BY DEF IInv, Types
  <1>5. HeadersToCome'
    <2>1. \A q \in Procs : SizeIsLast(todo'[q])
      BY <1>2 DEF IInv, HeadersToCome, SizeIsLast
    <2>2. \A q \in Procs : Pending(q) \subseteq Keys
      BY PendingKeys
    <2>3. \A q \in Procs : \A k \in Pending(q)' : there'[k] /\ size'[k] = 0
      BY <1>3, <1>4, <2>2 DEF IInv, HeadersToCome
    <2>4. \A q, r \in Procs : q # r => Pending(q)' \cap Pending(r)' = {}
      BY <1>3 DEF IInv, HeadersToCome
    <2>5. \A k \in Keys : ~there'[k] => size'[k] = 0
      BY <1>4 DEF IInv, HeadersToCome
    <2> QED BY <2>1, <2>3, <2>4, <2>5 DEF HeadersToCome
  <1>6. SenderHoldsTail'
    BY DEF IInv, Types, SenderHoldsTail
  <1> QED BY <1>1, <1>5, <1>6 DEF IInv, BareIsUnused, NothingWiped

LEMMA SendMsgPublishInv == ASSUME IInv, NEW p \in Procs, SendMsgPublish(p) PROVE IInv'
  <1> DEFINE k == SendKey(p)
  <1>1. k \in Keys /\ \A q \in Procs : SendKey(q) = k => q = p
    BY KeyTypes
  <1>2. sTail[p] = tail[k] /\ size[k] # 0 /\ tail[k] = accepted[k]
    BY <1>1 DEF SendMsgPublish, IInv, SenderHoldsTail, NothingWiped
  <1>3. /\ tail' = [tail EXCEPT ![k] = tail[k] + 1]
        /\ accepted' = [accepted EXCEPT ![k] = tail[k] + 1]
        /\ pc' = [pc EXCEPT ![p] = "up"]
        /\ UNCHANGED <<there, head, size, todo, sTail, returned>>
    BY <1>1, <1>2 DEF SendMsgPublish, IInv, Types
  <1>4. Types'
    BY <1>1, <1>3 DEF IInv, Types
  <1>5. HeadersToCome'
    BY <1>3, HeadersSame
  <1>6. BareIsUnused' /\ NothingWiped'
    BY <1>1, <1>2, <1>3 DEF IInv, Types, BareIsUnused, NothingWiped
  <1>7. SenderHoldsTail'
    BY <1>1, <1>3, KeyTypes DEF IInv, Types, SenderHoldsTail
  <1> QED BY <1>4, <1>5, <1>6, <1>7 DEF IInv

LEMMA RecvMsgInv == ASSUME IInv, NEW p \in Procs, RecvMsg(p) PROVE IInv'
  <1> DEFINE k == RecvKey(p)
  <1>1. k \in Keys
    BY KeyTypes
  <1>2. size[k] # 0 /\ head[k] = returned[k]
    BY <1>1 DEF RecvMsg, Empty, IInv, BareIsUnused, NothingWiped
  <1>3. /\ head' = [head EXCEPT ![k] = @ + 1] /\ returned' = [returned EXCEPT ![k] = @ + 1]
        /\ UNCHANGED <<there, tail, size, pc, todo, sTail, accepted>>
    BY DEF RecvMsg
  <1>4. Types'
    BY <1>1, <1>3 DEF IInv, Types
  <1>5. HeadersToCome' /\ SenderHoldsTail'
    BY <1>3, HeadersSame DEF IInv, SenderHoldsTail
  <1>6. BareIsUnused' /\ NothingWiped'
    BY <1>1, <1>2, <1>3 DEF IInv, Types, BareIsUnused, NothingWiped
  <1> QED BY <1>4, <1>5, <1>6 DEF IInv

\* The steps that move only a process.
LEMMA SendStepInv ==
    ASSUME IInv, NEW p \in Procs,
           \/ AttachDone(p) \/ SendMsgLost(p) \/ SendMsgBegin(p)
           \/ SendMsgAdvance(p) \/ SendMsgFault(p)
    PROVE  IInv'
  <1>1. UNCHANGED <<there, head, tail, size, todo, accepted, returned>>
    BY DEF AttachDone, SendMsgLost, SendMsgBegin, SendMsgAdvance, SendMsgFault, header, history
  <1>2. Types'
    BY <1>1, KeyTypes DEF AttachDone, SendMsgLost, SendMsgBegin, SendMsgAdvance, SendMsgFault,
        IInv, Types
  <1>3. SenderHoldsTail'
    BY <1>1 DEF AttachDone, SendMsgLost, SendMsgBegin, SendMsgAdvance, SendMsgFault,
        IInv, Types, SenderHoldsTail
  <1> QED BY <1>1, <1>2, <1>3, HeadersSame DEF IInv, BareIsUnused, NothingWiped

LEMMA CreateFailsInv == ASSUME IInv, NEW p \in Procs, CreateFails(p) PROVE IInv'
  <1>1. /\ pc' = [pc EXCEPT ![p] = "down"] /\ todo' = [todo EXCEPT ![p] = << >>]
        /\ UNCHANGED <<head, tail, size, sTail, accepted, returned>>
    BY DEF CreateFails, Lose, header, history
  <1>2. there' = there \/ \E k \in Keys : there' = [there EXCEPT ![k] = TRUE]
    BY KeyTypes DEF CreateFails, Lose
  <1> QED BY <1>1, <1>2, LoseInv

LEMMA DieInv == ASSUME IInv, NEW p \in Procs, Die(p) PROVE IInv'
  BY LoseInv DEF Die, Lose, header, history

LEMMA NextInv == ASSUME IInv, [Next]_vars PROVE IInv'
  <1>1. CASE UNCHANGED vars
    <2>1. UNCHANGED <<there, head, tail, size, pc, todo, sTail, accepted, returned>>
      BY <1>1 DEF vars, header, history
    <2> QED BY <2>1, HeadersSame
        DEF IInv, Types, BareIsUnused, SenderHoldsTail, NothingWiped
  <1>2. ASSUME NEW p \in Procs, Work(p) PROVE IInv'
    BY <1>2, CreateInv, AttachStoreInv, SendStepInv, SendMsgPublishInv, RecvMsgInv DEF Work
  <1>3. ASSUME NEW p \in Procs, SendMsgLost(p) \/ SendMsgBegin(p) PROVE IInv'
    BY <1>3, SendStepInv
  <1>4. ASSUME NEW p \in Procs, CreateFails(p) \/ Die(p) PROVE IInv'
    BY <1>4, CreateFailsInv, DieInv
  <1> QED BY <1>1, <1>2, <1>3, <1>4 DEF Next

\* Whatever the capacity, and however often the two processes die or fail to
\* create their channel: storing the header of a segment the peer already uses
\* (message_queue.cc:36) wipes no message and brings none back.
THEOREM NothingIsWiped == Spec => []NothingWiped
  <1>1. Init => IInv
    BY InitInv
  <1>2. IInv /\ [Next]_vars => IInv'
    BY NextInv
  <1>3. IInv => NothingWiped
    BY DEF IInv
  <1> QED BY <1>1, <1>2, <1>3, PTL DEF Spec

-----------------------------------------------------------------------------
(* A lost message finds its segment full. *)

SendsTyped == sends \in [Procs -> Nat]

LEMMA SendsTypedStep == ASSUME SendsTyped, [Next]_vars PROVE SendsTyped'
  <1>1. ASSUME NEW p \in Procs, SendMsgLost(p) \/ SendMsgBegin(p) PROVE SendsTyped'
    BY <1>1 DEF SendsTyped, SendMsgLost, SendMsgBegin
  <1>2. CASE UNCHANGED sends
    BY <1>2 DEF SendsTyped
  <1>3. ASSUME NEW p \in Procs, Work(p) \/ CreateFails(p) \/ Die(p) PROVE UNCHANGED sends
    BY <1>3 DEF Work, CreateSend, CreateRecv, AttachStore, AttachDone, SendMsgAdvance,
       SendMsgFault, SendMsgPublish, RecvMsg, CreateFails, Die, bounds
  <1>4. UNCHANGED vars => UNCHANGED sends
    BY DEF vars, bounds
  <1> QED BY <1>1, <1>2, <1>3, <1>4 DEF Next

LEMMA LostStep ==
    ASSUME IInv, SendsTyped, [Next]_vars, NEW p \in Procs, sends'[p] > sends[p], pc'[p] = "up"
    PROVE  accepted[SendKey(p)] - returned[SendKey(p)] >= Capacity
  <1>1. ~UNCHANGED sends
    BY DEF SendsTyped
  <1>2. ASSUME NEW q \in Procs, Work(q) \/ CreateFails(q) \/ Die(q) PROVE UNCHANGED sends
    BY <1>2 DEF Work, CreateSend, CreateRecv, AttachStore, AttachDone, SendMsgAdvance,
       SendMsgFault, SendMsgPublish, RecvMsg, CreateFails, Die, bounds
  <1>3. PICK q \in Procs : SendMsgLost(q) \/ SendMsgBegin(q)
    BY <1>1, <1>2 DEF Next, vars, bounds
  <1>4. sends' = [sends EXCEPT ![q] = @ + 1]
    BY <1>3 DEF SendMsgLost, SendMsgBegin
  <1>5. p = q
    BY <1>4 DEF SendsTyped
  <1>6. ~SendMsgBegin(p)
    BY DEF SendMsgBegin, IInv, Types
  <1>7. ~Fits(SendKey(p)) /\ SendKey(p) \in Keys
    BY <1>3, <1>5, <1>6, KeyTypes DEF SendMsgLost
  <1> DEFINE k == SendKey(p)
  <1>8. size[k] = Capacity /\ head[k] = returned[k] /\ tail[k] = accepted[k]
    BY <1>7 DEF Fits, IInv, Types, NothingWiped
  <1>9. head[k] \in Nat /\ tail[k] \in Nat /\ Capacity \in Nat
    BY <1>7, ChannelAssumption DEF IInv, Types
  <1>10. ~(tail[k] - head[k] < Capacity)
    BY <1>7, <1>8 DEF Fits
  <1> QED BY <1>8, <1>9, <1>10

\* message_channel.cc:57: the true that SendMsg returns for a message the queue
\* refused hides nothing but a full queue, whatever the deaths before it.
THEOREM OnlyAFullQueueLoses == Spec => LostOnlyWhenFull
  <1>1. Init => IInv /\ SendsTyped
    BY InitInv DEF Init, SendsTyped
  <1>2. IInv /\ SendsTyped /\ [Next]_vars => IInv' /\ SendsTyped'
    BY NextInv, SendsTypedStep
  <1>3. IInv /\ SendsTyped /\ [Next]_vars =>
            [\A p \in Procs : sends'[p] > sends[p] /\ pc'[p] = "up" =>
                accepted[SendKey(p)] - returned[SendKey(p)] >= Capacity]_vars
    BY LostStep
  <1> QED BY <1>1, <1>2, <1>3, PTL DEF Spec, LostOnlyWhenFull

-----------------------------------------------------------------------------
(* A segment without a size: its creator is on its way, or was lost. *)

\* The stores of a header that are left end in its size.
SizeToCome(s) ==
    \A i \in DOMAIN s : \E j \in DOMAIN s : s[j] = <<s[i][1], "size">>

BareInv ==
    /\ BareOnlyIfPendingOrOrphaned
    /\ \A k \in Keys : ~there[k] => k \notin orphaned
    /\ \A p \in Procs : SizeToCome(todo[p])

LEMMA BareSame == ASSUME BareInv, UNCHANGED <<there, size, todo, orphaned>> PROVE BareInv'
  <1>1. \A p \in Procs : Pending(p)' = Pending(p)
    BY PendingSame
  <1>2. BareOnlyIfPendingOrOrphaned'
    BY <1>1 DEF BareInv, BareOnlyIfPendingOrOrphaned
  <1>3. \A p \in Procs : SizeToCome(todo'[p])
    BY Zenon DEF BareInv
  <1> QED BY <1>2, <1>3 DEF BareInv

LEMMA SizeToComeAdd ==
    ASSUME NEW s \in Seq(Store), SizeToCome(s), NEW k \in Keys
    PROVE  SizeToCome(s \o HeaderStores(k))
  <1> DEFINE h == HeaderStores(k)
             t == s \o h
  <1>1. /\ h \in Seq(Store) /\ Len(h) = 3
        /\ h[1] = <<k, "head">> /\ h[2] = <<k, "tail">> /\ h[3] = <<k, "size">>
    BY DEF HeaderStores, Store
  <1>2. \A i \in 1 .. 3 : h[i][1] = k
    BY <1>1
  <1> HIDE DEF h
  <1>3. /\ t \in Seq(Store) /\ Len(t) = Len(s) + 3 /\ Len(s) \in Nat
        /\ \A i \in 1 .. Len(s) : t[i] = s[i]
        /\ \A i \in 1 .. 3 : t[Len(s) + i] = h[i]
        /\ DOMAIN s = 1 .. Len(s) /\ DOMAIN t = 1 .. Len(s) + 3
    <2>1. /\ t \in Seq(Store) /\ Len(t) = Len(s) + Len(h)
          /\ \A i \in 1 .. Len(s) + Len(h) : t[i] = IF i <= Len(s) THEN s[i] ELSE h[i - Len(s)]
      BY <1>1, ConcatProperties
    <2>2. Len(s) \in Nat /\ DOMAIN s = 1 .. Len(s) /\ DOMAIN t = 1 .. Len(t)
      BY <2>1
    <2> HIDE DEF t
    <2>3. ASSUME NEW i \in 1 .. 3
          PROVE  t[Len(s) + i] = h[i]
      <3>1. Len(s) + i \in 1 .. Len(s) + Len(h) /\ ~(Len(s) + i <= Len(s))
        BY <1>1, <2>2
      <3>2. Len(s) + i - Len(s) = i
        BY <2>2
      <3> QED BY <2>1, <3>1, <3>2
    <2> QED BY <1>1, <2>1, <2>2, <2>3
  <1> HIDE DEF t
  <1>4. Len(s) + 3 \in DOMAIN t /\ t[Len(s) + 3] = <<k, "size">>
    BY <1>1, <1>3
  <1>5. ASSUME NEW i \in DOMAIN t PROVE \E j \in DOMAIN t : t[j] = <<t[i][1], "size">>
    <2>1. CASE i \in 1 .. Len(s)
      <3>1. PICK j \in DOMAIN s : s[j] = <<s[i][1], "size">>
        BY <1>3, <2>1 DEF SizeToCome
      <3> QED BY <1>3, <2>1, <3>1
    <2>2. CASE i \notin 1 .. Len(s)
      <3>1. i - Len(s) \in 1 .. 3 /\ i = Len(s) + (i - Len(s))
        BY <1>3, <2>2
      <3>2. t[i][1] = k
        BY <1>2, <1>3, <3>1
      <3> QED BY <1>4, <3>2
    <2> QED BY <2>1, <2>2
  <1>6. SizeToCome(t)
    BY <1>5, Zenon DEF SizeToCome
  <1> QED BY <1>6, Zenon DEF t, h

LEMMA SizeToComeTail ==
    ASSUME NEW s \in Seq(Store), s # << >>, SizeToCome(s), SizeIsLast(s)
    PROVE  /\ SizeToCome(Tail(s))
           /\ \A i \in DOMAIN s : s[i][1] # Head(s)[1] \/ Head(s)[2] # "size" =>
                 \E j \in DOMAIN Tail(s) : Tail(s)[j][1] = s[i][1]
  <1>1. /\ Len(s) \in Nat /\ Len(s) > 0 /\ Head(s) = s[1]
        /\ DOMAIN s = 1 .. Len(s) /\ DOMAIN Tail(s) = 1 .. Len(s) - 1
        /\ \A i \in 1 .. Len(s) - 1 : Tail(s)[i] = s[i + 1]
    OBVIOUS
  <1>2. ASSUME NEW i \in DOMAIN s, s[i][1] # Head(s)[1] \/ Head(s)[2] # "size"
        PROVE  \E j \in DOMAIN Tail(s) : Tail(s)[j] = <<s[i][1], "size">>
    <2>1. PICK m \in DOMAIN s : s[m] = <<s[i][1], "size">>
      BY DEF SizeToCome
    <2>2. m # 1
      BY <1>1, <1>2, <2>1
    <2>3. m - 1 \in DOMAIN Tail(s) /\ (m - 1) + 1 = m
      BY <1>1, <2>2
    <2> QED BY <1>1, <2>1, <2>3
  <1>3. ASSUME NEW i \in DOMAIN Tail(s)
        PROVE  \E j \in DOMAIN Tail(s) : Tail(s)[j] = <<Tail(s)[i][1], "size">>
    <2>1. i + 1 \in DOMAIN s /\ Tail(s)[i] = s[i + 1] /\ 1 \in DOMAIN s /\ i + 1 > 1
      BY <1>1
    <2>2. s[i + 1][1] # Head(s)[1] \/ Head(s)[2] # "size"
      BY <1>1, <2>1 DEF SizeIsLast
    <2> QED BY <1>2, <2>1, <2>2
  <1>4. ASSUME NEW i \in DOMAIN s, s[i][1] # Head(s)[1] \/ Head(s)[2] # "size"
        PROVE  \E j \in DOMAIN Tail(s) : Tail(s)[j][1] = s[i][1]
    <2>1. PICK j \in DOMAIN Tail(s) : Tail(s)[j] = <<s[i][1], "size">>
      BY <1>2, <1>4
    <2> QED BY <2>1
  <1> QED BY <1>3, <1>4 DEF SizeToCome

LEMMA CreateBare ==
    ASSUME IInv, BareInv, NEW p \in Procs, CreateSend(p) \/ CreateRecv(p)
    PROVE  BareInv'
  <1>1. PICK k \in Keys : GetShmEx(p, k)
    BY KeyTypes DEF CreateSend, CreateRecv
  <1>2. UNCHANGED <<size, orphaned>>
    BY DEF CreateSend, CreateRecv, header
  <1>3. CASE there[k]
    <2>1. there' = there /\ todo' = todo
      BY <1>1, <1>3 DEF GetShmEx, IInv, Types
    <2> QED BY <1>2, <2>1, BareSame
  <1>4. CASE ~there[k]
    <2> DEFINE t == todo[p] \o HeaderStores(k)
    <2>1. there' = [there EXCEPT ![k] = TRUE] /\ todo' = [todo EXCEPT ![p] = t]
      BY <1>1, <1>4 DEF GetShmEx
    <2>2. todo[p] \in Seq(Store) /\ SizeIsLast(todo[p]) /\ SizeToCome(todo[p])
      BY DEF IInv, Types, HeadersToCome, BareInv
    <2>3. \A i \in DOMAIN todo[p] : todo[p][i][1] # k
      BY <1>4 DEF Pending, IInv, HeadersToCome
    <2>4. SizeToCome(t) /\ {t[i][1] : i \in DOMAIN t} = {todo[p][i][1] : i \in DOMAIN todo[p]} \cup {k}
      BY <2>2, <2>3, AddStores, SizeToComeAdd, Zenon
    <2> HIDE DEF t
    <2>5. todo'[p] = t /\ \A q \in Procs : q # p => todo'[q] = todo[q]
      BY <2>1 DEF IInv, Types
    <2>6. Pending(p)' = Pending(p) \cup {k} /\ \A q \in Procs : q # p => Pending(q)' = Pending(q)
      <3>1. Pending(p)' = Pending(p) \cup {k}
        BY <2>4, <2>5, Zenon DEF Pending
      <3>2. \A q \in Procs : q # p => Pending(q)' = Pending(q)
        BY <2>5 DEF Pending
      <3> QED BY <3>1, <3>2
    <2>7. \A q \in Procs : SizeToCome(todo'[q])
      BY <2>4, <2>5, Zenon DEF BareInv
    <2>8. there'[k] /\ \A j \in Keys : j # k => there'[j] = there[j]
      BY <2>1 DEF IInv, Types
    <2>9. size'[k] = 0 /\ k \notin orphaned' /\ k \in Pending(p)'
      BY <1>2, <1>4, <2>6 DEF IInv, HeadersToCome, BareInv
    <2>10. \A j \in Keys, q \in Procs : j # k => (j \in Pending(q)' <=> j \in Pending(q))
      BY <2>6
    <2>11. BareOnlyIfPendingOrOrphaned'
      <3>1. ASSUME NEW j \in Keys, there'[j], j # k
            PROVE  \/ size'[j] = Capacity /\ j \notin orphaned'
                   \/ size'[j] = 0 /\ j \in orphaned' /\ \A q \in Procs : j \notin Pending(q)'
                   \/ size'[j] = 0 /\ j \notin orphaned' /\ \E q \in Procs : j \in Pending(q)'
        <4>1. there[j] /\ size'[j] = size[j] /\ (j \in orphaned' <=> j \in orphaned)
          BY <1>2, <2>8, <3>1
        <4> QED BY <2>10, <3>1, <4>1 DEF BareInv, BareOnlyIfPendingOrOrphaned
      <3> QED BY <2>9, <3>1 DEF BareOnlyIfPendingOrOrphaned
    <2> QED BY <1>2, <2>7, <2>8, <2>9, <2>11 DEF BareInv
  <1> QED BY <1>3, <1>4

LEMMA AttachStoreBare ==
    ASSUME IInv, BareInv, NEW p \in Procs, AttachStore(p)
    PROVE  BareInv'
  <1> DEFINE s == todo[p]
             k == Head(s)[1]
             field == Head(s)[2]
  <1>1. /\ s \in Seq(Store) /\ s # << >> /\ SizeIsLast(s) /\ SizeToCome(s)
        /\ Capacity # 0
    BY ChannelAssumption DEF IInv, Types, HeadersToCome, AttachStore, BareInv
  <1>2. /\ SizeToCome(Tail(s))
        /\ \A i \in DOMAIN s : s[i][1] # k \/ field # "size" =>
              \E j \in DOMAIN Tail(s) : Tail(s)[j][1] = s[i][1]
        /\ {Tail(s)[i][1] : i \in DOMAIN Tail(s)} \subseteq {s[i][1] : i \in DOMAIN s}
        /\ field = "size" => k \notin {Tail(s)[i][1] : i \in DOMAIN Tail(s)}
        /\ k \in Keys /\ k \in Pending(p)
    BY <1>1, SizeToComeTail, DoFirst DEF Store, Pending
  <1>3. /\ size' = IF field = "size" THEN [size EXCEPT ![k] = Capacity] ELSE size
        /\ todo' = [todo EXCEPT ![p] = Tail(s)]
        /\ UNCHANGED <<there, orphaned>>
    BY DEF AttachStore, StoredSize
  <1>4. todo'[p] = Tail(s) /\ \A q \in Procs : q # p => todo'[q] = todo[q]
    BY <1>3 DEF IInv, Types
  <1>5. \A q \in Procs : SizeToCome(todo'[q])
    BY <1>2, <1>4 DEF BareInv
  <1>6. ASSUME NEW j \in Keys, j # k \/ field # "size"
        PROVE  size'[j] = size[j] /\ \A q \in Procs : j \in Pending(q)' <=> j \in Pending(q)
    <2>1. size'[j] = size[j]
      BY <1>2, <1>3, <1>6 DEF IInv, Types
    <2>2. j \in Pending(p)' <=> j \in Pending(p)
      <3>1. Pending(p)' = {Tail(s)[i][1] : i \in DOMAIN Tail(s)}
        BY <1>4 DEF Pending
      <3>2. Pending(p) = {s[i][1] : i \in DOMAIN s}
        BY DEF Pending
      <3>3. ASSUME j \in Pending(p) PROVE j \in Pending(p)'
        <4>1. PICK i \in DOMAIN s : s[i][1] = j
          BY <3>2, <3>3
        <4> HIDE DEF s
        <4>2. PICK m \in DOMAIN Tail(s) : Tail(s)[m][1] = j
          BY <1>2, <1>6, <4>1
        <4> QED BY <3>1, <4>2
      <3> QED BY <1>2, <3>1, <3>2, <3>3
    <2>3. \A q \in Procs : q # p => Pending(q)' = Pending(q)
      BY <1>4 DEF Pending
    <2> QED BY <2>1, <2>2, <2>3
  <1>7. field = "size" => size'[k] = Capacity /\ k \notin orphaned'
    <2>1. there[k] /\ size[k] = 0
      BY <1>2 DEF IInv, HeadersToCome
    <2>2. k \notin orphaned
      BY <1>1, <1>2, <2>1 DEF BareInv, BareOnlyIfPendingOrOrphaned
    <2> QED BY <1>2, <1>3, <2>2 DEF IInv, Types
  <1> HIDE DEF s, k, field
  <1>8. BareOnlyIfPendingOrOrphaned'
    <2> SUFFICES ASSUME NEW j \in Keys, there[j]
                 PROVE  \/ size'[j] = Capacity /\ j \notin orphaned'
                        \/ /\ size'[j] = 0 /\ j \in orphaned'
                           /\ \A q \in Procs : j \notin Pending(q)'
                        \/ size'[j] = 0 /\ j \notin orphaned' /\ \E q \in Procs : j \in Pending(q)'
      BY <1>3 DEF BareOnlyIfPendingOrOrphaned
    <2>1. CASE j = k /\ field = "size"
      BY <1>7, <2>1
    <2>2. CASE j # k \/ field # "size"
      BY <1>3, <1>6, <2>2 DEF BareInv, BareOnlyIfPendingOrOrphaned
    <2> QED BY <2>1, <2>2
  <1> QED BY <1>3, <1>5, <1>8 DEF BareInv

\* Whatever p was going to store is orphaned when p is lost, and so is a segment
\* that it creates and cannot attach.
LEMMA LoseBare ==
    ASSUME IInv, BareInv, NEW p \in Procs, NEW new \in SUBSET Keys,
           \A k \in new : ~there[k],
           todo' = [todo EXCEPT ![p] = << >>],
           orphaned' = orphaned \cup Pending(p) \cup new,
           \A k \in Keys : there'[k] <=> there[k] \/ k \in new,
           UNCHANGED size
    PROVE  BareInv'
  <1>1. Pending(p)' = {} /\ \A q \in Procs : q # p => Pending(q)' = Pending(q)
    BY DEF IInv, Types, Pending
  <1>2. \A q \in Procs : SizeToCome(todo'[q])
    <2>1. SizeToCome(<< >>)
      BY DEF SizeToCome
    <2>2. \A q \in Procs : todo'[q] = todo[q] \/ todo'[q] = << >>
      BY DEF IInv, Types
    <2> QED BY <2>1, <2>2, Zenon DEF BareInv
  <1>3. \A q \in Procs : \A k \in Pending(q) : there[k] /\ size[k] = 0
    BY DEF IInv, HeadersToCome
  <1>4. ASSUME NEW k \in Keys, k \in new \/ k \in Pending(p)
        PROVE  size'[k] = 0 /\ k \in orphaned' /\ \A q \in Procs : k \notin Pending(q)'
    BY <1>1, <1>3, <1>4 DEF IInv, HeadersToCome
  <1>5. ASSUME NEW k \in Keys, k \notin new, k \notin Pending(p)
        PROVE  /\ there'[k] <=> there[k]
               /\ size'[k] = size[k] /\ (k \in orphaned' <=> k \in orphaned)
               /\ \A q \in Procs : k \in Pending(q)' <=> k \in Pending(q)
    BY <1>1, <1>5
  <1>6. BareOnlyIfPendingOrOrphaned'
    BY <1>4, <1>5 DEF BareInv, BareOnlyIfPendingOrOrphaned
  <1>7. \A k \in Keys : ~there'[k] => k \notin orphaned'
    BY <1>3 DEF BareInv
  <1> QED BY <1>2, <1>6, <1>7 DEF BareInv

LEMMA CreateFailsBare == ASSUME IInv, BareInv, NEW p \in Procs, CreateFails(p) PROVE BareInv'
  <1> DEFINE k == IF pc[p] = "down" THEN SendKey(p) ELSE RecvKey(p)
             new == IF there[k] THEN {} ELSE {k}
  <1>1. UNCHANGED size /\ todo' = [todo EXCEPT ![p] = << >>] /\ k \in Keys
    BY KeyTypes DEF CreateFails, Lose, header
  <1>2. CASE Lose(p) /\ UNCHANGED there
    <2>1. orphaned' = orphaned \cup Pending(p) \cup {} /\ {} \in SUBSET Keys
      BY <1>2 DEF Lose
    <2> QED BY <1>1, <1>2, <2>1, LoseBare
  <1>3. CASE there' = [there EXCEPT ![k] = TRUE] /\ orphaned' = orphaned \cup Pending(p) \cup new
    <2>1. \A j \in Keys : there'[j] <=> there[j] \/ j \in new
      BY <1>1, <1>3 DEF IInv, Types
    <2>2. new \in SUBSET Keys /\ \A j \in new : ~there[j]
      BY <1>1
    <2> QED BY <1>1, <1>3, <2>1, <2>2, LoseBare
  <1> QED BY <1>2, <1>3 DEF CreateFails

LEMMA DieBare == ASSUME IInv, BareInv, NEW p \in Procs, Die(p) PROVE BareInv'
  <1>1. /\ UNCHANGED <<size, there>> /\ todo' = [todo EXCEPT ![p] = << >>]
        /\ orphaned' = orphaned \cup Pending(p) \cup {} /\ {} \in SUBSET Keys
    BY DEF Die, Lose, header
  <1> QED BY <1>1, LoseBare

LEMMA NextBare == ASSUME IInv, BareInv, [Next]_vars PROVE BareInv'
  <1>1. CASE UNCHANGED vars
    BY <1>1, BareSame DEF vars, header
  <1>2. ASSUME NEW p \in Procs,
               \/ AttachDone(p) \/ SendMsgAdvance(p) \/ SendMsgFault(p) \/ SendMsgPublish(p)
               \/ RecvMsg(p) \/ SendMsgLost(p) \/ SendMsgBegin(p)
        PROVE  BareInv'
    BY <1>2, BareSame DEF AttachDone, SendMsgAdvance, SendMsgFault, SendMsgPublish, RecvMsg,
       SendMsgLost, SendMsgBegin, header
  <1> QED BY <1>1, <1>2, CreateBare, AttachStoreBare, CreateFailsBare, DieBare DEF Next, Work

\* message_channel.cc:44: a header that nobody is going to store belongs to a
\* segment whose creator was lost, and it stays as it is.
THEOREM BareSegmentsAreAccounted == Spec => []BareOnlyIfPendingOrOrphaned
  <1>1. Init => IInv /\ BareInv
    BY InitInv DEF Init, BareInv, BareOnlyIfPendingOrOrphaned, SizeToCome
  <1>2. IInv /\ BareInv /\ [Next]_vars => IInv' /\ BareInv'
    BY NextInv, NextBare
  <1>3. BareInv => BareOnlyIfPendingOrOrphaned
    BY DEF BareInv
  <1> QED BY <1>1, <1>2, <1>3, PTL DEF Spec
=============================================================================
