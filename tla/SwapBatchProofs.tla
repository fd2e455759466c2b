--------------------------- MODULE SwapBatchProofs ---------------------------
(***************************************************************************)
(* For any stream and any size of a batch: what was read is in the batches *)
(* in order, once and whole, and every way to go through them sees it all. *)
(***************************************************************************)
EXTENDS SwapBatch, SumTheorems, SequenceTheorems

-----------------------------------------------------------------------------
(* The storage *)

USE DEF n_batch

Header == [delta : Nat, object : Nat]
Headers == UNION {[D -> Header] : D \in SUBSET (0..Capacity - 1)}

(* how many objects come before what h stands before *)
Number(hd, to, h) == IF hd[h].delta = 0 THEN to ELSE hd[h].object - 1

(* hd has the objects after the first from ones, to the to-th *)
Batch(hd, from, to) ==
  /\ 0 \in DOMAIN hd
  /\ Number(hd, to, 0) = from
  /\ \A h \in DOMAIN hd : hd[h].delta # 0 =>
       /\ hd[h].object \in 1..to
       /\ hd[h].delta >= 1 + sizes[hd[h].object]
       /\ h + hd[h].delta \in DOMAIN hd
       /\ Number(hd, to, h + hd[h].delta) = hd[h].object

(* e: how many objects there are up to the end of each batch *)
IsEnds(e) ==
  /\ e \in [0..n_batch -> 0..is]
  /\ e[0] = 0 /\ e[n_batch] = is
  /\ \A b \in 1..n_batch : Batch(headers[b], e[b - 1], e[b])

Empty(hd) == hd[0].delta = 0

(* the last batch ends with d_tail, and what is behind is free *)
LastBatch ==
  LET hd == headers[n_batch]
  IN  /\ d_tail \in DOMAIN hd /\ top = d_tail + 1
      /\ \A h \in DOMAIN hd : h <= d_tail /\ (hd[h].delta = 0 <=> h = d_tail)

(* The first object is in the first batch, or in none: what does not fit     *)
(* into an empty batch does not fit into the next one.                       *)
FirstBatch ==
  /\ is > 0 => ~Empty(headers[1])
  /\ pc = "read" /\ is = 0 =>
       \/ first /\ n_batch = 1
       \/ ~first /\ ~(2 + Needed <= Capacity)

SInv ==
  /\ sizes \in Streams
  /\ is \in 0..Len(sizes) /\ total_items = is
  /\ first \in BOOLEAN
  /\ headers \in Seq(Headers) /\ n_batch \in Nat \ {0}
  /\ \E e : IsEnds(e)
  /\ LastBatch
  /\ FirstBatch
  /\ pc \notin {"read", "failure"} => is = Len(sizes)

LEMMA HeaderFields ==
  ASSUME NEW hd \in Headers
  PROVE  /\ DOMAIN hd \subseteq 0..Capacity - 1
         /\ \A h \in DOMAIN hd : hd[h] \in Header /\ hd[h].delta \in Nat /\ hd[h].object \in Nat
BY DEF Headers, Header

LEMMA NewBatchType ==
  /\ NewBatch \in Headers
  /\ DOMAIN NewBatch = {0} /\ NewBatch[0] = EndHeader
  /\ EndHeader \in Header /\ EndHeader.delta = 0
<1>1. EndHeader \in Header /\ EndHeader.delta = 0 BY DEF EndHeader, Header
<1>2. NewBatch = [h \in {0} |-> EndHeader] BY DEF NewBatch
<1>3. {0} \in SUBSET (0..Capacity - 1) BY SwapBatchAssumption
<1>4. NewBatch \in [{0} -> Header] BY <1>1, <1>2
<1> QED BY <1>1, <1>2, <1>3, <1>4 DEF Headers

LEMMA SizesType ==
  ASSUME SInv
  PROVE  /\ sizes \in Seq(Nat) /\ Len(sizes) \in Nat
         /\ \A j \in 1..Len(sizes) : sizes[j] \in Nat /\ sizes[j] >= 1
         /\ is \in Nat
<1>1. sizes \in Seq(Nat) /\ \A j \in DOMAIN sizes : sizes[j] >= Fixed /\ Fixed \in Nat \ {0}
  BY SwapBatchAssumption DEF SInv
<1> QED BY <1>1 DEF SInv

LEMMA NeededType == SInv => Needed \in Nat
BY SizesType, SwapBatchAssumption DEF Needed

LEMMA InitS == Init => SInv
<1> SUFFICES ASSUME Init PROVE SInv OBVIOUS
<1>1. sizes \in Seq(Nat) /\ is = 0 /\ headers = <<NewBatch>> /\ pc = "read"
      /\ n_batch = 1 /\ first = TRUE
  BY SwapBatchAssumption DEF Init
<1>2. headers \in Seq(Headers) /\ headers[1] = NewBatch BY <1>1, NewBatchType
<1>3. IsEnds([b \in 0..1 |-> 0])
  <2>1. Batch(NewBatch, 0, 0) BY NewBatchType DEF Batch, Number
  <2> QED BY <1>1, <1>2, <2>1 DEF IsEnds
<1>4. LastBatch BY <1>1, <1>2, NewBatchType DEF LastBatch, Init
<1>5. FirstBatch BY <1>1 DEF FirstBatch
<1> QED BY <1>1, <1>2, <1>3, <1>4, <1>5 DEF SInv, Init

-----------------------------------------------------------------------------
(* Reading *)

(* the o-th object stored behind the header d, which was the last *)
Stored(hd, d, tail, o) ==
  [h \in DOMAIN hd \cup {tail} |->
     IF h = tail THEN EndHeader
     ELSE IF h = d THEN [delta |-> tail - d, object |-> o] ELSE hd[h]]

LEMMA StoredBatch ==
  ASSUME NEW hd \in Headers, NEW from, NEW to \in Nat, Batch(hd, from, to),
         NEW d \in DOMAIN hd, \A h \in DOMAIN hd : h <= d /\ (hd[h].delta = 0 <=> h = d),
         NEW tail \in Nat, tail < Capacity, tail > d,
         tail - d >= 1 + sizes[to + 1]
  PROVE  LET new == Stored(hd, d, tail, to + 1)
         IN  /\ new \in Headers
             /\ Batch(new, from, to + 1)
             /\ tail \in DOMAIN new
             /\ \A h \in DOMAIN new : h <= tail /\ (new[h].delta = 0 <=> h = tail)
             /\ new[0].delta # 0
<1> DEFINE new == Stored(hd, d, tail, to + 1)
<1>1. /\ DOMAIN hd \subseteq 0..Capacity - 1
      /\ \A h \in DOMAIN hd : hd[h] \in Header /\ hd[h].delta \in Nat /\ hd[h].object \in Nat
      /\ Capacity \in Nat
  BY HeaderFields, SwapBatchAssumption
<1>2. d \in Nat /\ tail \notin DOMAIN hd /\ tail - d \in Nat \ {0} BY <1>1
<1>3. EndHeader \in Header /\ EndHeader.delta = 0 BY NewBatchType
<1>4. DOMAIN new = DOMAIN hd \cup {tail} /\ new[tail] = EndHeader
      /\ new[d] = [delta |-> tail - d, object |-> to + 1]
      /\ \A h \in DOMAIN hd : h # d => new[h] = hd[h]
  BY <1>2 DEF Stored
<1>5. new \in Headers
  <2>1. DOMAIN hd \cup {tail} \in SUBSET (0..Capacity - 1) BY <1>1
  <2>2. [delta |-> tail - d, object |-> to + 1] \in Header BY <1>2 DEF Header
  <2>3. new \in [DOMAIN hd \cup {tail} -> Header] BY <1>1, <1>3, <2>2 DEF Stored
  <2> HIDE DEF new
  <2> QED BY <2>1, <2>3 DEF Headers
<1> HIDE DEF new
<1>6. \A h \in DOMAIN hd : hd[h].delta # 0 => h # d /\ new[h] = hd[h] BY <1>4
<1>7. ASSUME NEW h \in DOMAIN hd PROVE Number(new, to + 1, h) = Number(hd, to, h)
  <2>1. CASE h = d
    <3>1. new[d].delta # 0 /\ new[d].object - 1 = to BY <1>2, <1>4
    <3> QED BY <2>1, <3>1 DEF Number
  <2>2. CASE h # d BY <1>4, <2>2 DEF Number
  <2> QED BY <2>1, <2>2
<1>8. Number(new, to + 1, tail) = to + 1 BY <1>3, <1>4 DEF Number
<1>9. ASSUME NEW h \in DOMAIN new, new[h].delta # 0
      PROVE  /\ new[h].object \in 1..to + 1
             /\ new[h].delta >= 1 + sizes[new[h].object]
             /\ h + new[h].delta \in DOMAIN new
             /\ Number(new, to + 1, h + new[h].delta) = new[h].object
  <2>1. h \in DOMAIN hd BY <1>3, <1>4, <1>9
  <2>2. CASE h = d
    <3>1. new[h].object = to + 1 /\ new[h].delta = tail - d BY <1>4, <2>2
    <3>2. h + new[h].delta = tail BY <1>2, <2>2, <3>1
    <3> QED BY <1>4, <1>8, <3>1, <3>2
  <2>3. CASE h # d
    <3>1. new[h] = hd[h] BY <1>4, <2>1, <2>3
    <3>2. /\ hd[h].object \in 1..to
          /\ hd[h].delta >= 1 + sizes[hd[h].object]
          /\ h + hd[h].delta \in DOMAIN hd
          /\ Number(hd, to, h + hd[h].delta) = hd[h].object
      BY <1>9, <2>1, <3>1 DEF Batch
    <3> QED BY <1>4, <1>7, <3>1, <3>2
  <2> QED BY <2>2, <2>3
<1>10. Batch(new, from, to + 1) BY <1>4, <1>7, <1>9 DEF Batch
<1>11. \A h \in DOMAIN new : h <= tail /\ (new[h].delta = 0 <=> h = tail)
  BY <1>1, <1>2, <1>3, <1>4
<1>12. new[0].delta # 0
  <2>1. 0 \in DOMAIN hd BY DEF Batch
  <2> QED BY <1>2, <1>4, <1>11, <2>1
<1> QED BY <1>4, <1>5, <1>10, <1>11, <1>12 DEF new

LEMMA StoreS == ASSUME SInv, Store PROVE SInv'
<1> DEFINE n == n_batch
           hd == headers[n]
           tail == top + sizes[is + 1]
           new == Stored(hd, d_tail, tail, is + 1)
<1>1. /\ pc = "read" /\ is < Len(sizes) /\ Fits(sizes[is + 1])
      /\ headers' = [headers EXCEPT ![n] = new]
      /\ d_tail' = tail /\ top' = tail + 1 /\ is' = is + 1 /\ first' = TRUE
      /\ total_items' = total_items + 1 /\ UNCHANGED <<sizes, pc>>
  BY DEF Store, Stored
<1>2. /\ headers \in Seq(Headers) /\ n \in Nat \ {0} /\ hd \in Headers
      /\ sizes[is + 1] \in Nat /\ sizes[is + 1] >= 1 /\ is \in Nat /\ Len(sizes) \in Nat
      /\ is + 1 \in 0..Len(sizes)
  BY <1>1, SizesType DEF SInv
<1>3. PICK e : IsEnds(e) BY DEF SInv
<1>4. /\ d_tail \in DOMAIN hd /\ top = d_tail + 1
      /\ \A h \in DOMAIN hd : h <= d_tail /\ (hd[h].delta = 0 <=> h = d_tail)
  BY DEF SInv, LastBatch
<1>5. d_tail \in Nat /\ Capacity \in Nat BY <1>2, <1>4, HeaderFields, SwapBatchAssumption
<1>6. /\ tail \in Nat /\ tail < Capacity /\ tail > d_tail /\ tail - d_tail >= 1 + sizes[is + 1]
  BY <1>1, <1>2, <1>4, <1>5 DEF Fits
<1>7. Batch(hd, e[n - 1], is) BY <1>2, <1>3 DEF IsEnds
<1>8. /\ new \in Headers /\ Batch(new, e[n - 1], is + 1)
      /\ tail \in DOMAIN new
      /\ \A h \in DOMAIN new : h <= tail /\ (new[h].delta = 0 <=> h = tail)
      /\ new[0].delta # 0
  <2> HIDE DEF hd, tail
  <2> QED BY <1>2, <1>4, <1>6, <1>7, StoredBatch
<1> HIDE DEF new, tail
<1>9. /\ headers' \in Seq(Headers) /\ Len(headers') = n /\ headers'[n] = new
      /\ \A b \in 1..n : b # n => headers'[b] = headers[b]
  BY <1>1, <1>2, <1>8
<1>10. \E f : IsEnds(f)'
  <2>0. PICK f : f = [e EXCEPT ![n] = is + 1] OBVIOUS
  <2>1. e \in [0..n -> 0..is] /\ e[0] = 0 BY <1>3 DEF IsEnds
  <2>2. f \in [0..n -> 0..is + 1] /\ f[0] = 0 /\ f[n] = is + 1
        /\ \A b \in 0..n : b # n => f[b] = e[b]
    BY <1>2, <2>0, <2>1
  <2>3. ASSUME NEW b \in 1..n PROVE Batch(headers'[b], f[b - 1], f[b])
    <3>1. b - 1 \in 0..n /\ b - 1 # n /\ f[b - 1] = e[b - 1] BY <1>2, <2>2
    <3>2. CASE b = n BY <1>8, <1>9, <2>2, <3>1, <3>2
    <3>3. CASE b # n
      <4>1. Batch(headers[b], e[b - 1], e[b]) BY <1>3 DEF IsEnds
      <4>2. headers'[b] = headers[b] BY <1>9, <3>3
      <4>3. f[b] = e[b] BY <1>2, <2>2, <3>3
      <4> QED BY <3>1, <4>1, <4>2, <4>3
    <3> QED BY <3>2, <3>3
  <2>4. IsEnds(f)' BY <1>1, <1>9, <2>2, <2>3 DEF IsEnds, Batch
  <2> QED BY <2>4
<1>11. LastBatch' BY <1>1, <1>8, <1>9 DEF LastBatch
<1>12. FirstBatch'
  <2>1. CASE is > 0
    <3>1. headers[1][0].delta # 0 BY <2>1 DEF SInv, FirstBatch, Empty
    <3>2. headers'[1][0].delta # 0 BY <1>2, <1>8, <1>9, <3>1
    <3> QED BY <1>1, <1>2, <3>2 DEF FirstBatch, Empty
  <2>2. CASE is = 0
    <3>1. 0 \in DOMAIN hd /\ hd[0].delta = 0
      <4>1. 0 \in DOMAIN hd BY <1>7 DEF Batch
      <4>2. ~(hd[0].object \in 1..is) BY <2>2
      <4> QED BY <1>7, <4>1, <4>2 DEF Batch
    <3>2. d_tail = 0 /\ top = 1 BY <1>4, <3>1
    <3>3. 1 + sizes[is + 1] + 1 = 2 + sizes[is + 1] BY <1>2
    <3>4. 2 + sizes[is + 1] <= Capacity BY <1>1, <3>2, <3>3 DEF Fits
    <3>5. n = 1 BY <1>1, <2>2, <3>4 DEF SInv, FirstBatch, Needed
    <3>6. headers'[1][0].delta # 0 BY <1>8, <1>9, <3>5
    <3> QED BY <1>1, <1>2, <3>6 DEF FirstBatch, Empty
  <2> QED BY <1>2, <2>1, <2>2
<1>13. is' = total_items' BY <1>1 DEF SInv
<1> QED BY <1>1, <1>2, <1>9, <1>10, <1>11, <1>12, <1>13 DEF SInv

LEMMA CreatedS ==
  ASSUME SInv, create_next_batch, UNCHANGED <<sizes, is>>
  PROVE  /\ headers' \in Seq(Headers) /\ Len(headers') = n_batch + 1
         /\ headers'[n_batch + 1] = NewBatch /\ \A b \in 1..n_batch : headers'[b] = headers[b]
         /\ \E e : IsEnds(e)'
         /\ LastBatch'
<1> DEFINE n == n_batch
<1>1. headers \in Seq(Headers) /\ n \in Nat \ {0} /\ is \in Nat BY SizesType DEF SInv
<1>2. headers' = Append(headers, NewBatch) /\ top' = 1 /\ d_tail' = 0 BY DEF create_next_batch
<1>3. /\ headers' \in Seq(Headers) /\ Len(headers') = n + 1
      /\ headers'[n + 1] = NewBatch /\ \A b \in 1..n : headers'[b] = headers[b]
  BY <1>1, <1>2, NewBatchType
<1>4. PICK e : IsEnds(e) BY DEF SInv
<1>5. e \in [0..n -> 0..is] /\ e[0] = 0 /\ e[n] = is BY <1>4 DEF IsEnds
<1>6. PICK f : f = [b \in 0..n + 1 |-> IF b = n + 1 THEN is ELSE e[b]] OBVIOUS
<1>7. /\ f \in [0..n + 1 -> 0..is] /\ f[0] = 0 /\ f[n + 1] = is
      /\ \A b \in 0..n : f[b] = e[b]
  BY <1>1, <1>5, <1>6
<1>8. Batch(NewBatch, is, is) BY NewBatchType DEF Batch, Number
<1>9. ASSUME NEW b \in 1..n + 1 PROVE Batch(headers'[b], f[b - 1], f[b])
  <2>1. CASE b = n + 1
    <3>1. b - 1 = n /\ n \in 0..n BY <1>1, <2>1
    <3> QED BY <1>3, <1>5, <1>7, <1>8, <2>1, <3>1
  <2>2. CASE b # n + 1
    <3>1. b \in 1..n /\ b - 1 \in 0..n /\ b \in 0..n BY <1>1, <2>2
    <3> QED BY <1>3, <1>4, <1>7, <3>1 DEF IsEnds
  <2> QED BY <2>1, <2>2
<1>10. IsEnds(f)' BY <1>3, <1>7, <1>9 DEF IsEnds, Batch
<1>11. LastBatch' BY <1>2, <1>3, NewBatchType DEF LastBatch
<1> QED BY <1>3, <1>10, <1>11

(* the chains of an empty storage *)
LEMMA NothingStored ==
  ASSUME SInv, is = 0
  PROVE  d_tail = 0 /\ top = 1
<1> DEFINE hd == headers[n_batch]
<1>1. PICK e : IsEnds(e) BY DEF SInv
<1>2. n_batch \in 1..n_batch BY DEF SInv
<1>3. Batch(hd, e[n_batch - 1], is) BY <1>1, <1>2 DEF IsEnds
<1>4. 0 \in DOMAIN hd /\ hd[0].delta = 0 BY <1>3 DEF Batch
<1> QED BY <1>4 DEF SInv, LastBatch

LEMMA OverflowS == ASSUME SInv, Overflow PROVE SInv'
<1>1. pc = "read" /\ ~Fits(Needed) /\ UNCHANGED <<sizes, is, total_items>>
  BY DEF Overflow
<1>2. CASE first
  <2>1. create_next_batch /\ first' = FALSE /\ pc' = pc BY <1>2 DEF Overflow
  <2>2. /\ headers' \in Seq(Headers) /\ Len(headers') = n_batch + 1
        /\ \A b \in 1..n_batch : headers'[b] = headers[b]
        /\ \E e : IsEnds(e)'
        /\ LastBatch'
    BY <1>1, <2>1, CreatedS
  <2>3. n_batch \in Nat \ {0} /\ is \in Nat BY SizesType DEF SInv
  <2>4. ASSUME is = 0 PROVE ~(2 + Needed <= Capacity)
    <3>1. top = 1 BY <2>4, NothingStored
    <3>2. Needed \in Nat BY NeededType
    <3>3. 1 + Needed + 1 = 2 + Needed BY <3>2
    <3> QED BY <1>1, <3>1, <3>3 DEF Fits
  <2>5. FirstBatch'
    <3>1. Needed' = Needed BY <1>1 DEF Needed
    <3> QED BY <1>1, <2>1, <2>2, <2>3, <2>4, <3>1 DEF FirstBatch, SInv, Empty
  <2>6. pc' = "read" BY <1>1, <2>1
  <2>7. n_batch' \in Nat \ {0} BY <2>2, <2>3
  <2>8. first' \in BOOLEAN BY <2>1
  <2>9. is' \in 0..Len(sizes') /\ total_items' = is' /\ sizes' \in Streams BY <1>1 DEF SInv
  <2> QED BY <2>2, <2>5, <2>6, <2>7, <2>8, <2>9 DEF SInv
<1>3. CASE ~first
  <2>1. pc' = "failure" /\ UNCHANGED <<headers, top, d_tail, first>> BY <1>3 DEF Overflow
  <2>2. FirstBatch' BY <1>1, <2>1 DEF SInv, FirstBatch, Empty
  <2>3. LastBatch' BY <2>1 DEF SInv, LastBatch
  <2>4. \E e : IsEnds(e)' BY <1>1, <2>1 DEF SInv, IsEnds, Batch
  <2> QED BY <1>1, <2>1, <2>2, <2>3, <2>4 DEF SInv
<1> QED BY <1>2, <1>3

LEMMA EndS == ASSUME SInv, EndOfStream \/ EndAtDelimiter PROVE SInv'
<1>1. UNCHANGED <<sizes, is, first, headers, top, d_tail, total_items>>
  BY DEF EndOfStream, EndAtDelimiter, storage
<1>2. is = Len(sizes) /\ pc' = "ready" BY DEF EndOfStream, EndAtDelimiter
<1>3. FirstBatch' BY <1>1, <1>2 DEF SInv, FirstBatch, Empty
<1>4. LastBatch' BY <1>1 DEF SInv, LastBatch
<1>5. \E e : IsEnds(e)' BY <1>1 DEF SInv, IsEnds, Batch
<1> QED BY <1>1, <1>2, <1>3, <1>4, <1>5 DEF SInv

(* going through the objects writes nothing *)
LEMMA ScanningS ==
  ASSUME SInv, UNCHANGED storage, pc' \in {"read", "failure"} => pc' = pc,
         pc \in {"read", "failure"} => pc' = pc \/ is = Len(sizes)
  PROVE  SInv'
<1> USE DEF storage
<1>1. FirstBatch' BY DEF SInv, FirstBatch, Empty, Needed
<1>2. LastBatch' BY DEF SInv, LastBatch
<1>3. \E e : IsEnds(e)' BY DEF SInv, IsEnds, Batch
<1> QED BY <1>1, <1>2, <1>3 DEF SInv

LEMMA InductiveS == SInv /\ [Next]_vars => SInv'
<1> SUFFICES ASSUME SInv, [Next]_vars PROVE SInv' OBVIOUS
<1>1. CASE Store BY <1>1, StoreS
<1>2. CASE Overflow BY <1>2, OverflowS
<1>3. CASE EndOfStream \/ EndAtDelimiter BY <1>3, EndS
<1>4. CASE EnumerateNext BY <1>4, ScanningS DEF EnumerateNext, EndScan
<1>5. CASE Dereference BY <1>5, ScanningS DEF Dereference, EndScan
<1>6. CASE Increment BY <1>6, ScanningS DEF Increment
<1>7. CASE Index BY <1>7, ScanningS DEF Index, EndScan
<1>8. CASE IndexStep BY <1>8, ScanningS DEF IndexStep
<1>9. CASE StartEnumerate \/ StartLoop \/ StartIndex
  BY <1>9, ScanningS DEF StartEnumerate, StartLoop, StartIndex, StartScan
<1>10. CASE Found \/ Revisit BY <1>10, ScanningS DEF Found, Revisit
<1>11. CASE UNCHANGED vars BY <1>11, ScanningS DEF vars, storage
<1> QED
  BY <1>1, <1>2, <1>3, <1>4, <1>5, <1>6, <1>7, <1>8, <1>9, <1>10, <1>11 DEF Next, Step

LEMMA InvariantS == Spec => []SInv
BY InitS, InductiveS, PTL DEF Spec

-----------------------------------------------------------------------------
(* From one object to the next *)

UpTo(n) == [j \in 1..n |-> j]

LEMMA UpToFacts ==
  ASSUME NEW n \in Nat
  PROVE  /\ UpTo(n) \in Seq(Nat) /\ Len(UpTo(n)) = n
         /\ Append(UpTo(n), n + 1) = UpTo(n + 1)
<1>1. UpTo(n) \in Seq(Nat) /\ Len(UpTo(n)) = n BY DEF UpTo
<1>2. UpTo(n + 1) \in Seq(Nat) /\ Len(UpTo(n + 1)) = n + 1 BY DEF UpTo
<1>3. Append(UpTo(n), n + 1) \in Seq(Nat) /\ Len(Append(UpTo(n), n + 1)) = n + 1
  BY <1>1, Append(UpTo(n), n + 1) \in Seq(Nat)
<1>4. ASSUME NEW j \in 1..n + 1 PROVE Append(UpTo(n), n + 1)[j] = UpTo(n + 1)[j]
  BY <1>1 DEF UpTo
<1>5. Append(UpTo(n), n + 1) = UpTo(n + 1)
  <2> DEFINE s == Append(UpTo(n), n + 1)
             t == UpTo(n + 1)
  <2>1. s \in Seq(Nat) /\ t \in Seq(Nat) /\ Len(s) = Len(t) BY <1>2, <1>3
  <2>2. \A j \in 1..Len(s) : s[j] = t[j] BY <1>3, <1>4
  <2> HIDE DEF s, t
  <2>3. s = t BY <2>1, <2>2, SeqEqual
  <2> QED BY <2>3 DEF s, t
<1> QED BY <1>1, <1>5

LEMMA UpToSame == ASSUME NEW m \in Nat, NEW n \in Nat, UpTo(m) = UpTo(n) PROVE m = n
BY UpToFacts

ends == CHOOSE e : IsEnds(e)

LEMMA EndsOK ==
  ASSUME SInv
  PROVE  /\ ends \in [0..n_batch -> 0..is] /\ ends[0] = 0 /\ ends[n_batch] = is
         /\ \A b \in 1..n_batch : Batch(headers[b], ends[b - 1], ends[b])
         /\ \A b \in 1..n_batch : headers[b] \in Headers /\ b - 1 \in 0..n_batch /\ b \in 0..n_batch
         /\ n_batch \in Nat \ {0} /\ is \in Nat
<1>1. IsEnds(ends) BY DEF SInv, ends
<1>2. headers \in Seq(Headers) /\ n_batch \in Nat \ {0} /\ is \in Nat BY SizesType DEF SInv
<1> QED BY <1>1, <1>2 DEF IsEnds

Places == [batch : Nat, header : Int]

(* p stands before the o-th object *)
OnObject(p, o) ==
  /\ p \in Places
  /\ p.batch \in 1..n_batch
  /\ p.header \in DOMAIN headers[p.batch]
  /\ headers[p.batch][p.header].delta # 0
  /\ headers[p.batch][p.header].object = o

(* from the b-th to the c-th batch nothing is stored behind the b-th *)
LEMMA EmptyBetween ==
  ASSUME SInv, NEW b \in 1..n_batch, NEW c \in b..n_batch,
         \A e \in b + 1..c : Empty(headers[e])
  PROVE  ends[c] = ends[b]
<1> DEFINE S == {m \in Nat : b + m <= c => ends[b + m] = ends[b]}
<1>0. b \in Nat /\ c \in Nat /\ n_batch \in Nat BY EndsOK
<1>1. 0 \in S BY <1>0
<1>2. ASSUME NEW m \in Nat, m \in S PROVE m + 1 \in S
  <2> SUFFICES ASSUME b + (m + 1) <= c PROVE ends[b + (m + 1)] = ends[b] OBVIOUS
  <2> DEFINE e == b + (m + 1)
  <2>1. e \in b + 1..c /\ e \in 1..n_batch /\ e - 1 = b + m /\ b + m <= c BY <1>0
  <2>2. Empty(headers[e]) /\ Batch(headers[e], ends[e - 1], ends[e]) BY <2>1, EndsOK
  <2>3. ends[e] = ends[e - 1] BY <2>2 DEF Batch, Number, Empty
  <2>4. ends[b + m] = ends[b] BY <1>2, <2>1
  <2> QED BY <2>1, <2>3, <2>4
<1>3. c - b \in S
  <2> HIDE DEF S
  <2> QED BY NatSetInduction, <1>0, <1>1, <1>2
<1> QED BY <1>0, <1>3

LEMMA MinIsMin ==
  ASSUME NEW S \in SUBSET Nat, S # {}
  PROVE  Min(S) \in S /\ \A y \in S : Min(S) <= y
<1>1. PICK m \in S : \A n \in S : ~(<<n, m>> \in OpToRel(<, Nat))
  BY WFMin, NatLessThanWellFounded
<1>2. ASSUME NEW n \in S PROVE m <= n
  <2> SUFFICES ASSUME n < m PROVE FALSE OBVIOUS
  <2> QED BY <1>1 DEF OpToRel
<1>3. \E x \in S : \A y \in S : x <= y BY <1>2
<1> QED BY <1>3 DEF Min

LEMMA NextFromOK ==
  ASSUME SInv, NEW b \in 1..n_batch, NEW h \in DOMAIN headers[b], headers[b][h].delta # 0
  PROVE  LET o == headers[b][h].object
         IN  /\ o \in 1..is
             /\ NextFrom(h, b) = NULL => o = is
             /\ NextFrom(h, b) # NULL => OnObject(NextFrom(h, b), o + 1)
<1> DEFINE hd == headers[b]
           o == hd[h].object
           next == h + hd[h].delta
           later == {c \in b + 1..n_batch : headers[c][0].delta # 0}
<1>1. /\ Batch(hd, ends[b - 1], ends[b]) /\ hd \in Headers /\ ends[b] \in 0..is
      /\ b \in Nat /\ n_batch \in Nat /\ is \in Nat /\ ends[n_batch] = is
  BY EndsOK
<1>2. /\ o \in 1..ends[b] /\ next \in DOMAIN hd /\ Number(hd, ends[b], next) = o
  BY <1>1 DEF Batch
<1>3. \A g \in DOMAIN hd : g \in Int /\ hd[g].object \in Nat BY <1>1, HeaderFields
<1>4. CASE hd[next].delta # 0
  <2> DEFINE p == [batch |-> b, header |-> next]
  <2>1. NextFrom(h, b) = p BY <1>4 DEF NextFrom
  <2>2. p # NULL BY <1>1 DEF NULL
  <2>3. hd[next].object = o + 1 BY <1>2, <1>3, <1>4 DEF Number
  <2>4. OnObject(p, o + 1) BY <1>1, <1>2, <1>3, <1>4, <2>3 DEF OnObject, Places
  <2> QED BY <1>1, <1>2, <2>1, <2>2, <2>4
<1>5. CASE hd[next].delta = 0 /\ later = {}
  <2>1. NextFrom(h, b) = NULL BY <1>5 DEF NextFrom
  <2>2. \A e \in b + 1..n_batch : Empty(headers[e]) BY <1>5 DEF Empty
  <2>3. ends[n_batch] = ends[b]
    <3>1. n_batch \in b..n_batch BY <1>1
    <3> QED BY <2>2, <3>1, EmptyBetween
  <2>4. o = ends[b] BY <1>2, <1>5 DEF Number
  <2> QED BY <1>1, <1>2, <2>1, <2>3, <2>4
<1>6. CASE hd[next].delta = 0 /\ later # {}
  <2> DEFINE c == Min(later)
             p == [batch |-> c, header |-> 0]
  <2>1. later \subseteq Nat BY <1>1
  <2>2. c \in later /\ \A e \in later : c <= e BY <1>6, <2>1, MinIsMin
  <2>3. NextFrom(h, b) = p BY <1>6 DEF NextFrom
  <2>4. c \in b + 1..n_batch /\ headers[c][0].delta # 0 BY <2>2
  <2> HIDE DEF c
  <2>5. c \in 1..n_batch /\ c \in Nat /\ c - 1 \in b..n_batch BY <1>1, <2>4
  <2>6. \A e \in b + 1..c - 1 : Empty(headers[e])
    <3> SUFFICES ASSUME NEW e \in b + 1..c - 1, headers[e][0].delta # 0 PROVE FALSE BY DEF Empty
    <3>1. e \in later BY <1>1, <2>5
    <3> QED BY <1>1, <2>2, <2>5, <3>1
  <2>7. ends[c - 1] = ends[b] BY <2>5, <2>6, EmptyBetween
  <2>8. o = ends[b] BY <1>2, <1>6 DEF Number
  <2>9. Batch(headers[c], ends[c - 1], ends[c]) /\ headers[c] \in Headers BY <2>5, EndsOK
  <2>10. 0 \in DOMAIN headers[c] /\ headers[c][0].object \in Nat BY <2>9, HeaderFields DEF Batch
  <2>11. headers[c][0].object = o + 1 BY <2>4, <2>7, <2>8, <2>9, <2>10 DEF Batch, Number
  <2>12. OnObject(p, o + 1) BY <2>4, <2>5, <2>10, <2>11 DEF OnObject, Places
  <2>13. p # NULL BY <2>5 DEF NULL
  <2> QED BY <1>1, <1>2, <2>3, <2>12, <2>13
<1> QED BY <1>4, <1>5, <1>6

-----------------------------------------------------------------------------
(* Going through the objects *)

(* Where each way is, and that it has seen what comes before. *)
EnumerateInv ==
  /\ pc = "visit"
  /\ it.batch \in 1..n_batch /\ it.header \in DOMAIN headers[it.batch]
  /\ loaded_batch = it.batch
  /\ \E e : IsEnds(e) /\ visited = UpTo(Number(headers[it.batch], e[it.batch], it.header))

LoopInv ==
  \/ pc = "visit" /\ it = NULL /\ visited = UpTo(is)
  \/ \E n \in 0..is :
       /\ visited = UpTo(n)
       /\ \/ pc = "visit" /\ OnObject(it, n + 1)
          \/ pc = "next" /\ OnObject(it, n) /\ loaded_batch = it.batch

(* operator[] is at most one object behind the one asked for *)
IndexInv ==
  \E n \in 0..is :
    /\ visited = UpTo(n)
    /\ \/ /\ pc = "visit"
          /\ n > 0 => OnObject(it, n) /\ loaded_batch = it.batch /\ current_i = n - 1
       \/ /\ pc = "step" /\ n < is
          /\ current_i \in Nat /\ OnObject(it, current_i + 1)
          /\ \/ current_i = n
             \/ current_i + 1 = n /\ loaded_batch = it.batch

VInv ==
  /\ scan \in Scans \cup {"none"}
  /\ scan = "none" <=> pc \in {"read", "failure", "ready"}
  /\ it \in Places
  /\ scan = "enumerate" => EnumerateInv
  /\ scan = "iterator" => LoopInv
  /\ scan = "index" => IndexInv

LEMMA NullIsPlace == NULL \in Places
BY DEF NULL, Places

LEMMA OnObjectFacts ==
  ASSUME SInv, NEW p, NEW o, OnObject(p, o)
  PROVE  /\ p \in Places /\ p # NULL /\ o \in 1..is
         /\ p.batch \in 1..n_batch /\ p.header \in DOMAIN headers[p.batch]
         /\ headers[p.batch][p.header].delta # 0 /\ headers[p.batch][p.header].object = o
<1>1. /\ p \in Places /\ p.batch \in 1..n_batch /\ p.header \in DOMAIN headers[p.batch]
      /\ headers[p.batch][p.header].delta # 0 /\ headers[p.batch][p.header].object = o
  BY DEF OnObject
<1>2. o \in 1..is BY <1>1, NextFromOK
<1>3. p # NULL BY <1>1 DEF NULL
<1> QED BY <1>1, <1>2, <1>3

LEMMA BeginOK ==
  ASSUME SInv
  PROVE  /\ is = 0 => begin = NULL
         /\ is > 0 => OnObject(begin, 1)
<1>1. is = 0 => begin = NULL BY DEF begin, SInv
<1>2. ASSUME is > 0 PROVE OnObject(begin, 1)
  <2>1. begin = [batch |-> 1, header |-> 0] BY <1>2 DEF begin, SInv
  <2>2. 1 \in 1..n_batch /\ n_batch \in Nat BY DEF SInv
  <2>3. /\ Batch(headers[1], ends[1 - 1], ends[1]) /\ headers[1] \in Headers /\ ends[0] = 0
    BY <2>2, EndsOK
  <2>4. 0 \in DOMAIN headers[1] /\ headers[1][0].object \in Nat /\ headers[1][0].delta # 0
    BY <1>2, <2>3, HeaderFields DEF Batch, SInv, FirstBatch, Empty
  <2>5. headers[1][0].object = 1 BY <2>3, <2>4 DEF Batch, Number
  <2> QED BY <2>1, <2>2, <2>4, <2>5 DEF OnObject, Places
<1> QED BY <1>1, <1>2

LEMMA AdvanceOK ==
  ASSUME SInv, NEW o, OnObject(it, o), loaded_batch = it.batch, Advance, UNCHANGED storage
  PROVE  /\ it' \in Places
         /\ \/ o = is /\ it' = NULL
            \/ o < is /\ OnObject(it, o + 1)'
<1>1. /\ o \in 1..is /\ it.batch \in 1..n_batch /\ it.header \in DOMAIN headers[it.batch]
      /\ headers[it.batch][it.header].delta # 0 /\ headers[it.batch][it.header].object = o
  BY OnObjectFacts
<1>2. it' = NextFrom(it.header, it.batch) BY DEF Advance
<1>3. /\ it' = NULL => o = is
      /\ it' # NULL => OnObject(it', o + 1)
  BY <1>1, <1>2, NextFromOK
<1>4. CASE it' = NULL BY <1>3, <1>4, NullIsPlace
<1>5. CASE it' # NULL
  <2>1. OnObject(it', o + 1) BY <1>3, <1>5
  <2>2. o + 1 \in 1..is /\ o \in Nat /\ is \in Nat /\ o < is BY <1>1, <2>1, OnObjectFacts, EndsOK
  <2>3. OnObject(it, o + 1)' BY <2>1 DEF OnObject, storage
  <2> QED BY <1>1, <2>1, <2>2, <2>3 DEF OnObject
<1> QED BY <1>4, <1>5

(* nothing of this depends on what a step that writes nothing changes *)
LEMMA SameStorage ==
  ASSUME UNCHANGED storage
  PROVE  /\ n_batch' = n_batch /\ is' = is /\ headers' = headers
         /\ \A p, o : OnObject(p, o) => OnObject(p, o)'
BY DEF storage, OnObject

LEMMA SameEnds ==
  ASSUME UNCHANGED storage, NEW e, IsEnds(e)
  PROVE  IsEnds(e)'
BY DEF storage, IsEnds, Batch

LEMMA InitV == Init => VInv
BY NullIsPlace DEF Init, VInv, Scans

LEMMA ReadingV ==
  ASSUME VInv, Store \/ Overflow \/ EndOfStream \/ EndAtDelimiter
  PROVE  VInv'
<1>1. /\ pc = "read" /\ pc' \in {"read", "failure", "ready"} /\ UNCHANGED <<it, scan>>
  BY DEF Store, Overflow, EndOfStream, EndAtDelimiter
<1> QED BY <1>1 DEF VInv, Scans

(* leaving a loop, and going back to what was found, *)
(* change nothing a pass begun later depends on      *)
LEMMA KeptV ==
  ASSUME VInv, Found \/ Revisit
  PROVE  VInv'
<1>1. /\ pc \in {"next", "ready"} /\ pc' = "ready"
      /\ it' = it /\ scan' \in {"none", scan}
  BY DEF Found, Revisit
<1>2. scan' = "none" BY <1>1 DEF VInv, Found, Revisit
<1> QED BY <1>1, <1>2 DEF VInv, Scans

LEMMA StartV ==
  ASSUME SInv, VInv, StartEnumerate \/ StartLoop \/ StartIndex
  PROVE  VInv'
<1>1. /\ pc = "ready" /\ pc' = "visit" /\ UNCHANGED storage /\ visited' = <<>>
  BY DEF StartEnumerate, StartLoop, StartIndex, StartScan
<1>2. visited' = UpTo(0) /\ is \in Nat /\ n_batch \in Nat \ {0}
  BY <1>1, EndsOK DEF UpTo
<1>3. n_batch' = n_batch /\ is' = is /\ headers' = headers
      /\ \A p, o : OnObject(p, o) => OnObject(p, o)'
  BY <1>1, SameStorage
<1>4. CASE StartEnumerate
  <2>1. scan' = "enumerate" /\ it' = [batch |-> 1, header |-> 0] /\ loaded_batch' = 1
    BY <1>4 DEF StartEnumerate, StartScan
  <2>2. PICK e : IsEnds(e) BY DEF SInv
  <2>3. Batch(headers[1], e[1 - 1], e[1]) /\ e[0] = 0 BY <1>2, <2>2 DEF IsEnds
  <2>4. 0 \in DOMAIN headers[1] /\ Number(headers[1], e[1], 0) = 0 BY <2>3 DEF Batch
  <2>5. IsEnds(e)' BY <1>1, <2>2, SameEnds
  <2>6. EnumerateInv' BY <1>1, <1>2, <1>3, <2>1, <2>4, <2>5 DEF EnumerateInv
  <2> QED BY <1>1, <2>1, <2>6 DEF VInv, Places, Scans
<1>5. CASE StartLoop
  <2>1. scan' = "iterator" /\ it' = begin BY <1>5 DEF StartLoop, StartScan
  <2>2. CASE is = 0
    <3>1. it' = NULL BY <2>1, <2>2, BeginOK
    <3>2. LoopInv' BY <1>1, <1>2, <1>3, <2>2, <3>1 DEF LoopInv
    <3> QED BY <1>1, <2>1, <3>1, <3>2, NullIsPlace DEF VInv, Scans
  <2>3. CASE is > 0
    <3>1. OnObject(it', 0 + 1) BY <2>1, <2>3, BeginOK
    <3>2. OnObject(it, 0 + 1)' BY <1>1, <3>1 DEF OnObject, storage
    <3>3. it' \in Places BY <3>1 DEF OnObject
    <3>4. LoopInv' BY <1>1, <1>2, <1>3, <3>2 DEF LoopInv
    <3> QED BY <1>1, <2>1, <3>3, <3>4 DEF VInv, Scans
  <2> QED BY <1>2, <2>2, <2>3
<1>6. CASE StartIndex
  <2>1. scan' = "index" /\ it' = it BY <1>6 DEF StartIndex, StartScan
  <2>2. IndexInv'
    <3>1. 0 \in 0..is' BY <1>2, <1>3
    <3> QED BY <1>1, <1>2, <3>1 DEF IndexInv
  <2> QED BY <1>1, <2>1, <2>2 DEF VInv, Scans
<1> QED BY <1>4, <1>5, <1>6

LEMMA EndScanV ==
  ASSUME VInv, EndScan, it' = it
  PROVE  VInv'
BY DEF VInv, EndScan, Scans

LEMMA EnumerateV ==
  ASSUME SInv, VInv, EnumerateNext
  PROVE  VInv' /\ (scan' = "none" => visited = UpTo(is))
<1>1. pc = "visit" /\ scan = "enumerate" /\ UNCHANGED storage BY DEF EnumerateNext
<1>2. /\ it.batch \in 1..n_batch /\ it.header \in DOMAIN headers[it.batch]
      /\ loaded_batch = it.batch /\ it \in Places
  BY <1>1 DEF VInv, EnumerateInv
<1> DEFINE b == it.batch
           hd == headers[b]
           h == it.header
<1>3. PICK e : IsEnds(e) /\ visited = UpTo(Number(hd, e[b], h))
  BY <1>1 DEF VInv, EnumerateInv
<1>4. /\ e \in [0..n_batch -> 0..is] /\ e[n_batch] = is /\ Batch(hd, e[b - 1], e[b])
      /\ b \in Nat /\ n_batch \in Nat /\ is \in Nat /\ e[b] \in 0..is
  BY <1>2, <1>3, EndsOK DEF IsEnds
<1>5. n_batch' = n_batch /\ headers' = headers /\ IsEnds(e)'
  BY <1>1, <1>3, SameStorage, SameEnds
<1>6. hd \in Headers /\ h \in Int /\ hd[h].delta \in Nat /\ hd[h].object \in Nat
  BY <1>2, EndsOK, HeaderFields
<1>7. CASE hd[h].delta # 0
  <2>1. /\ visited' = Append(visited, hd[h].object)
        /\ it' = [it EXCEPT !.header = h + hd[h].delta]
        /\ UNCHANGED <<pc, scan, loaded_batch>>
    BY <1>2, <1>7 DEF EnumerateNext, Visit
  <2>2. /\ hd[h].object \in 1..e[b] /\ h + hd[h].delta \in DOMAIN hd
        /\ Number(hd, e[b], h + hd[h].delta) = hd[h].object
    BY <1>2, <1>4, <1>7 DEF Batch
  <2>3. Number(hd, e[b], h) = hd[h].object - 1 BY <1>7 DEF Number
  <2>4. hd[h].object - 1 \in Nat /\ (hd[h].object - 1) + 1 = hd[h].object BY <1>4, <2>2
  <2>5. visited' = UpTo(hd[h].object) BY <1>3, <2>1, <2>3, <2>4, UpToFacts
  <2>6. it'.batch = b /\ it'.header = h + hd[h].delta /\ it' \in Places
    BY <1>2, <1>6, <2>1 DEF Places
  <2>7. EnumerateInv' BY <1>1, <1>2, <1>5, <2>1, <2>2, <2>5, <2>6 DEF EnumerateInv
  <2> QED BY <1>1, <2>1, <2>6, <2>7 DEF VInv
<1>8. CASE hd[h].delta = 0 /\ b < n_batch
  <2>1. /\ loaded_batch' = b + 1 /\ it' = [batch |-> b + 1, header |-> 0]
        /\ UNCHANGED <<pc, scan, visited>>
    BY <1>2, <1>8 DEF EnumerateNext
  <2>2. b + 1 \in 1..n_batch /\ (b + 1) - 1 = b BY <1>4, <1>8
  <2>3. Batch(headers[b + 1], e[b], e[b + 1]) BY <1>3, <2>2 DEF IsEnds
  <2>4. Number(hd, e[b], h) = e[b] BY <1>8 DEF Number
  <2>5. 0 \in DOMAIN headers[b + 1] /\ Number(headers[b + 1], e[b + 1], 0) = e[b]
    BY <2>3 DEF Batch
  <2>6. EnumerateInv' BY <1>1, <1>3, <1>5, <2>1, <2>2, <2>4, <2>5 DEF EnumerateInv
  <2> QED BY <1>1, <1>4, <2>1, <2>6 DEF VInv, Places
<1>9. CASE hd[h].delta = 0 /\ ~(b < n_batch)
  <2>1. EndScan /\ UNCHANGED <<it, loaded_batch>> BY <1>2, <1>9 DEF EnumerateNext
  <2>2. b = n_batch BY <1>2, <1>4, <1>9
  <2>3. visited = UpTo(is) BY <1>3, <1>4, <1>9, <2>2 DEF Number
  <2> QED BY <2>1, <2>3, EndScanV
<1>10. scan' = scan \/ EndScan BY DEF EnumerateNext
<1>11. hd[h].delta # 0 \/ b < n_batch => scan' = scan BY <1>2 DEF EnumerateNext
<1> QED BY <1>1, <1>7, <1>8, <1>9, <1>11

LEMMA LoopV ==
  ASSUME SInv, VInv, Dereference \/ Increment
  PROVE  VInv' /\ (scan' = "none" => scan = "none" \/ visited = UpTo(is))
<1>1. UNCHANGED storage /\ it \in Places /\ is \in Nat
  BY EndsOK DEF Dereference, Increment, VInv
<1>2. n_batch' = n_batch /\ is' = is /\ headers' = headers
      /\ \A p, o : OnObject(p, o) => OnObject(p, o)'
  BY <1>1, SameStorage
<1>3. CASE Dereference
  <2>1. pc = "visit" /\ scan = "iterator" /\ it' = it BY <1>3 DEF Dereference
  <2>2. CASE it = NULL
    <3>1. EndScan BY <1>3, <2>2 DEF Dereference
    <3>2. visited = UpTo(is) BY <2>1, <2>2, OnObjectFacts DEF VInv, LoopInv
    <3> QED BY <2>1, <3>1, <3>2, EndScanV
  <2>3. CASE it # NULL
    <3>1. /\ visited' = Append(visited, headers[it.batch][it.header].object)
          /\ loaded_batch' = it.batch /\ pc' = "next" /\ scan' = scan
      BY <1>3, <2>3 DEF Dereference, Visit
    <3>2. PICK n \in 0..is : visited = UpTo(n) /\ OnObject(it, n + 1)
      BY <2>1, <2>3 DEF VInv, LoopInv
    <3>3. n \in Nat /\ n + 1 \in 0..is /\ headers[it.batch][it.header].object = n + 1
      BY <1>1, <3>2, OnObjectFacts
    <3>4. visited' = UpTo(n + 1) BY <3>1, <3>2, <3>3, UpToFacts
    <3>5. OnObject(it, n + 1)' BY <1>2, <2>1, <3>2 DEF OnObject
    <3>6. LoopInv' BY <1>2, <2>1, <3>1, <3>3, <3>4, <3>5 DEF LoopInv
    <3> QED BY <1>1, <2>1, <3>1, <3>6 DEF VInv, Scans
  <2> QED BY <2>2, <2>3
<1>4. CASE Increment
  <2>1. pc = "next" /\ pc' = "visit" /\ Advance /\ UNCHANGED <<scan, visited>>
    BY <1>4 DEF Increment
  <2>2. scan = "iterator"
    BY <2>1 DEF VInv, Scans, EnumerateInv, IndexInv
  <2>3. PICK n \in 0..is : visited = UpTo(n) /\ OnObject(it, n) /\ loaded_batch = it.batch
    BY <2>1, <2>2 DEF VInv, LoopInv
  <2>4. /\ it' \in Places
        /\ \/ n = is /\ it' = NULL
           \/ n < is /\ OnObject(it, n + 1)'
    BY <1>1, <2>1, <2>3, AdvanceOK
  <2>5. LoopInv' BY <1>2, <2>1, <2>3, <2>4 DEF LoopInv
  <2> QED BY <2>1, <2>2, <2>4, <2>5 DEF VInv, Scans
<1> QED BY <1>3, <1>4

LEMMA IndexV ==
  ASSUME SInv, VInv, Index \/ IndexStep
  PROVE  /\ VInv'
         /\ scan' = "none" => visited = UpTo(is)
         /\ pc' # "range_error"
<1>1. UNCHANGED storage /\ it \in Places /\ is \in Nat /\ total_items = is
  BY EndsOK DEF Index, IndexStep, VInv, SInv
<1>2. n_batch' = n_batch /\ is' = is /\ headers' = headers
      /\ \A p, o : OnObject(p, o) => OnObject(p, o)'
  BY <1>1, SameStorage
<1>3. CASE Index
  <2>1. pc = "visit" /\ scan = "index" BY <1>3 DEF Index
  <2>2. PICK n \in 0..is :
          /\ visited = UpTo(n)
          /\ n > 0 => OnObject(it, n) /\ loaded_batch = it.batch /\ current_i = n - 1
    BY <2>1 DEF VInv, IndexInv
  <2>3. Len(visited) = n /\ n \in Nat BY <2>2, UpToFacts
  <2>4. CASE n = is
    <3>1. EndScan /\ it' = it BY <1>1, <1>3, <2>3, <2>4 DEF Index
    <3>2. pc' = "ready" BY <3>1 DEF EndScan
    <3> QED BY <2>2, <2>4, <3>1, <3>2, EndScanV
  <2>5. CASE n # is /\ n = 0
    <3>1. it' = begin /\ current_i' = 0 /\ pc' = "step" /\ UNCHANGED <<scan, visited, loaded_batch>>
      BY <1>1, <1>3, <2>3, <2>5 DEF Index, Reset
    <3>2. OnObject(it', 0 + 1) BY <1>1, <2>3, <2>5, <3>1, BeginOK
    <3>3. OnObject(it, 0 + 1)' BY <1>2, <3>2 DEF OnObject
    <3>4. IndexInv' BY <1>1, <1>2, <2>2, <2>5, <3>1, <3>3 DEF IndexInv
    <3>5. it' \in Places BY <3>2 DEF OnObject
    <3> QED BY <2>1, <3>1, <3>4, <3>5 DEF VInv, Scans
  <2>6. CASE n # is /\ n # 0
    <3>1. n > 0 /\ current_i = n - 1 /\ ~Reset(n) BY <2>2, <2>3, <2>6 DEF Reset
    <3>2. pc' = "step" /\ UNCHANGED <<scan, visited, it, loaded_batch, current_i>>
      BY <1>1, <1>3, <2>3, <2>6, <3>1 DEF Index
    <3>3. OnObject(it, n)' BY <1>2, <2>2, <3>1, <3>2 DEF OnObject
    <3>4. current_i + 1 = n /\ current_i \in Nat /\ n < is BY <1>1, <2>3, <2>6, <3>1
    <3>5. IndexInv' BY <1>2, <2>2, <3>1, <3>2, <3>3, <3>4 DEF IndexInv
    <3> QED BY <1>1, <2>1, <3>2, <3>5 DEF VInv, Scans
  <2> QED BY <2>4, <2>5, <2>6
<1>4. CASE IndexStep
  <2>1. pc = "step" /\ scan' = scan BY <1>4 DEF IndexStep
  <2>2. scan = "index" BY <2>1 DEF VInv, Scans, EnumerateInv, LoopInv
  <2>3. PICK n \in 0..is :
          /\ visited = UpTo(n) /\ n < is
          /\ current_i \in Nat /\ OnObject(it, current_i + 1)
          /\ \/ current_i = n
             \/ current_i + 1 = n /\ loaded_batch = it.batch
    BY <2>1, <2>2 DEF VInv, IndexInv
  <2>4. Len(visited) = n /\ n \in Nat /\ it # NULL BY <2>3, UpToFacts, OnObjectFacts
  <2>5. CASE current_i + 1 = n
    <3>1. Behind(n) BY <2>3, <2>4, <2>5 DEF Behind
    <3>2. Advance /\ current_i' = current_i + 1 /\ UNCHANGED <<pc, visited>>
      BY <1>4, <2>4, <3>1 DEF IndexStep
    <3>3. loaded_batch = it.batch /\ OnObject(it, n) BY <2>3, <2>5
    <3>4. it' \in Places /\ OnObject(it, n + 1)'
      BY <1>1, <2>3, <2>4, <3>2, <3>3, AdvanceOK
    <3>5. IndexInv' BY <1>2, <2>1, <2>3, <2>4, <2>5, <3>2, <3>4 DEF IndexInv
    <3> QED BY <2>1, <2>2, <3>2, <3>4, <3>5 DEF VInv, Scans
  <2>6. CASE current_i = n
    <3>1. ~Behind(n) BY <2>4, <2>6 DEF Behind
    <3>2. /\ visited' = Append(visited, headers[it.batch][it.header].object)
          /\ loaded_batch' = it.batch /\ pc' = "visit" /\ UNCHANGED <<it, current_i>>
      BY <1>4, <2>4, <3>1 DEF IndexStep, Visit
    <3>3. headers[it.batch][it.header].object = n + 1 BY <2>3, <2>6, OnObjectFacts
    <3>4. visited' = UpTo(n + 1) BY <2>3, <2>4, <3>2, <3>3, UpToFacts
    <3>5. OnObject(it, n + 1)' BY <1>2, <2>3, <2>6, <3>2 DEF OnObject
    <3>6. n + 1 \in 0..is /\ (n + 1) - 1 = n BY <1>1, <2>3, <2>4
    <3>7. IndexInv' BY <1>2, <2>6, <3>2, <3>4, <3>5, <3>6 DEF IndexInv
    <3> QED BY <1>1, <2>1, <2>2, <3>2, <3>7 DEF VInv, Scans
  <2> QED BY <2>2, <2>1, <2>3, <2>5, <2>6 DEF Scans
<1> QED BY <1>3, <1>4

LEMMA InductiveV == SInv /\ VInv /\ [Next]_vars => VInv'
<1> SUFFICES ASSUME SInv, VInv, [Next]_vars PROVE VInv' OBVIOUS
<1>1. CASE Store \/ Overflow \/ EndOfStream \/ EndAtDelimiter BY <1>1, ReadingV
<1>2. CASE StartEnumerate \/ StartLoop \/ StartIndex BY <1>2, StartV
<1>3. CASE EnumerateNext BY <1>3, EnumerateV
<1>4. CASE Dereference \/ Increment BY <1>4, LoopV
<1>5. CASE Index \/ IndexStep BY <1>5, IndexV
<1>6. CASE UNCHANGED vars
  <2>1. UNCHANGED storage /\ UNCHANGED <<pc, loaded_batch, it, current_i, scan, visited>>
    BY <1>6 DEF vars, storage
  <2>2. n_batch' = n_batch /\ is' = is /\ headers' = headers
        /\ \A p, o : OnObject(p, o) => OnObject(p, o)'
    BY <2>1, SameStorage
  <2>3. ASSUME EnumerateInv PROVE EnumerateInv'
    <3>1. PICK e : IsEnds(e) /\ visited = UpTo(Number(headers[it.batch], e[it.batch], it.header))
      BY <2>3 DEF EnumerateInv
    <3>2. IsEnds(e)' BY <2>1, <3>1, SameEnds
    <3> QED BY <2>1, <2>2, <2>3, <3>1, <3>2 DEF EnumerateInv
  <2>4. LoopInv => LoopInv' BY <2>1, <2>2 DEF LoopInv, OnObject
  <2>5. IndexInv => IndexInv' BY <2>1, <2>2 DEF IndexInv, OnObject
  <2> QED BY <2>1, <2>3, <2>4, <2>5 DEF VInv
<1>7. CASE Found \/ Revisit BY <1>7, KeptV
<1> QED BY <1>1, <1>2, <1>3, <1>4, <1>5, <1>6, <1>7 DEF Next, Step

LEMMA InvariantV == Spec => []VInv
BY InvariantS, InitV, InductiveV, PTL DEF Spec

(* Whichever way a caller goes through the objects, and whatever batch was   *)
(* left mapped before, by the end it has seen each of them once and in order.     *)
THEOREM EverythingSeen == Spec => SeesAll
<1>1. ASSUME SInv, VInv, [Next]_vars, pc = "visit", scan' = "none"
      PROVE  visited = [j \in 1..total_items |-> j]
  <2>1. total_items = is /\ scan # "none" BY <1>1 DEF SInv, VInv
  <2>2. ~(UNCHANGED scan) BY <1>1, <2>1
  <2>3. ~(Store \/ Overflow \/ EndOfStream \/ EndAtDelimiter \/ UNCHANGED vars)
    BY <2>2 DEF Store, Overflow, EndOfStream, EndAtDelimiter, vars
  <2>4. ~(StartEnumerate \/ StartLoop \/ StartIndex \/ Found \/ Revisit)
    BY <1>1 DEF StartEnumerate, StartLoop, StartIndex, StartScan, Found, Revisit
  <2>5. visited = UpTo(is)
    BY <1>1, <2>1, <2>3, <2>4, EnumerateV, LoopV, IndexV DEF Next, Step
  <2> QED BY <2>1, <2>5 DEF UpTo
<1> QED BY <1>1, InvariantS, InvariantV, PTL DEF Spec, SeesAll

(* operator[] never runs out of objects: std::range_error is unreachable. *)
NoRangeError == pc # "range_error"

THEOREM IndexInRange == Spec => []NoRangeError
<1>1. Init => NoRangeError BY DEF Init, NoRangeError
<1>2. ASSUME SInv, VInv, NoRangeError, [Next]_vars PROVE NoRangeError'
  <2>1. CASE Index \/ IndexStep BY <2>1, <1>2, IndexV DEF NoRangeError
  <2>2. CASE ~(Index \/ IndexStep)
    BY <1>2, <2>2 DEF NoRangeError, Next, Step, Store, Overflow, EndOfStream, EndAtDelimiter,
       EnumerateNext, EndScan, Dereference, Increment, StartEnumerate, StartLoop, StartIndex,
       StartScan, Found, Revisit, vars
  <2> QED BY <2>1, <2>2
<1> QED BY <1>1, <1>2, InvariantS, InvariantV, PTL DEF Spec

-----------------------------------------------------------------------------
(* What is stored *)

Between(m, n) == [j \in 1..n - m |-> m + j]

LEMMA BetweenFacts ==
  ASSUME NEW m \in Nat, NEW n \in Nat, m <= n
  PROVE  /\ Between(m, n) \in Seq(Nat) /\ Len(Between(m, n)) = n - m
         /\ UpTo(m) \o Between(m, n) = UpTo(n)
         /\ m > 0 => <<m>> \o Between(m, n) = Between(m - 1, n)
<1>1. n - m \in Nat OBVIOUS
<1>2. Between(m, n) \in Seq(Nat) /\ Len(Between(m, n)) = n - m BY <1>1 DEF Between
<1>3. UpTo(m) \o Between(m, n) = UpTo(n)
  <2>1. UpTo(m) \in Seq(Nat) /\ Len(UpTo(m)) = m /\ UpTo(n) \in Seq(Nat) /\ Len(UpTo(n)) = n
    BY UpToFacts
  <2>2. /\ UpTo(m) \o Between(m, n) \in Seq(Nat)
        /\ Len(UpTo(m) \o Between(m, n)) = n
        /\ \A j \in 1..n : (UpTo(m) \o Between(m, n))[j] =
                             IF j <= m THEN UpTo(m)[j] ELSE Between(m, n)[j - m]
    <3>1. /\ UpTo(m) \o Between(m, n) \in Seq(Nat)
          /\ Len(UpTo(m) \o Between(m, n)) = m + (n - m)
          /\ \A j \in 1..m + (n - m) : (UpTo(m) \o Between(m, n))[j] =
                               IF j <= m THEN UpTo(m)[j] ELSE Between(m, n)[j - m]
      BY SMTT(30), <1>2, <2>1, ConcatProperties
    <3>2. m + (n - m) = n OBVIOUS
    <3> QED BY <3>1, <3>2
  <2>3. ASSUME NEW j \in 1..n PROVE (UpTo(m) \o Between(m, n))[j] = UpTo(n)[j]
    <3>1. CASE j <= m BY <2>2, <3>1 DEF UpTo
    <3>2. CASE ~(j <= m)
      <4>1. j - m \in 1..n - m BY <3>2
      <4>2. (UpTo(m) \o Between(m, n))[j] = Between(m, n)[j - m] BY <2>2, <3>2
      <4> QED BY <4>1, <4>2 DEF Between, UpTo
    <3> QED BY <3>1, <3>2
  <2> QED BY <2>1, <2>2, <2>3, SeqEqual
<1>4. ASSUME m > 0 PROVE <<m>> \o Between(m, n) = Between(m - 1, n)
  <2>1. /\ Between(m - 1, n) \in Seq(Nat) /\ Len(Between(m - 1, n)) = n - m + 1
    BY <1>4, n - (m - 1) \in Nat DEF Between
  <2>2. <<m>> \in Seq(Nat) /\ Len(<<m>>) = 1 /\ <<m>>[1] = m OBVIOUS
  <2>3. <<m>> \o Between(m, n) \in Seq(Nat) /\ Len(<<m>> \o Between(m, n)) = n - m + 1
    BY <1>1, <1>2, <2>2
  <2>4. ASSUME NEW j \in 1..n - m + 1 PROVE (<<m>> \o Between(m, n))[j] = Between(m - 1, n)[j]
    <3>1. Between(m - 1, n)[j] = m - 1 + j BY <2>4 DEF Between
    <3>2. CASE j = 1 BY <1>1, <1>2, <2>2, <3>1, <3>2
    <3>3. CASE j # 1
      <4>1. j - 1 \in 1..n - m BY <2>4, <3>3
      <4>2. (<<m>> \o Between(m, n))[j] = Between(m, n)[j - 1] BY <1>1, <1>2, <2>2, <4>1
      <4> QED BY <3>1, <4>1, <4>2 DEF Between
    <3> QED BY <3>2, <3>3
  <2> QED BY <2>1, <2>3, <2>4, SeqEqual
<1> QED BY <1>2, <1>3, <1>4

(* the chain behind each header *)
ChainsFrom(hd, f) ==
  f = [h \in DOMAIN hd |-> IF hd[h].delta = 0 THEN <<>>
                           ELSE <<hd[h].object>> \o f[h + hd[h].delta]]

LEMMA EmptyBatch == ASSUME NEW n \in Nat PROVE Between(n, n) = <<>>
<1>1. n <= n /\ n - n = 0 OBVIOUS
<1>2. Between(n, n) \in Seq(Nat) /\ Len(Between(n, n)) = 0 BY <1>1, BetweenFacts
<1> QED BY <1>2

LEMMA NumberFacts ==
  ASSUME NEW hd \in Headers, NEW from, NEW to \in Nat, Batch(hd, from, to), NEW h \in DOMAIN hd
  PROVE  /\ Number(hd, to, h) \in 0..to
         /\ hd[h].delta # 0 =>
              LET next == h + hd[h].delta
              IN  /\ next \in DOMAIN hd /\ next > h
                  /\ Number(hd, to, next) = hd[h].object
                  /\ <<hd[h].object>> \o Between(Number(hd, to, next), to)
                       = Between(Number(hd, to, h), to)
<1>1. h \in Nat /\ hd[h].delta \in Nat BY HeaderFields
<1>2. CASE hd[h].delta = 0 BY <1>2 DEF Number
<1>3. CASE hd[h].delta # 0
  <2>1. /\ hd[h].object \in 1..to /\ h + hd[h].delta \in DOMAIN hd
        /\ Number(hd, to, h + hd[h].delta) = hd[h].object
    BY <1>3 DEF Batch
  <2>2. Number(hd, to, h) = hd[h].object - 1 BY <1>3 DEF Number
  <2>3. <<hd[h].object>> \o Between(hd[h].object, to) = Between(hd[h].object - 1, to)
    <3>1. hd[h].object \in Nat /\ hd[h].object <= to /\ hd[h].object > 0 BY <2>1
    <3> QED BY <3>1, BetweenFacts
  <2> QED BY <1>1, <1>3, <2>1, <2>2, <2>3
<1> QED BY <1>2, <1>3

LEMMA ChainFacts ==
  ASSUME NEW hd \in Headers, NEW from, NEW to \in Nat, Batch(hd, from, to)
  PROVE  LET f == CHOOSE f : ChainsFrom(hd, f)
         IN  from \in 0..to /\ f[0] = Between(from, to)
<1>1. \A h \in DOMAIN hd : h \in 0..Capacity - 1 BY HeaderFields
<1>2. \E f : ChainsFrom(hd, f)
  <2> DEFINE g == [h \in DOMAIN hd |-> Between(Number(hd, to, h), to)]
  <2>1. ASSUME NEW h \in DOMAIN hd
        PROVE  g[h] = IF hd[h].delta = 0 THEN <<>> ELSE <<hd[h].object>> \o g[h + hd[h].delta]
    <3>1. CASE hd[h].delta = 0 BY <3>1, EmptyBatch DEF Number
    <3>2. CASE hd[h].delta # 0
      <4>1. h + hd[h].delta \in DOMAIN hd
            /\ <<hd[h].object>> \o Between(Number(hd, to, h + hd[h].delta), to)
                 = Between(Number(hd, to, h), to)
        BY <3>2, NumberFacts
      <4> QED BY <3>2, <4>1
    <3> QED BY <3>1, <3>2
  <2>2. DOMAIN g = DOMAIN hd OBVIOUS
  <2>3. g = [h \in DOMAIN hd |-> g[h]] OBVIOUS
  <2> HIDE DEF g
  <2>4. ChainsFrom(hd, g) BY <2>1, <2>3 DEF ChainsFrom
  <2> QED BY <2>4
<1>3. PICK f : ChainsFrom(hd, f) /\ f = CHOOSE g : ChainsFrom(hd, g) BY <1>2
<1> DEFINE Right(h) == f[h] = Between(Number(hd, to, h), to)
           S == {k \in Nat : \A h \in DOMAIN hd : h >= Capacity - k => Right(h)}
<1>4. 0 \in S BY <1>1, SwapBatchAssumption
<1>5. ASSUME NEW k \in Nat, k \in S PROVE k + 1 \in S
  <2> SUFFICES ASSUME NEW h \in DOMAIN hd, h >= Capacity - (k + 1) PROVE Right(h) OBVIOUS
  <2>0. h \in Nat /\ Capacity \in Nat BY <1>1, SwapBatchAssumption
  <2>1. f[h] = IF hd[h].delta = 0 THEN <<>> ELSE <<hd[h].object>> \o f[h + hd[h].delta]
    BY <1>3 DEF ChainsFrom
  <2>2. CASE hd[h].delta = 0 BY <2>1, <2>2, EmptyBatch DEF Number
  <2>3. CASE hd[h].delta # 0
    <3> DEFINE next == h + hd[h].delta
    <3>1. /\ next \in DOMAIN hd /\ next > h
          /\ <<hd[h].object>> \o Between(Number(hd, to, next), to) = Between(Number(hd, to, h), to)
      BY <2>3, NumberFacts
    <3>2. next \in Nat BY <1>1, <3>1
    <3>3. Right(next)
      <4> HIDE DEF next, Right
      <4>1. next >= Capacity - k BY <2>0, <3>1, <3>2
      <4> QED BY <1>5, <3>1, <4>1
    <3> QED BY <2>1, <2>3, <3>1, <3>3
  <2> QED BY <2>2, <2>3
<1>6. Capacity \in S
  <2> HIDE DEF S
  <2> QED BY NatSetInduction, <1>4, <1>5, SwapBatchAssumption
<1>7. 0 \in DOMAIN hd /\ Number(hd, to, 0) = from BY DEF Batch
<1>8. from \in 0..to BY <1>7, NumberFacts
<1>9. Right(0) BY <1>6, <1>7, SwapBatchAssumption
<1> QED BY <1>3, <1>7, <1>8, <1>9

LEMMA ChainOK ==
  ASSUME SInv, NEW b \in 1..n_batch
  PROVE  ends[b - 1] \in 0..ends[b] /\ Chain(b) = Between(ends[b - 1], ends[b])
<1>1. /\ Batch(headers[b], ends[b - 1], ends[b]) /\ headers[b] \in Headers /\ ends[b] \in Nat
  BY EndsOK
<1>2. Chain(b) = (CHOOSE f : ChainsFrom(headers[b], f))[0] BY DEF Chain, ChainsFrom
<1> QED BY <1>1, <1>2, ChainFacts

ChainsUpTo(f) == f = [b \in 0..n_batch |-> IF b = 0 THEN <<>> ELSE f[b - 1] \o Chain(b)]

LEMMA ChainsOK ==
  ASSUME SInv
  PROVE  (CHOOSE f : ChainsUpTo(f))[n_batch] = UpTo(is)
<1>1. /\ n_batch \in Nat \ {0} /\ ends[0] = 0 /\ ends[n_batch] = is
      /\ \A b \in 0..n_batch : ends[b] \in Nat
  BY EndsOK
<1>2. ASSUME NEW b \in 1..n_batch PROVE UpTo(ends[b - 1]) \o Chain(b) = UpTo(ends[b])
  <2>1. Chain(b) = Between(ends[b - 1], ends[b]) /\ ends[b - 1] \in 0..ends[b] BY ChainOK
  <2>2. ends[b - 1] \in Nat /\ ends[b] \in Nat /\ ends[b - 1] <= ends[b] BY <1>1, <2>1
  <2> QED BY <2>1, <2>2, BetweenFacts
<1>3. UpTo(0) = <<>> BY DEF UpTo
<1>4. \E f : ChainsUpTo(f)
  <2> DEFINE g == [b \in 0..n_batch |-> UpTo(ends[b])]
  <2>1. ASSUME NEW b \in 0..n_batch PROVE g[b] = IF b = 0 THEN <<>> ELSE g[b - 1] \o Chain(b)
    <3>1. CASE b = 0 BY <1>1, <1>3, <3>1
    <3>2. CASE b # 0
      <4>1. b \in 1..n_batch /\ b - 1 \in 0..n_batch BY <1>1, <3>2
      <4> QED BY <1>2, <3>2, <4>1
    <3> QED BY <3>1, <3>2
  <2>2. g = [b \in 0..n_batch |-> g[b]] OBVIOUS
  <2> HIDE DEF g
  <2>3. ChainsUpTo(g) BY <2>1, <2>2 DEF ChainsUpTo
  <2> QED BY <2>3
<1>5. PICK f : ChainsUpTo(f) /\ f = CHOOSE g : ChainsUpTo(g) BY <1>4
<1> DEFINE S == {b \in Nat : b <= n_batch => f[b] = UpTo(ends[b])}
<1>6. 0 \in S BY <1>1, <1>3, <1>5 DEF ChainsUpTo
<1>7. ASSUME NEW b \in Nat, b \in S PROVE b + 1 \in S
  <2> SUFFICES ASSUME b + 1 <= n_batch PROVE f[b + 1] = UpTo(ends[b + 1]) OBVIOUS
  <2>1. b + 1 \in 1..n_batch /\ b + 1 \in 0..n_batch /\ b + 1 # 0 /\ (b + 1) - 1 = b BY <1>1
  <2>2. f[b + 1] = f[b] \o Chain(b + 1) BY <1>5, <2>1 DEF ChainsUpTo
  <2>3. f[b] = UpTo(ends[b]) BY <1>1, <1>7
  <2> QED BY <1>2, <2>1, <2>2, <2>3
<1>8. n_batch \in S
  <2> HIDE DEF S
  <2> QED BY NatSetInduction, <1>1, <1>6, <1>7
<1> QED BY <1>1, <1>5, <1>8

(* However often an object did not fit and was read again: the batches hold  *)
(* the stream, in order, each object once and whole inside its batch.        *)
THEOREM KeptInOrder == Spec => []StoredInOrder
<1>1. ASSUME SInv PROVE StoredInOrder
  <2>1. total_items = is /\ n_batch \in Nat \ {0} BY <1>1, EndsOK DEF SInv
  <2>2. (CHOOSE f : ChainsUpTo(f))[n_batch] = [j \in 1..total_items |-> j]
    BY <1>1, <2>1, ChainsOK DEF UpTo
  <2>3. ASSUME NEW b \in 1..n_batch, NEW h \in DOMAIN headers[b]
        PROVE  /\ h < Capacity
               /\ headers[b][h].delta # 0 =>
                    headers[b][h].delta >= 1 + sizes[headers[b][h].object]
    <3>1. headers[b] \in Headers /\ Batch(headers[b], ends[b - 1], ends[b]) BY <1>1, EndsOK
    <3>2. h \in 0..Capacity - 1 BY <3>1, HeaderFields
    <3> QED BY <3>1, <3>2, SwapBatchAssumption DEF Batch
  <2>4. pc \notin {"read", "failure"} => total_items = Len(sizes) BY <1>1 DEF SInv
  <2> QED BY <2>2, <2>3, <2>4 DEF StoredInOrder, ChainsUpTo
<1> QED BY <1>1, InvariantS, PTL
=============================================================================
