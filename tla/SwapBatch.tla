------------------------------ MODULE SwapBatch ------------------------------
(***************************************************************************)
(* graehl/shared/swapbatch.hpp: a list of objects too large for memory,    *)
(* kept in batches of which one is mapped at a time, always at the same    *)
(* address.  Objects are read from a stream into the last batch; when one  *)
(* does not fit, a new batch is begun and the object read again.  Before   *)
(* each object stands a header: how far it is to the next, 0 at the end of *)
(* the batch.                                                              *)
(*                                                                         *)
(* An object is its number in the stream; its size is all that is said of  *)
(* it.  Space is counted in headers.                                       *)
(***************************************************************************)
EXTENDS Integers, Sequences, FiniteSetsExt

CONSTANTS
  Streams,      \* sequences of sizes of the objects in a stream
  Capacity,     \* the size of a batch
  Fixed         \* what every object takes at least: sizeof(B)

ASSUME SwapBatchAssumption ==
  /\ Fixed \in Nat \ {0}
  /\ \A s \in Streams : s \in Seq(Nat) /\ \A j \in DOMAIN s : s[j] >= Fixed
  /\ Capacity \in Nat \ {0}

VARIABLES
  sizes,        \* the stream
  is,           \* its position: the objects read
  first,        \* of read_one: has no read of the object failed yet?
  pc,
  headers,      \* of each batch: its headers, and the object behind each
  top,          \* StackAlloc space: the first free place in the last batch
  d_tail,       \* the last header of the last batch
  total_items,
  loaded_batch, \* the batch that is mapped
  it,           \* the iterator of a loop (current_iter of operator[]), NULL at the end
  current_i,    \* of operator[]
  scan,         \* how a caller goes through the objects
  visited,      \* what it has seen
  kept          \* an iterator a caller has kept from a loop it left, or NULL

vars == <<sizes, is, first, pc, headers, top, d_tail, total_items, loaded_batch, it,
          current_i, scan, visited, kept>>
storage == <<sizes, is, first, headers, top, d_tail, total_items>>

NULL == [batch |-> 0, header |-> -1]
n_batch == Len(headers)
Scans == {"enumerate", "iterator", "index"}

(* *d = 0, "class invariant: each batch has a chain of d_tail diffs ending in 0" *)
EndHeader == [delta |-> 0, object |-> 0]
NewBatch == [h \in {0} |-> EndHeader]

Init ==
  /\ sizes \in Streams
  /\ is = 0 /\ first = TRUE
  /\ pc = "read"
  /\ headers = <<NewBatch>>
  /\ top = 1 /\ d_tail = 0
  /\ total_items = 0
  /\ loaded_batch = 1
  /\ it = NULL
  /\ current_i \in 0..Len(sizes)      \* the constructor leaves it as it is
  /\ scan = "none" /\ visited = <<>> /\ kept = NULL

-----------------------------------------------------------------------------
(* read_all and read_one *)

(* The reservation keeps the place of the header that follows. *)
Fits(size) == top + size + 1 <= Capacity

create_next_batch ==
  /\ headers' = Append(headers, NewBatch)
  /\ loaded_batch' = Len(headers) + 1
  /\ top' = 1
  /\ d_tail' = 0

Store ==
  /\ pc = "read" /\ is < Len(sizes)
  /\ Fits(sizes[is + 1])
  /\ LET tail == top + sizes[is + 1]
         stored == [delta |-> tail - d_tail, object |-> is + 1]
     IN  /\ headers' = [headers EXCEPT ![n_batch] =
                          [h \in DOMAIN @ \cup {tail} |->
                             IF h = tail THEN EndHeader ELSE IF h = d_tail THEN stored ELSE @[h]]]
         /\ d_tail' = tail
         /\ top' = tail + 1
  /\ is' = is + 1
  /\ first' = TRUE
  /\ total_items' = total_items + 1
  /\ UNCHANGED <<sizes, pc, loaded_batch, it, current_i, scan, visited, kept>>

(* What the object read next takes; at the end of the stream one more is begun. *)
Needed == IF is < Len(sizes) THEN sizes[is + 1] ELSE Fixed

(* StackAlloc::Overflow: the stream is sought back and the object read again, once *)
Overflow_NoSeek ==
  /\ pc = "read" /\ ~Fits(Needed)
  /\ IF first
     THEN /\ create_next_batch /\ first' = FALSE /\ UNCHANGED pc
          /\ is' = IF is < Len(sizes) THEN is + 1 ELSE is
     ELSE pc' = "failure" /\ UNCHANGED <<headers, loaded_batch, top, d_tail, first, is>>
  /\ UNCHANGED <<sizes, total_items, it, current_i, scan, visited, kept>>
Overflow ==
  /\ pc = "read" /\ ~Fits(Needed)
  /\ IF first
     THEN create_next_batch /\ first' = FALSE /\ UNCHANGED pc
     ELSE pc' = "failure" /\ UNCHANGED <<headers, loaded_batch, top, d_tail, first>>
  /\ UNCHANGED <<sizes, is, total_items, it, current_i, scan, visited, kept>>

(* The object begun at the end of the stream has room and meets the end. *)
EndOfStream ==
  /\ pc = "read" /\ is = Len(sizes)
  /\ Fits(Needed)
  /\ pc' = "ready"
  /\ UNCHANGED <<storage, loaded_batch, it, current_i, scan, visited, kept>>

(* A delimiter before the next object ends the reading without an attempt. *)
EndAtDelimiter ==
  /\ pc = "read" /\ is = Len(sizes)
  /\ first
  /\ pc' = "ready"
  /\ UNCHANGED <<storage, loaded_batch, it, current_i, scan, visited, kept>>

-----------------------------------------------------------------------------
(* Going through the objects *)

(* begin() does not load its batch *)
begin == IF total_items > 0 THEN [batch |-> 1, header |-> 0] ELSE NULL

(* operator++, from the header h of b, which must be the batch that is mapped; *)
(* batches without objects are passed over                                     *)
NextFrom_StopsAtEmpty(h, b) ==
  LET later == {c \in b + 1..n_batch : TRUE}
  IN  IF headers[b][h].delta # 0 /\ headers[b][h + headers[b][h].delta].delta # 0
      THEN [batch |-> b, header |-> h + headers[b][h].delta]
      ELSE IF later = {} THEN NULL ELSE [batch |-> Min(later), header |-> 0]
NextFrom(h, b) ==
  LET later == {c \in b + 1..n_batch : headers[c][0].delta # 0}
  IN  IF headers[b][h].delta # 0 /\ headers[b][h + headers[b][h].delta].delta # 0
      THEN [batch |-> b, header |-> h + headers[b][h].delta]
      ELSE IF later = {} THEN NULL ELSE [batch |-> Min(later), header |-> 0]

(* It loads the batches it looks into, the last one even if there is nothing. *)
Advance ==
  LET next == NextFrom(it.header, loaded_batch)
  IN  /\ it' = next
      /\ loaded_batch' = IF next = NULL THEN n_batch ELSE next.batch

StartScan(how) ==
  /\ pc = "ready"
  /\ scan' = how
  /\ visited' = <<>>
  /\ pc' = "visit"
  /\ UNCHANGED <<storage, kept>>

(* enumerate loads the first batch; a loop over iterators waits for operator*. *)
StartEnumerate ==
  /\ StartScan("enumerate")
  /\ loaded_batch' = 1
  /\ it' = [batch |-> 1, header |-> 0]
  /\ UNCHANGED current_i
StartLoop ==
  /\ StartScan("iterator")
  /\ it' = begin
  /\ UNCHANGED <<loaded_batch, current_i>>
StartIndex ==
  /\ StartScan("index")
  /\ UNCHANGED <<loaded_batch, it, current_i>>

Visit(batch, header) == visited' = Append(visited, headers[batch][header].object)
EndScan == pc' = "ready" /\ scan' = "none" /\ UNCHANGED visited

(* the inner loop of enumerate ends at a 0, the outer with the last batch *)
EnumerateNext ==
  /\ pc = "visit" /\ scan = "enumerate"
  /\ IF headers[loaded_batch][it.header].delta # 0
     THEN /\ Visit(loaded_batch, it.header)
          /\ it' = [it EXCEPT !.header = @ + headers[loaded_batch][it.header].delta]
          /\ UNCHANGED <<pc, scan, loaded_batch>>
     ELSE IF it.batch < n_batch
     THEN /\ loaded_batch' = it.batch + 1
          /\ it' = [batch |-> it.batch + 1, header |-> 0]
          /\ UNCHANGED <<pc, scan, visited>>
     ELSE EndScan /\ UNCHANGED <<it, loaded_batch>>
  /\ UNCHANGED <<storage, current_i, kept>>

(* a loop from begin() to end(): dereference, then ++ *)
Dereference ==
  /\ pc = "visit" /\ scan = "iterator"
  /\ IF it # NULL
     THEN /\ Visit(it.batch, it.header)
          /\ loaded_batch' = it.batch
          /\ pc' = "next"
          /\ UNCHANGED scan
     ELSE EndScan /\ UNCHANGED loaded_batch
  /\ UNCHANGED <<storage, it, current_i, kept>>
Increment ==
  /\ pc = "next"
  /\ Advance
  /\ pc' = "visit"
  /\ UNCHANGED <<storage, current_i, scan, visited, kept>>

(* find_group_holding: a caller who has found its object leaves the loop there *)
(* and keeps the iterator; dereferenced later, it maps its batch again         *)
Found ==
  /\ pc = "next"
  /\ kept' = it
  /\ pc' = "ready" /\ scan' = "none"
  /\ UNCHANGED <<storage, loaded_batch, it, current_i, visited>>
Revisit ==
  /\ pc = "ready" /\ kept # NULL
  /\ loaded_batch' = kept.batch
  /\ UNCHANGED <<storage, pc, it, current_i, scan, visited, kept>>

(* operator[](i): back to the beginning, or on from the last object asked for; *)
(* callers ask for 0, 1, ... size() - 1                                        *)
Reset(i) == i = 0 \/ i < current_i
Behind_OrThere(i) == i >= current_i
Behind(i) == i > current_i

Index ==
  /\ pc = "visit" /\ scan = "index"
  /\ LET i == Len(visited)
     IN  IF i = total_items
         THEN EndScan /\ UNCHANGED <<it, loaded_batch, current_i>>
         ELSE IF Reset(i)
         THEN /\ it' = begin
              /\ current_i' = 0
              /\ pc' = "step"
              /\ UNCHANGED <<scan, visited, loaded_batch>>
         ELSE /\ pc' = "step"
              /\ UNCHANGED <<scan, visited, it, loaded_batch, current_i>>
  /\ UNCHANGED <<storage, kept>>

(* the loop of operator[], then current_iter is dereferenced; past the end it throws *)
IndexStep ==
  /\ pc = "step"
  /\ IF it = NULL
     THEN pc' = "range_error" /\ UNCHANGED <<visited, it, current_i, loaded_batch>>
     ELSE IF Behind(Len(visited))
     THEN /\ Advance
          /\ current_i' = current_i + 1
          /\ UNCHANGED <<pc, visited>>
     ELSE /\ Visit(it.batch, it.header)
          /\ loaded_batch' = it.batch
          /\ pc' = "visit"
          /\ UNCHANGED <<it, current_i>>
  /\ UNCHANGED <<storage, scan, kept>>

Step ==
  \/ Store \/ Overflow \/ EndOfStream \/ EndAtDelimiter
  \/ EnumerateNext \/ Dereference \/ Increment \/ Index \/ IndexStep
Next == Step \/ StartEnumerate \/ StartLoop \/ StartIndex \/ Found \/ Revisit

Spec == Init /\ [][Next]_vars
FairSpec == Spec /\ WF_vars(Step)

-----------------------------------------------------------------------------
(* Properties *)

(* The objects of a batch, from its first header to the 0. *)
Chain(b) ==
  LET from[h \in DOMAIN headers[b]] ==
        IF headers[b][h].delta = 0 THEN <<>>
        ELSE <<headers[b][h].object>> \o from[h + headers[b][h].delta]
  IN  from[0]

(* What was read is in the batches, in the order of the stream, every object *)
(* once, whole, and inside its batch: the second read of one that did not    *)
(* fit loses nothing and repeats nothing, and "can't fail, because of        *)
(* safety" holds for the header written after it.                            *)
StoredInOrder ==
  LET chains[b \in 0..n_batch] == IF b = 0 THEN <<>> ELSE chains[b - 1] \o Chain(b)
  IN  /\ chains[n_batch] = [j \in 1..total_items |-> j]
      /\ \A b \in 1..n_batch : \A h \in DOMAIN headers[b] :
           /\ h < Capacity
           /\ headers[b][h].delta # 0 =>
                headers[b][h].delta >= 1 + sizes[headers[b][h].object]
      /\ pc \notin {"read", "failure"} => total_items = Len(sizes)

(* Every way to go through the objects has seen each of them once and in     *)
(* order when it comes to its end, whatever batch a caller left mapped       *)
(* before it began, and however many batches are empty.  As with the callers *)
(* of the program, no two passes are under way at once.                      *)
SeesAll ==
  [][pc = "visit" /\ scan' = "none" => visited = [j \in 1..total_items |-> j]]_vars

(* Every pass ends, operator[] without the exception that there are no more. *)
ScansEnd == scan # "none" ~> scan = "none"
=============================================================================
