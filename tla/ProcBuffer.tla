----------------------------- MODULE ProcBuffer -----------------------------
(***************************************************************************)
(* Buffer<T> of hfst-proc: the circular buffer the token stream keeps so   *)
(* that tokens can be read again.  A buffer is a record [buf, currentpos,  *)
(* lastpos]; both positions are one behind the element they stand for, and *)
(* BufferSize stands for the position before the first element.            *)
(***************************************************************************)
EXTENDS Integers, Sequences

CONSTANTS BufferSize, NoToken

ASSUME BufferSizeAssumption == BufferSize \in Nat \ {0}

EmptyBuffer == [buf |-> [i \in 0 .. BufferSize - 1 |-> NoToken], currentpos |-> 0, lastpos |-> 0]

IsEmpty(b) == b.currentpos = b.lastpos

\* The index a position is read or written at.
Index(p) == IF p = BufferSize THEN 0 ELSE p

Add(b, value) ==
    [buf |-> [b.buf EXCEPT ![Index(b.lastpos)] = value],
     currentpos |-> Index(b.lastpos) + 1,
     lastpos |-> Index(b.lastpos) + 1]

\* next() of a buffer that is not empty: the element and the buffer after it.
NextElement(b) == b.buf[Index(b.currentpos)]

AfterNext(b) == [b EXCEPT !.currentpos = Index(@) + 1]

DiffPrevPos(b, prevpos) ==
    IF prevpos <= b.currentpos THEN b.currentpos - prevpos
                               ELSE b.currentpos + BufferSize - prevpos

\* Mistaken variant: one position too many when it goes round the end.
BackOffByOne(b, posback) ==
    [b EXCEPT !.currentpos = IF @ > posback THEN @ - posback
                                            ELSE BufferSize - 1 - (posback - @)]

Back(b, posback) ==
    [b EXCEPT !.currentpos = IF @ > posback THEN @ - posback
                                            ELSE BufferSize - (posback - @)]

\* What will be read before anything is added.
Unread(b) ==
    [k \in 1 .. (b.lastpos - b.currentpos) % BufferSize |->
       b.buf[(b.currentpos + k - 1) % BufferSize]]
=============================================================================
