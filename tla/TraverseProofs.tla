---------------------------- MODULE TraverseProofs ----------------------------
(* Proofs about module Traverse, for every set of syntax trees and without the
   bounds of the model-checked instances.  For all programs: the types, and that
   after an error the handlers of a line only end.  For the programs of a Grammar that
   run without errors: handlers pop what they pushed, a jump is obeyed by
   everything between it and the handler it is for, and no counter outlives its
   line. *)
EXTENDS Traverse, SequenceTheorems, TLAPS

-----------------------------------------------------------------------------
(* What is true of every program: the handler of a return is entered without an
   error, and statements are counted from one. *)
Entered(fs, e) ==
  \A k \in DOMAIN fs : /\ fs[k].i # 0
                       /\ fs[k].phase = "raise" => k = Len(fs) /\ ~e

(* Sequences.  What Front leaves of a non-empty sequence. *)
LEMMA FrontProperties ==
  ASSUME NEW S, NEW s \in Seq(S), s # <<>>
  PROVE  /\ Front(s) \in Seq(S)
         /\ Len(s) \in Nat \ {0}
         /\ Len(s) \in 1..Len(s) /\ Last(s) = s[Len(s)]
         /\ Last(s) \in S
         /\ Len(Front(s)) = Len(s) - 1
         /\ DOMAIN s = 1..Len(s)
         /\ DOMAIN Front(s) = 1..(Len(s) - 1)
         /\ \A i \in 1..(Len(s) - 1) : Front(s)[i] = s[i]
         /\ Front(s) = <<>> <=> Len(s) = 1
<1>1. Len(s) \in Nat \ {0} /\ DOMAIN s = 1..Len(s) /\ \A i \in 1..Len(s) : s[i] \in S
  BY EmptySeq, LenProperties, ElementOfSeq
<1>2. /\ Front(s) \in Seq(S)
      /\ Len(Front(s)) = Len(s) - 1
      /\ \A i \in 1..(Len(s) - 1) : Front(s)[i] = s[i]
  BY <1>1, SubSeqProperties DEF Front
<1>3. DOMAIN Front(s) = 1..(Len(s) - 1)
  BY <1>2, LenProperties
<1>4. Front(s) = <<>> <=> Len(Front(s)) = 0
  BY <1>2, EmptySeq
<1>5. Len(s) \in 1..Len(s) /\ Last(s) = s[Len(s)]
  BY <1>1 DEF Last
<1> QED BY <1>1, <1>2, <1>3, <1>4, <1>5

(* The last element replaced (Continue). *)
Put(s, d) == [s EXCEPT ![Len(s)] = d]

LEMMA PutProperties ==
  ASSUME NEW S, NEW s \in Seq(S), s # <<>>, NEW d \in S
  PROVE  /\ Put(s, d) \in Seq(S)
         /\ Len(Put(s, d)) = Len(s) /\ DOMAIN Put(s, d) = 1..Len(s)
         /\ Put(s, d) # <<>> /\ Last(Put(s, d)) = d
         /\ Put(s, d)[Len(s)] = d
         /\ \A i \in 1..(Len(s) - 1) : Put(s, d)[i] = s[i]
<1>1. Len(s) \in Nat \ {0} /\ Len(s) \in 1..Len(s) /\ DOMAIN s = 1..Len(s)
  BY FrontProperties
<1>2. Put(s, d) \in Seq(S) /\ Len(Put(s, d)) = Len(s)
  BY <1>1, ExceptSeq DEF Put
<1>3. Put(s, d)[Len(s)] = d /\ \A i \in 1..(Len(s) - 1) : Put(s, d)[i] = s[i]
  <2>1. \A i \in 1..Len(s) : Put(s, d)[i] = IF i = Len(s) THEN d ELSE s[i]
    BY <1>1, ExceptSeq DEF Put
  <2>2. \A n \in Nat : \A i \in 1..(n - 1) : i \in 1..n /\ i # n
    OBVIOUS
  <2> QED BY <1>1, <2>1, <2>2
<1>4. Put(s, d) # <<>>
  BY <1>1, <1>2, EmptySeq
<1>5. DOMAIN Put(s, d) = 1..Len(s)
  BY <1>1 DEF Put
<1> QED BY <1>2, <1>3, <1>4, <1>5 DEF Last

(* One element more. *)
LEMMA AddProperties ==
  ASSUME NEW S, NEW s \in Seq(S), NEW d \in S
  PROVE  /\ Append(s, d) \in Seq(S)
         /\ Append(s, d) # <<>> /\ Last(Append(s, d)) = d
         /\ Len(s) \in Nat
         /\ Len(Append(s, d)) = Len(s) + 1
         /\ DOMAIN s = 1..Len(s)
         /\ DOMAIN Append(s, d) = 1..(Len(s) + 1)
         /\ \A i \in 1..Len(s) : Append(s, d)[i] = s[i]
         /\ Append(s, d)[Len(s) + 1] = d
<1>1. Append(s, d) \in Seq(S) /\ Len(Append(s, d)) = Len(s) + 1
  BY AppendProperties
<1>2. DOMAIN Append(s, d) = 1..(Len(s) + 1)
  BY <1>1, LenProperties
<1>3. Append(s, d)[Len(s) + 1] = d
  BY AppendProperties
<1> QED BY <1>1, <1>2, <1>3, AppendProperties, LenProperties DEF Last

-----------------------------------------------------------------------------
(* Handlers.  The ways in which a handler goes on. *)
NextOf(fr) == [fr EXCEPT !.i = @ + 1]
BeginNext(fr) == [fr EXCEPT !.phase = "flags", !.i = @ + 1]
Restart(fr, p) == [fr EXCEPT !.i = 1, !.phase = p]
NextArgument(fr) == [fr EXCEPT !.phase = "args", !.i = @ + 1]
NextElement(fr) == [fr EXCEPT !.phase = "elems", !.i = @ + 1]
Caused(fr, c) == [fr EXCEPT !.cause = c]

(* A frame that goes on is a frame of the same node with the same cause. *)
Same(fr, old) == fr \in Frame /\ fr.node = old.node /\ fr.cause = old.cause

LEMMA Updates ==
  ASSUME NEW fr \in Frame
  PROVE  /\ fr.node \in Node /\ fr.phase \in Phases /\ fr.i \in Nat
         /\ fr.base \in 0..MaxList
         /\ Same(NextOf(fr), fr) /\ NextOf(fr).i = fr.i + 1
         /\ NextOf(fr).phase = fr.phase /\ NextOf(fr).base = fr.base
         /\ Same(BeginNext(fr), fr) /\ BeginNext(fr).i = fr.i + 1
         /\ BeginNext(fr).phase = "flags" /\ BeginNext(fr).base = fr.base
         /\ Same(NextArgument(fr), fr) /\ NextArgument(fr).i = fr.i + 1
         /\ NextArgument(fr).phase = "args" /\ NextArgument(fr).base = fr.base
         /\ Same(NextElement(fr), fr) /\ NextElement(fr).i = fr.i + 1
         /\ NextElement(fr).phase = "elems" /\ NextElement(fr).base = fr.base
         /\ \A p \in Phases :
              /\ Same(Restart(fr, p), fr) /\ Restart(fr, p).i = 1
              /\ Restart(fr, p).phase = p /\ Restart(fr, p).base = fr.base
         /\ \A c \in {"break", "return"} :
              /\ Caused(fr, c) \in Frame /\ Caused(fr, c).cause = c
              /\ Caused(fr, c).node = fr.node /\ Caused(fr, c).phase = fr.phase
              /\ Caused(fr, c).i = fr.i /\ Caused(fr, c).base = fr.base
<1>1. fr.node \in Node /\ fr.phase \in Phases /\ fr.i \in Nat /\ fr.base \in 0..MaxList
  BY DEF Frame
<1>2. /\ Same(NextOf(fr), fr) /\ NextOf(fr).i = fr.i + 1
      /\ NextOf(fr).phase = fr.phase /\ NextOf(fr).base = fr.base
  <2>1. fr.i + 1 \in Nat
    BY <1>1
  <2> QED BY <2>1 DEF Frame, NextOf, Same
<1>3. /\ Same(BeginNext(fr), fr) /\ BeginNext(fr).i = fr.i + 1
      /\ BeginNext(fr).phase = "flags" /\ BeginNext(fr).base = fr.base
  <2>1. fr.i + 1 \in Nat /\ "flags" \in Phases
    BY <1>1 DEF Phases
  <2> QED BY <2>1 DEF Frame, BeginNext, Same
<1>4. /\ Same(NextArgument(fr), fr) /\ NextArgument(fr).i = fr.i + 1
      /\ NextArgument(fr).phase = "args" /\ NextArgument(fr).base = fr.base
  <2>1. fr.i + 1 \in Nat /\ "args" \in Phases
    BY <1>1 DEF Phases
  <2> QED BY <2>1 DEF Frame, NextArgument, Same
<1>7. /\ Same(NextElement(fr), fr) /\ NextElement(fr).i = fr.i + 1
      /\ NextElement(fr).phase = "elems" /\ NextElement(fr).base = fr.base
  <2>1. fr.i + 1 \in Nat /\ "elems" \in Phases
    BY <1>1 DEF Phases
  <2> QED BY <2>1 DEF Frame, NextElement, Same
<1>5. ASSUME NEW p \in Phases
      PROVE  /\ Same(Restart(fr, p), fr) /\ Restart(fr, p).i = 1
             /\ Restart(fr, p).phase = p /\ Restart(fr, p).base = fr.base
  BY <1>5 DEF Frame, Restart, Same
<1>6. ASSUME NEW c \in {"break", "return"}
      PROVE  /\ Caused(fr, c) \in Frame /\ Caused(fr, c).cause = c
             /\ Caused(fr, c).node = fr.node /\ Caused(fr, c).phase = fr.phase
             /\ Caused(fr, c).i = fr.i /\ Caused(fr, c).base = fr.base
  BY <1>6 DEF Frame, Caused
<1> QED BY <1>1, <1>2, <1>3, <1>4, <1>5, <1>6, <1>7

(* The innermost handler. *)
LEMMA TopFrame ==
  ASSUME TypeOK, frames # <<>>
  PROVE  /\ frames \in Seq(Frame) /\ Fr \in Frame /\ Fr = frames[Len(frames)]
         /\ Len(frames) \in 1..Len(frames) /\ Len(frames) \in Nat \ {0}
         /\ DOMAIN frames = 1..Len(frames)
         /\ Kind[Fr.node] \in Kinds
         /\ \A p \in Phases :
              /\ Same(To(p), Fr) /\ To(p).phase = p /\ To(p).i = Fr.i /\ To(p).base = Fr.base
              /\ Same(Begin(p), Fr) /\ Begin(p).phase = p /\ Begin(p).i = Fr.i
              /\ Begin(p).base = Len(list)
<1>1. frames \in Seq(Frame) /\ list \in Seq(Values) /\ Len(list) <= MaxList
  BY DEF TypeOK
<1>2. /\ Fr \in Frame /\ Fr = frames[Len(frames)]
      /\ Len(frames) \in 1..Len(frames) /\ Len(frames) \in Nat \ {0}
      /\ DOMAIN frames = 1..Len(frames)
  BY <1>1, FrontProperties DEF Fr
<1>3. Kind[Fr.node] \in Kinds
  BY <1>2, Updates, TraverseAssumption
<1>4. Len(list) \in 0..MaxList
  BY <1>1, LenProperties, TraverseAssumption
<1>5. ASSUME NEW p \in Phases
      PROVE  Same(To(p), Fr) /\ To(p).phase = p /\ To(p).i = Fr.i /\ To(p).base = Fr.base
  BY <1>2, <1>5 DEF Frame, To, Same
<1>6. ASSUME NEW p \in Phases
      PROVE  /\ Same(Begin(p), Fr) /\ Begin(p).phase = p /\ Begin(p).i = Fr.i
             /\ Begin(p).base = Len(list)
  BY <1>2, <1>4, <1>6 DEF Frame, Begin, Same
<1> QED BY <1>1, <1>2, <1>3, <1>5, <1>6

(* The handler of a node that is no leaf. *)
LEMMA NewFrameIs ==
  ASSUME TypeOK, NEW n \in Node, Kind[n] \notin Leaves
  PROVE  /\ NewFrame(n) \in Frame /\ NewFrame(n).node = n /\ NewFrame(n).i = 1
         /\ NewFrame(n).base = Len(list) /\ NewFrame(n).cause = "none"
         /\ NewFrame(n).phase = First[Kind[n]]
         /\ Kind[n] \in Kinds \ Leaves
<1>1. Len(list) \in 0..MaxList
  BY LenProperties, TraverseAssumption DEF TypeOK
<1>2. Kind[n] \in Kinds \ Leaves
  BY TraverseAssumption
<1>3. First[Kind[n]] \in Phases
  BY <1>2 DEF First, Kinds, Leaves, Computing, Phases
<1> QED BY <1>1, <1>2, <1>3 DEF NewFrame, Frame

(* Marking the frames a jump ends changes nothing else. *)
LEMMA MarkIs ==
  ASSUME NEW fs \in Seq(Frame), NEW c \in {"break", "return"}
  PROVE  /\ Mark(fs, c) \in Seq(Frame)
         /\ Len(Mark(fs, c)) = Len(fs) /\ Len(fs) \in Nat
         /\ DOMAIN fs = 1..Len(fs) /\ DOMAIN Mark(fs, c) = 1..Len(fs)
         /\ Mark(fs, c) = <<>> <=> fs = <<>>
         /\ \A k \in 1..Len(fs) :
              /\ fs[k] \in Frame
              /\ Mark(fs, c)[k].node = fs[k].node /\ Mark(fs, c)[k].phase = fs[k].phase
              /\ Mark(fs, c)[k].i = fs[k].i /\ Mark(fs, c)[k].base = fs[k].base
              /\ Mark(fs, c)[k].cause = IF k \in Ended(fs, c) THEN c ELSE fs[k].cause
<1>1. /\ Len(fs) \in Nat /\ DOMAIN fs = 1..Len(fs)
      /\ \A k \in 1..Len(fs) : fs[k] \in Frame
  BY LenProperties, ElementOfSeq
<1>2. Mark(fs, c) = [k \in 1..Len(fs) |-> IF k \in Ended(fs, c) THEN Caused(fs[k], c) ELSE fs[k]]
  BY <1>1 DEF Mark, Caused
<1>3. \A k \in 1..Len(fs) :
        /\ Caused(fs[k], c) \in Frame /\ Caused(fs[k], c).cause = c
        /\ Caused(fs[k], c).node = fs[k].node /\ Caused(fs[k], c).phase = fs[k].phase
        /\ Caused(fs[k], c).i = fs[k].i /\ Caused(fs[k], c).base = fs[k].base
  BY <1>1, Updates
<1>4. Mark(fs, c) \in [1..Len(fs) -> Frame]
  BY <1>1, <1>2, <1>3
<1>5. Mark(fs, c) \in Seq(Frame) /\ Len(Mark(fs, c)) = Len(fs)
  <2>1. Mark(fs, c) \in Seq(Frame)
    BY <1>1, <1>4, SeqDef
  <2>2. DOMAIN Mark(fs, c) = 1..Len(fs)
    BY <1>2
  <2> QED BY <1>1, <2>1, <2>2, LenProperties
<1>6. Mark(fs, c) = <<>> <=> fs = <<>>
  BY <1>5, EmptySeq
<1> QED BY <1>1, <1>2, <1>3, <1>5, <1>6

-----------------------------------------------------------------------------
(* All programs: types, and after an error handlers only end. *)
Typed(e) == TypeOK /\ Entered(frames, e)

Quiet ==
  errors /\ frames # <<>> =>
    /\ helper' = helper
    /\ Len(frames') <= Len(frames)
    /\ Len(list') + Len(frames') <= Len(list) + Len(frames)

Stops == TypeOK' /\ Entered(frames, errors)' /\ Quiet

(* The stack of frames after a step. *)
FramesFine(e) ==
  /\ frames' \in Seq(Frame) /\ Entered(frames', e)
  /\ errors /\ frames # <<>> => Len(frames') <= Len(frames)

(* The handler that goes on is not the one of a return that is just entered. *)
Settled(fr) == fr \in Frame /\ fr.phase # "raise" /\ fr.i # 0

LEMMA PutFine ==
  ASSUME NEW e, NEW e1, Typed(e), frames # <<>>, NEW fr, Settled(fr), Continue(fr)
  PROVE  FramesFine(e1)
<1>1. /\ frames \in Seq(Frame) /\ DOMAIN frames = 1..Len(frames)
      /\ Len(frames) \in Nat \ {0}
  BY TopFrame DEF Typed
<1>2. /\ frames' \in Seq(Frame) /\ DOMAIN frames' = 1..Len(frames)
      /\ Len(frames') = Len(frames) /\ frames'[Len(frames)] = fr
      /\ \A i \in 1..(Len(frames) - 1) : frames'[i] = frames[i]
  <2>1. fr \in Frame /\ frames \in Seq(Frame)
    BY <1>1 DEF Settled
  <2>2. /\ Put(frames, fr) \in Seq(Frame) /\ DOMAIN Put(frames, fr) = 1..Len(frames)
        /\ Len(Put(frames, fr)) = Len(frames)
        /\ Put(frames, fr)[Len(frames)] = fr
        /\ \A i \in 1..(Len(frames) - 1) : Put(frames, fr)[i] = frames[i]
    BY <2>1, PutProperties
  <2> QED BY <2>2 DEF Continue, Put
<1>3. \A i \in 1..(Len(frames) - 1) : frames[i].i # 0 /\ frames[i].phase # "raise"
  <2>1. \A n \in Nat : \A i \in 1..(n - 1) : i \in 1..n /\ i # n
    OBVIOUS
  <2> QED BY <1>1, <2>1 DEF Typed, Entered
<1>4. \A n \in Nat \ {0} : \A i \in 1..n : i = n \/ i \in 1..(n - 1)
  OBVIOUS
<1>5. \A i \in DOMAIN frames' : frames'[i].i # 0 /\ frames'[i].phase # "raise"
  BY <1>1, <1>2, <1>3, <1>4 DEF Settled
<1> QED BY <1>1, <1>2, <1>5 DEF FramesFine, Entered

LEMMA FrontFine ==
  ASSUME NEW e, NEW e1, Typed(e), frames # <<>>, frames' = Front(frames)
  PROVE  FramesFine(e1)
<1>1. /\ frames \in Seq(Frame) /\ DOMAIN frames = 1..Len(frames)
      /\ Len(frames) \in Nat \ {0}
  BY TopFrame DEF Typed
<1>2. /\ frames' \in Seq(Frame) /\ DOMAIN frames' = 1..(Len(frames) - 1)
      /\ Len(frames') = Len(frames) - 1
      /\ \A i \in 1..(Len(frames) - 1) : frames'[i] = frames[i]
  BY <1>1, FrontProperties
<1>3. \A i \in 1..(Len(frames) - 1) : frames[i].i # 0 /\ frames[i].phase # "raise"
  <2>1. \A n \in Nat : \A i \in 1..(n - 1) : i \in 1..n /\ i # n
    OBVIOUS
  <2> QED BY <1>1, <2>1 DEF Typed, Entered
<1> QED BY <1>1, <1>2, <1>3 DEF FramesFine, Entered

LEMMA MarkFine ==
  ASSUME NEW e, NEW fs \in Seq(Frame), Entered(fs, e), NEW c \in {"break", "return"},
         Len(fs) <= Len(frames), frames' = Mark(fs, c)
  PROVE  FramesFine(e)
<1>1. /\ frames' \in Seq(Frame) /\ Len(frames') = Len(fs)
      /\ DOMAIN fs = 1..Len(fs) /\ DOMAIN frames' = 1..Len(fs)
      /\ \A k \in 1..Len(fs) : frames'[k].phase = fs[k].phase /\ frames'[k].i = fs[k].i
  BY MarkIs
<1> QED BY <1>1 DEF FramesFine, Entered

(* The other variables. *)
LEMMA QuietIf ==
  ASSUME TypeOK, FramesFine(errors'), errors => helper' = helper, list' \in Seq(Values),
         Len(list') <= Len(list)
  PROVE  Quiet
<1>1. /\ Len(list) \in Nat /\ Len(list') \in Nat
      /\ Len(frames) \in Nat /\ Len(frames') \in Nat
  BY LenProperties DEF TypeOK, FramesFine
<1> QED BY <1>1 DEF Quiet, FramesFine

LEMMA KeepStops ==
  ASSUME TypeOK, UNCHANGED <<list, helper>>, errors' \in BOOLEAN, crashed' \in BOOLEAN,
         FramesFine(errors')
  PROVE  Stops
<1>1. TypeOK'
  BY DEF TypeOK, FramesFine
<1>2. Quiet
  <2>1. Len(list) \in Nat /\ list' \in Seq(Values)
    BY LenProperties DEF TypeOK
  <2> QED BY <2>1, QuietIf
<1> QED BY <1>1, <1>2 DEF Stops, FramesFine

LEMMA ListStops ==
  ASSUME TypeOK, UNCHANGED helper, errors' \in BOOLEAN, crashed' \in BOOLEAN,
         list' \in Seq(Values), Len(list') <= Len(list), FramesFine(errors')
  PROVE  Stops
<1>1. Len(list') \in Nat /\ Len(list) \in Nat /\ Len(list) <= MaxList /\ MaxList \in Nat
  BY LenProperties, TraverseAssumption DEF TypeOK
<1>2. Len(list') <= MaxList
  BY <1>1
<1>3. TypeOK'
  BY <1>2 DEF TypeOK, FramesFine
<1> QED BY <1>3, QuietIf DEF Stops, FramesFine

LEMMA RaiseTypes ==
  ASSUME TypeOK, NEW f \in Flags, Raise(f)
  PROVE  helper' \in [Flags -> 0..MaxFlag]
<1>1. helper[f] + 1 \in 0..MaxFlag
  BY TraverseAssumption DEF TypeOK, Raise
<1> QED BY <1>1 DEF TypeOK, Raise

(* traversal() of one node. *)
LEMMA VisitStops ==
  ASSUME Typed(errors), frames # <<>>, NEW n \in Node \cup {NULL}, NEW fr, Settled(fr),
         Visit(n, fr)
  PROVE  Stops
<1>1. TypeOK /\ errors \in BOOLEAN /\ crashed \in BOOLEAN /\ frames \in Seq(Frame)
  BY DEF Typed, TypeOK
<1> DEFINE put == Put(frames, fr)
<1>2. /\ put \in Seq(Frame) /\ Len(put) = Len(frames) /\ DOMAIN put = 1..Len(frames)
      /\ put # <<>> /\ put[Len(frames)] = fr /\ Len(frames) \in Nat \ {0}
      /\ \A i \in 1..(Len(frames) - 1) : put[i] = frames[i]
  BY <1>1, PutProperties, TopFrame DEF Settled
<1>3. Continue(fr) <=> frames' = put
  BY DEF Continue, Put
<1>4. [frames EXCEPT ![Len(frames)] = fr] = put
  BY DEF Put
<1>5. \A k \in DOMAIN put : put[k].i # 0 /\ put[k].phase # "raise"
  <2>1. \A m \in Nat : \A i \in 1..m : i = m \/ i \in 1..(m - 1)
    OBVIOUS
  <2>2. \A m \in Nat : \A i \in 1..(m - 1) : i \in 1..m /\ i # m
    OBVIOUS
  <2>3. \A i \in 1..(Len(frames) - 1) : frames[i].i # 0 /\ frames[i].phase # "raise"
    BY <1>1, <1>2, <2>2, LenProperties DEF Typed, Entered
  <2> QED BY <1>2, <2>1, <2>3 DEF Settled
<1> HIDE DEF put
<1>6. ASSUME frames' = put PROVE FramesFine(errors')
  BY <1>2, <1>5, <1>6 DEF FramesFine, Entered
<1>7. CASE errors
  BY <1>1, <1>3, <1>6, <1>7, KeepStops DEF Visit
<1>8. CASE ~errors /\ n = NULL
  <2>1. frames' = frames /\ UNCHANGED <<list, helper, errors>> /\ crashed' = TRUE
    BY <1>8 DEF Visit, Crash
  <2>2. FramesFine(errors')
    BY <1>1, <1>2, <2>1 DEF FramesFine, Typed
  <2> QED BY <1>1, <2>1, <2>2, KeepStops
<1>9. CASE ~errors /\ n # NULL /\ Kind[n] \notin Leaves
  <2>1. /\ frames' = Append(put, NewFrame(n)) /\ UNCHANGED <<list, helper, errors, crashed>>
        /\ n \in Node
    BY <1>4, <1>9 DEF Visit
  <2>2. NewFrame(n) \in Frame /\ NewFrame(n).i # 0
    BY <1>1, <1>9, <2>1, NewFrameIs
  <2>3. /\ frames' \in Seq(Frame) /\ DOMAIN frames' = 1..(Len(put) + 1)
        /\ Len(frames') = Len(put) + 1 /\ DOMAIN put = 1..Len(put)
        /\ \A i \in 1..Len(put) : frames'[i] = put[i]
        /\ frames'[Len(put) + 1] = NewFrame(n)
    BY <1>2, <2>1, <2>2, AddProperties
  <2>4. \A m \in Nat : \A i \in 1..(m + 1) : i = m + 1 \/ i \in 1..m
    OBVIOUS
  <2>5. FramesFine(errors')
    BY <1>2, <1>5, <1>9, <2>1, <2>2, <2>3, <2>4 DEF FramesFine, Entered
  <2> QED BY <1>1, <2>1, <2>5, KeepStops
<1>10. CASE ~errors /\ n # NULL /\ Kind[n] \in Leaves
  <2>1. Leaf(n, fr) /\ crashed' = crashed
    BY <1>10 DEF Visit
  <2>2. CASE UNCHANGED <<list, helper>> /\ Continue(fr) /\ errors' \in BOOLEAN
    BY <1>1, <1>3, <1>6, <2>1, <2>2, KeepStops
  <2>3. CASE Kind[n] \in {"const", "id"} /\ (\E v \in Values : Push(v)) /\ Continue(fr)
             /\ UNCHANGED <<helper, errors>>
    <3>1. PICK v \in Values : Len(list) < MaxList /\ list' = Append(list, v)
      BY <2>3 DEF Push
    <3>2. list \in Seq(Values)
      BY <1>1 DEF TypeOK
    <3>3. list' \in Seq(Values) /\ Len(list') = Len(list) + 1 /\ Len(list) \in Nat
      BY <3>1, <3>2, AddProperties
    <3>4. Len(list') <= MaxList
      BY <3>1, <3>3, TraverseAssumption
    <3>5. FramesFine(errors')
      BY <1>3, <1>6, <2>3
    <3>6. TypeOK'
      BY <1>1, <2>1, <2>3, <3>3, <3>4, <3>5 DEF TypeOK, FramesFine
    <3> QED BY <1>10, <3>5, <3>6 DEF Stops, Quiet, FramesFine
  <2>4. ASSUME NEW f \in Flags, Raise(f), FramesFine(errors'), UNCHANGED <<list, errors>>
        PROVE  Stops
    <3>1. TypeOK'
      BY <1>1, <2>1, <2>4, RaiseTypes DEF TypeOK, FramesFine
    <3> QED BY <1>10, <2>4, <3>1 DEF Stops, Quiet, FramesFine
  <2>5. CASE Raise("is_break") /\ UNCHANGED <<list, errors>> /\ frames' = Mark(put, "break")
    <3>1. Entered(put, errors)
      BY <1>5 DEF Entered
    <3>2. FramesFine(errors')
      BY <1>2, <2>5, <3>1, MarkFine
    <3> QED BY <2>4, <2>5, <3>2 DEF Flags
  <2>6. CASE Raise("is_continue") /\ UNCHANGED <<list, errors>> /\ Continue(fr)
    <3>1. FramesFine(errors')
      BY <1>3, <1>6, <2>6
    <3> QED BY <2>4, <2>6, <3>1 DEF Flags
  <2> QED BY <1>1, <1>4, <2>1, <2>2, <2>3, <2>5, <2>6 DEF Leaf
<1> QED BY <1>7, <1>8, <1>9, <1>10

(* The expressions of a node. *)
LEMMA KidsAre ==
  ASSUME NEW n \in Node
  PROVE  /\ Kind[n] \in {"op", "assign", "if", "while", "for", "return"} =>
              Kids[n][1] \in Node \cup {NULL}
         /\ Kind[n] \in {"op", "for"} => Kids[n][2] \in Node \cup {NULL}
         /\ Kind[n] = "for" => Kids[n][3] \in Node \cup {NULL}
         /\ \A i \in Nat \ {0} : i <= Len(Kids[n]) => Kids[n][i] \in Node \cup {NULL}
         /\ Len(Kids[n]) \in Nat /\ (Kids[n] = <<>> <=> Len(Kids[n]) = 0)
         /\ DOMAIN Kids[n] = 1..Len(Kids[n])
         /\ Kind[n] \in DOMAIN Fixed => Len(Kids[n]) = Fixed[Kind[n]]
         /\ Body[n] \in Seq(Node) /\ Len(Body[n]) \in Nat /\ DOMAIN Body[n] = 1..Len(Body[n])
         /\ \A i \in Nat \ {0} : i <= Len(Body[n]) => Body[n][i] \in Node
         /\ Else[n] \in Seq(Node) /\ Len(Else[n]) \in Nat /\ DOMAIN Else[n] = 1..Len(Else[n])
         /\ \A i \in Nat \ {0} : i <= Len(Else[n]) => Else[n][i] \in Node
<1>1. /\ Kids[n] \in Seq(Node \cup {NULL}) /\ Body[n] \in Seq(Node) /\ Else[n] \in Seq(Node)
      /\ Kind[n] \in DOMAIN Fixed => Len(Kids[n]) = Fixed[Kind[n]]
  BY TraverseAssumption
<1>2. \A S : \A s \in Seq(S) : /\ Len(s) \in Nat /\ DOMAIN s = 1..Len(s)
                               /\ s = <<>> <=> Len(s) = 0
                               /\ \A i \in Nat \ {0} : i <= Len(s) => s[i] \in S
  <2> SUFFICES ASSUME NEW S, NEW s \in Seq(S)
               PROVE  /\ Len(s) \in Nat /\ DOMAIN s = 1..Len(s)
                      /\ s = <<>> <=> Len(s) = 0
                      /\ \A i \in Nat \ {0} : i <= Len(s) => s[i] \in S
    OBVIOUS
  <2>1. Len(s) \in Nat /\ DOMAIN s = 1..Len(s)
    BY LenProperties
  <2>2. \A i \in 1..Len(s) : s[i] \in S
    BY ElementOfSeq
  <2>3. s = <<>> <=> Len(s) = 0
    BY EmptySeq
  <2> QED BY <2>1, <2>2, <2>3
<1>3. /\ Kind[n] \in {"op", "assign", "if", "while", "for", "return"} => 1 <= Len(Kids[n])
      /\ Kind[n] \in {"op", "for"} => 2 <= Len(Kids[n])
      /\ Kind[n] = "for" => 3 <= Len(Kids[n])
  BY <1>1 DEF Fixed
<1>4. \A i \in Nat \ {0} : i <= Len(Kids[n]) => Kids[n][i] \in Node \cup {NULL}
  BY <1>1, <1>2
<1>5. /\ Len(Kids[n]) \in Nat /\ (Kids[n] = <<>> <=> Len(Kids[n]) = 0)
      /\ DOMAIN Kids[n] = 1..Len(Kids[n])
      /\ Len(Body[n]) \in Nat /\ DOMAIN Body[n] = 1..Len(Body[n])
      /\ Len(Else[n]) \in Nat /\ DOMAIN Else[n] = 1..Len(Else[n])
  BY <1>1, <1>2
<1>6. /\ \A i \in Nat \ {0} : i <= Len(Body[n]) => Body[n][i] \in Node
      /\ \A i \in Nat \ {0} : i <= Len(Else[n]) => Else[n][i] \in Node
  BY <1>1, <1>2
<1>7. /\ Kind[n] \in {"op", "assign", "if", "while", "for", "return"} =>
           Kids[n][1] \in Node \cup {NULL}
      /\ Kind[n] \in {"op", "for"} => Kids[n][2] \in Node \cup {NULL}
      /\ Kind[n] = "for" => Kids[n][3] \in Node \cup {NULL}
  BY <1>3, <1>4
<1> QED BY <1>1, <1>4, <1>5, <1>6, <1>7

(* How the evaluation stack shrinks. *)
LEMMA ListFacts ==
  ASSUME TypeOK
  PROVE  /\ list \in Seq(Values) /\ Len(list) \in Nat /\ Len(list) <= MaxList
         /\ list = <<>> <=> Len(list) = 0
         /\ <<>> \in Seq(Values) /\ Len(<<>>) = 0
         /\ list # <<>> => /\ Front(list) \in Seq(Values)
                           /\ Len(Front(list)) = Len(list) - 1
                           /\ Last(list) \in Values
         /\ Len(list) >= 2 => /\ Front(Front(list)) \in Seq(Values)
                              /\ Len(Front(Front(list))) = Len(list) - 2
                              /\ \A v \in Values :
                                   /\ Append(Front(Front(list)), v) \in Seq(Values)
                                   /\ Len(Append(Front(Front(list)), v)) = Len(list) - 1
<1>1. /\ list \in Seq(Values) /\ Len(list) \in Nat /\ Len(list) <= MaxList
      /\ list = <<>> <=> Len(list) = 0
      /\ <<>> \in Seq(Values) /\ Len(<<>>) = 0
  BY LenProperties, EmptySeq DEF TypeOK
<1>2. list # <<>> => /\ Front(list) \in Seq(Values)
                     /\ Len(Front(list)) = Len(list) - 1
                     /\ Last(list) \in Values
  BY <1>1, FrontProperties
<1>3. ASSUME Len(list) >= 2
      PROVE  /\ Front(Front(list)) \in Seq(Values)
             /\ Len(Front(Front(list))) = Len(list) - 2
             /\ \A v \in Values :
                  /\ Append(Front(Front(list)), v) \in Seq(Values)
                  /\ Len(Append(Front(Front(list)), v)) = Len(list) - 1
  <2>1. Front(list) \in Seq(Values) /\ Len(Front(list)) = Len(list) - 1 /\ Len(Front(list)) # 0
    BY <1>1, <1>2, <1>3
  <2>2. Front(list) # <<>>
    BY <2>1, EmptySeq
  <2>3. Front(Front(list)) \in Seq(Values) /\ Len(Front(Front(list))) = Len(Front(list)) - 1
    BY <2>1, <2>2, FrontProperties
  <2>4. Len(Front(Front(list))) = Len(list) - 2
    BY <1>1, <2>1, <2>3
  <2>5. \A v \in Values : /\ Append(Front(Front(list)), v) \in Seq(Values)
                          /\ Len(Append(Front(Front(list)), v)) = Len(Front(Front(list))) + 1
    BY <2>3, AddProperties
  <2> QED BY <1>1, <2>3, <2>4, <2>5
<1> QED BY <1>1, <1>2, <1>3

(* The counters after a statement of a body. *)
LEMMA TakeFlagTypes ==
  ASSUME TypeOK, TakeFlag(Consumed)
  PROVE  helper' \in [Flags -> 0..MaxFlag] /\ (errors => helper' = helper)
<1>1. CASE Consumed \in {"RES_OK", "RES_ERROR"}
  BY <1>1 DEF TypeOK, TakeFlag
<1>2. CASE Consumed \notin {"RES_OK", "RES_ERROR"}
  <2>1. ~errors /\ FlagOf(Consumed) \in Flags /\ helper[FlagOf(Consumed)] > 0
    BY <1>2 DEF Consumed, FlagOf, Flags
  <2>2. helper[FlagOf(Consumed)] - 1 \in 0..MaxFlag
    BY <2>1, TraverseAssumption DEF TypeOK
  <2>3. helper' = [helper EXCEPT ![FlagOf(Consumed)] = @ - 1]
    BY <1>2 DEF TakeFlag
  <2> QED BY <2>1, <2>2, <2>3 DEF TypeOK
<1> QED BY <1>1, <1>2

(* The handlers that only visit an expression or a statement. *)
LEMMA LineStops == ASSUME Typed(errors), RunLine PROVE Stops
<1>1. frames # <<>> /\ TypeOK /\ "print" \in Phases
  BY DEF RunLine, Busy, Typed, Phases
<1>2. Fr.node \in Node /\ Fr.i # 0
  BY <1>1, TopFrame, Updates DEF Typed, Entered
<1>3. Settled(To("print"))
  BY <1>1, <1>2, TopFrame DEF Settled, Same
<1> QED BY <1>1, <1>2, <1>3, VisitStops DEF RunLine

(* A visit of an expression. *)
LEMMA ToStops ==
  ASSUME Typed(errors), frames # <<>>, NEW p \in Phases \ {"raise"},
         NEW n \in Node \cup {NULL}, Visit(n, To(p)) \/ Visit(n, Begin(p))
  PROVE  Stops
<1>1. TypeOK /\ Fr.i # 0
  BY TopFrame DEF Typed, Entered
<1>2. Settled(To(p)) /\ Settled(Begin(p))
  BY <1>1, TopFrame DEF Settled, Same
<1>3. CASE Visit(n, To(p))
  BY <1>2, <1>3, VisitStops
<1>4. CASE Visit(n, Begin(p))
  BY <1>2, <1>4, VisitStops
<1> QED BY <1>3, <1>4

(* The end of a handler. *)
LEMMA DoneStops ==
  ASSUME Typed(errors), frames # <<>>, Done, UNCHANGED helper, errors' \in BOOLEAN,
         crashed' \in BOOLEAN, list' \in Seq(Values), Len(list') <= Len(list)
  PROVE  Stops
<1>1. TypeOK
  BY DEF Typed
<1>2. FramesFine(errors')
  BY FrontFine DEF Done
<1> QED BY <1>1, <1>2, ListStops

(* A handler that ends with a value. *)
LEMMA PushStops ==
  ASSUME Typed(errors), frames # <<>>, Done, UNCHANGED helper, errors' \in BOOLEAN,
         crashed' \in BOOLEAN, NEW v \in Values, Push(v)
  PROVE  Stops
<1>1. TypeOK /\ list \in Seq(Values) /\ Len(list) < MaxList /\ list' = Append(list, v)
  BY DEF Typed, TypeOK, Push
<1>2. FramesFine(errors')
  BY FrontFine DEF Done
<1>3. list' \in Seq(Values) /\ Len(list') = Len(list) + 1 /\ Len(list) \in Nat
  BY <1>1, AddProperties
<1>4. Len(list') <= MaxList
  BY <1>1, <1>3, TraverseAssumption
<1>5. TypeOK'
  BY <1>1, <1>2, <1>3, <1>4 DEF TypeOK, FramesFine
<1>6. Len(frames') = Len(frames) - 1 /\ Len(frames) \in Nat
  BY <1>1, TopFrame, FrontProperties DEF Done
<1>7. Quiet
  BY <1>3, <1>6 DEF Quiet
<1> QED BY <1>2, <1>5, <1>7 DEF Stops, FramesFine

(* A handler that goes on without visiting a node. *)
LEMMA ContinueStops ==
  ASSUME Typed(errors), frames # <<>>, NEW fr, Settled(fr), Continue(fr), UNCHANGED helper,
         errors' \in BOOLEAN, crashed' \in BOOLEAN,
         list' \in Seq(Values), Len(list') <= Len(list)
  PROVE  Stops
<1>1. TypeOK
  BY DEF Typed
<1>2. FramesFine(errors')
  BY PutFine
<1> QED BY <1>1, <1>2, ListStops

LEMMA CrashStops == ASSUME Typed(errors), Crash PROVE Stops
<1>1. /\ TypeOK /\ frames' = frames /\ crashed' = TRUE /\ UNCHANGED <<list, helper, errors>>
      /\ frames' \in Seq(Frame) /\ errors' \in BOOLEAN
  BY DEF Typed, TypeOK, Crash
<1>2. FramesFine(errors')
  <2>1. Len(frames) \in Nat
    BY <1>1, LenProperties
  <2> QED BY <1>1, <2>1 DEF Typed, FramesFine
<1> QED BY <1>1, <1>2, KeepStops

(* What the guards of the handlers say. *)
LEMMA Guard ==
  ASSUME Typed(errors), frames # <<>>
  PROVE  /\ TypeOK /\ errors \in BOOLEAN /\ crashed \in BOOLEAN
         /\ Fr \in Frame /\ Fr.node \in Node /\ Fr.i \in Nat \ {0} /\ Fr.phase \in Phases
         /\ list \in Seq(Values) /\ Len(list) \in Nat /\ Len(list) <= Len(list)
<1>1. TypeOK
  BY DEF Typed
<1>2. Fr \in Frame /\ Fr.i # 0
  BY <1>1, TopFrame DEF Typed, Entered
<1> QED BY <1>1, <1>2, Updates, ListFacts DEF TypeOK

LEMMA PrintStops == ASSUME Typed(errors), PrintResult PROVE Stops
<1>1. frames # <<>> /\ UNCHANGED <<helper, crashed>> /\ errors' = FALSE /\ Done
  BY DEF PrintResult, Busy
<1>2. TypeOK /\ crashed \in BOOLEAN
  BY <1>1, Guard
<1>3. list' \in Seq(Values) /\ Len(list') <= Len(list)
  BY <1>2, ListFacts DEF PrintResult
<1> QED BY <1>1, <1>2, <1>3, DoneStops

LEMMA OpStops == ASSUME Typed(errors), Op PROVE Stops
<1>1. frames # <<>> /\ Kind[Fr.node] = "op"
  BY DEF Op, Apply, In, Busy
<1>2. /\ Fr.node \in Node /\ TypeOK /\ errors \in BOOLEAN /\ crashed \in BOOLEAN
      /\ {"right", "apply"} \subseteq Phases
  BY <1>1, Guard DEF Phases
<1>3. Kids[Fr.node][1] \in Node \cup {NULL} /\ Kids[Fr.node][2] \in Node \cup {NULL}
  BY <1>1, <1>2, KidsAre
<1>4. CASE Apply
  <2>1. Done /\ UNCHANGED <<helper, errors, crashed>>
    BY <1>4 DEF Apply
  <2>2. list' \in Seq(Values) /\ Len(list') <= Len(list)
    BY <1>2, <1>4, ListFacts DEF Apply
  <2> QED BY <1>1, <1>2, <2>1, <2>2, DoneStops
<1>5. CASE Visit(Kids[Fr.node][1], To("right"))
  BY <1>1, <1>2, <1>3, <1>5, ToStops
<1>6. CASE Visit(Kids[Fr.node][2], To("apply"))
  BY <1>1, <1>2, <1>3, <1>6, ToStops
<1> QED BY <1>4, <1>5, <1>6 DEF Op

LEMMA AssignStops == ASSUME Typed(errors), Assign PROVE Stops
<1>1. frames # <<>> /\ Kind[Fr.node] = "assign"
  BY DEF Assign, Store, In, Busy
<1>2. Fr.node \in Node /\ TypeOK /\ errors \in BOOLEAN /\ crashed \in BOOLEAN /\ "store" \in Phases
  BY <1>1, Guard DEF Phases
<1>3. Kids[Fr.node][1] \in Node \cup {NULL}
  BY <1>1, <1>2, KidsAre
<1>4. CASE Store
  <2>1. Done /\ UNCHANGED <<helper, errors, crashed>>
    BY <1>4 DEF Store
  <2>2. list' \in Seq(Values) /\ Len(list') <= Len(list)
    BY <1>2, <1>4, ListFacts DEF Store
  <2> QED BY <1>1, <1>2, <2>1, <2>2, DoneStops
<1>5. CASE Visit(Kids[Fr.node][1], To("store"))
  BY <1>1, <1>2, <1>3, <1>5, ToStops
<1> QED BY <1>4, <1>5 DEF Assign

LEMMA BlockStops ==
  ASSUME Typed(errors), NEW p \in {"then", "else"}, NEW s \in Seq(Node), Block(p, s)
  PROVE  Stops
<1>1. frames # <<>> /\ Fr.phase = p
  BY DEF Block, In, Busy
<1>2. /\ TypeOK /\ errors \in BOOLEAN /\ crashed \in BOOLEAN /\ Fr \in Frame
      /\ Fr.i \in Nat \ {0} /\ list \in Seq(Values) /\ Len(list) <= Len(list)
  BY <1>1, Guard
<1>3. CASE Fr.i > Len(s)
  <2>1. Done /\ UNCHANGED <<list, helper, errors, crashed>>
    BY <1>3 DEF Block
  <2> QED BY <1>1, <1>2, <2>1, DoneStops
<1>4. CASE ~(Fr.i > Len(s))
  <2>1. Visit(s[Fr.i], NextOf(Fr))
    BY <1>4 DEF Block, NextOf
  <2>2. Settled(NextOf(Fr))
    <3>1. Fr.i + 1 # 0
      BY <1>2
    <3>2. NextOf(Fr) \in Frame /\ NextOf(Fr).i = Fr.i + 1 /\ NextOf(Fr).phase = p
      BY <1>1, <1>2, Updates DEF Same
    <3> QED BY <3>1, <3>2 DEF Settled
  <2>3. s[Fr.i] \in Node
    <3>1. Len(s) \in Nat /\ \A i \in 1..Len(s) : s[i] \in Node
      BY LenProperties, ElementOfSeq
    <3> QED BY <1>2, <1>4, <3>1
  <2> QED BY <1>1, <2>1, <2>2, <2>3, VisitStops
<1> QED BY <1>3, <1>4

LEMMA IfStops == ASSUME Typed(errors), If PROVE Stops
<1>1. frames # <<>> /\ Kind[Fr.node] = "if"
  BY DEF If, Branch, Block, In, Busy
<1>2. /\ Fr.node \in Node /\ TypeOK /\ errors \in BOOLEAN /\ crashed \in BOOLEAN
      /\ {"branch", "then", "else"} \subseteq Phases /\ Fr.i # 0
  BY <1>1, Guard DEF Phases
<1>3. Kids[Fr.node][1] \in Node \cup {NULL} /\ Body[Fr.node] \in Seq(Node) /\ Else[Fr.node] \in Seq(Node)
  BY <1>1, <1>2, KidsAre
<1>4. CASE Branch
  <2>1. CASE list = <<>>
    BY <1>4, <2>1, CrashStops DEF Branch
  <2>2. CASE list # <<>>
    <3>1. /\ list' \in Seq(Values) /\ Len(list') <= Len(list) /\ UNCHANGED <<helper, crashed>>
          /\ errors' \in BOOLEAN
      <4>1. list' = Front(list) /\ UNCHANGED <<helper, crashed>>
        BY <1>4, <2>2 DEF Branch
      <4>2. errors' = TRUE \/ errors' = errors
        BY <1>4, <2>2, Zenon DEF Branch
      <4>3. errors' \in BOOLEAN
        BY <1>2, <4>2
      <4>4. list' \in Seq(Values) /\ Len(list') <= Len(list)
        BY <1>2, <2>2, <4>1, ListFacts
      <4> QED BY <4>1, <4>3, <4>4
    <3>2. CASE Done
      BY <1>1, <1>2, <3>1, <3>2, DoneStops
    <3>3. ASSUME NEW p \in {"then", "else"}, Continue(To(p)) PROVE Stops
      <4>1. Settled(To(p))
        BY <1>1, <1>2, TopFrame DEF Settled, Same, Phases
      <4> QED BY <1>1, <1>2, <3>1, <3>3, <4>1, ContinueStops
    <3>4. Done \/ Continue(To("then")) \/ Continue(To("else"))
      BY <1>4, <2>2 DEF Branch
    <3> QED BY <3>2, <3>3, <3>4
  <2> QED BY <2>1, <2>2
<1>5. CASE Visit(Kids[Fr.node][1], To("branch"))
  BY <1>1, <1>2, <1>3, <1>5, ToStops
<1>6. CASE Block("then", Body[Fr.node]) \/ Block("else", Else[Fr.node])
  BY <1>3, <1>6, BlockStops
<1> QED BY <1>4, <1>5, <1>6 DEF If

(* A statement of a body, after which the counters are looked at. *)
LEMMA BodyVisitStops ==
  ASSUME Typed(errors), frames # <<>>, NEW s \in Seq(Node), ~(Fr.i > Len(s)),
         Visit(s[Fr.i], BeginNext(Fr))
  PROVE  Stops
<1>1. Fr \in Frame /\ Fr.i \in Nat \ {0}
  BY Guard
<1>2. Settled(BeginNext(Fr))
  <2>1. Fr.i + 1 # 0
    BY <1>1
  <2>2. BeginNext(Fr) \in Frame /\ BeginNext(Fr).i = Fr.i + 1 /\ BeginNext(Fr).phase = "flags"
    BY <1>1, Updates DEF Same
  <2> QED BY <2>1, <2>2 DEF Settled
<1>3. s[Fr.i] \in Node
  <2>1. Len(s) \in Nat /\ \A i \in 1..Len(s) : s[i] \in Node
    BY LenProperties, ElementOfSeq
  <2> QED BY <1>1, <2>1
<1> QED BY <1>2, <1>3, VisitStops

LEMMA FlagsStops ==
  ASSUME Typed(errors), frames # <<>>, TakeFlag(Consumed),
         NEW p \in {"test", "body"}, Done \/ Continue(To(p)),
         UNCHANGED <<list, errors, crashed>>
  PROVE  Stops
<1>1. /\ TypeOK /\ errors \in BOOLEAN /\ crashed \in BOOLEAN /\ Fr.i # 0
      /\ list \in Seq(Values) /\ Len(list) <= Len(list)
  BY Guard
<1>2. helper' \in [Flags -> 0..MaxFlag] /\ (errors => helper' = helper)
  BY <1>1, TakeFlagTypes
<1>3. FramesFine(errors')
  <2>1. CASE Done
    BY <2>1, FrontFine DEF Done
  <2>2. CASE Continue(To(p))
    <3>1. Settled(To(p))
      BY <1>1, TopFrame DEF Settled, Same, Phases
    <3> QED BY <2>2, <3>1, PutFine
  <2> QED BY <2>1, <2>2
<1>4. TypeOK'
  BY <1>1, <1>2, <1>3 DEF TypeOK, FramesFine
<1>5. Quiet
  BY <1>1, <1>2, <1>3, QuietIf
<1> QED BY <1>3, <1>4, <1>5 DEF Stops, FramesFine

LEMMA LoopStops == ASSUME Typed(errors), Loop PROVE Stops
<1>1. frames # <<>> /\ Kind[Fr.node] \in {"while", "for"}
  BY DEF Loop, Test, Check, LoopBody, LoopFlags, In, Busy, Loops
<1>2. /\ Fr.node \in Node /\ TypeOK /\ errors \in BOOLEAN /\ crashed \in BOOLEAN
      /\ Fr \in Frame /\ list \in Seq(Values) /\ Len(list) <= Len(list) /\ Fr.i # 0
      /\ {"test", "check", "body", "step"} \subseteq Phases
  BY <1>1, Guard DEF Phases
<1>3. /\ Kids[Fr.node][IF Kind[Fr.node] = "for" THEN 2 ELSE 1] \in Node \cup {NULL}
      /\ Kind[Fr.node] = "for" =>
           Kids[Fr.node][1] \in Node \cup {NULL} /\ Kids[Fr.node][3] \in Node \cup {NULL}
      /\ Body[Fr.node] \in Seq(Node)
  BY <1>1, <1>2, KidsAre
<1>4. CASE Test
  BY <1>1, <1>2, <1>3, <1>4, ToStops DEF Test
<1>5. CASE Kind[Fr.node] = "for" /\ \/ Visit(Kids[Fr.node][1], To("test"))
                                    \/ Visit(Kids[Fr.node][3], To("test"))
  BY <1>1, <1>2, <1>3, <1>5, ToStops
<1>6. CASE Check
  <2>1. CASE list = <<>>
    BY <1>6, <2>1, CrashStops DEF Check
  <2>2. CASE list # <<>>
    <3>1. list' = Front(list) /\ UNCHANGED <<helper, crashed>>
      BY <1>6, <2>2 DEF Check
    <3>2. list' \in Seq(Values) /\ Len(list') <= Len(list)
      BY <1>2, <2>2, <3>1, ListFacts
    <3>3. errors' = (errors \/ Last(list) = "other")
      BY <1>6, <2>2 DEF Check
    <3>4. errors' \in BOOLEAN
      BY <3>3
    <3>5. Done \/ Continue(To("body"))
      BY <1>6, <2>2 DEF Check
    <3>6. Settled(To("body"))
      BY <1>1, <1>2, TopFrame DEF Settled, Same
    <3> QED BY <1>1, <1>2, <3>1, <3>2, <3>4, <3>5, <3>6, DoneStops, ContinueStops
  <2> QED BY <2>1, <2>2
<1>7. CASE LoopBody
  <2>1. CASE Fr.i > Len(Body[Fr.node])
    <3> DEFINE p == IF Kind[Fr.node] = "for" THEN "step" ELSE "test"
    <3>1. Continue(Restart(Fr, p)) /\ UNCHANGED <<list, helper, errors, crashed>>
      BY <1>7, <2>1 DEF LoopBody, Restart
    <3>2. p \in {"step", "test"}
      OBVIOUS
    <3> HIDE DEF p
    <3>3. Settled(Restart(Fr, p))
      BY <1>2, <3>2, Updates DEF Settled, Same
    <3> QED BY <1>1, <1>2, <3>1, <3>3, ContinueStops
  <2>2. CASE ~(Fr.i > Len(Body[Fr.node]))
    <3>1. Visit(Body[Fr.node][Fr.i], BeginNext(Fr))
      BY <1>7, <2>2 DEF LoopBody, BeginNext
    <3> QED BY <1>1, <1>3, <2>2, <3>1, BodyVisitStops
  <2> QED BY <2>1, <2>2
<1>8. CASE LoopFlags
  <2>1. TakeFlag(Consumed) /\ (Done \/ Continue(To("test"))) /\ UNCHANGED <<list, errors, crashed>>
    BY <1>8 DEF LoopFlags
  <2> QED BY <1>1, <2>1, FlagsStops
<1> QED BY <1>4, <1>5, <1>6, <1>7, <1>8 DEF Loop, In

LEMMA ReturnStops == ASSUME Typed(errors), ReturnNode PROVE Stops
<1>1. frames # <<>> /\ Kind[Fr.node] = "return"
  BY DEF ReturnNode, RaiseReturn, LeaveReturn, In, Busy
<1>2. /\ Fr.node \in Node /\ TypeOK /\ errors \in BOOLEAN /\ crashed \in BOOLEAN
      /\ Fr \in Frame /\ list \in Seq(Values) /\ Len(list) <= Len(list) /\ Fr.i # 0
      /\ {"value", "leave"} \subseteq Phases
  BY <1>1, Guard DEF Phases
<1>3. Kids[Fr.node][1] \in Node \cup {NULL}
  BY <1>1, <1>2, KidsAre
<1>4. CASE RaiseReturn
  <2>1. /\ Fr.phase = "raise" /\ Raise("is_return") /\ Continue(To("value"))
        /\ UNCHANGED <<list, errors, crashed>>
    BY <1>4 DEF RaiseReturn, In
  <2>2. Settled(To("value"))
    BY <1>1, <1>2, TopFrame DEF Settled, Same
  <2>3. FramesFine(errors')
    BY <1>1, <2>1, <2>2, PutFine
  <2>4. ~errors
    <3>1. Len(frames) \in DOMAIN frames /\ Fr = frames[Len(frames)]
      BY <1>1, <1>2, TopFrame
    <3> QED BY <2>1, <3>1 DEF Typed, Entered
  <2>5. TypeOK'
    BY <1>2, <2>1, <2>3, RaiseTypes DEF TypeOK, FramesFine, Flags
  <2> QED BY <2>3, <2>4, <2>5 DEF Stops, FramesFine, Quiet
<1>5. CASE Visit(Kids[Fr.node][1], To("leave"))
  BY <1>1, <1>2, <1>3, <1>5, ToStops
<1>6. CASE LeaveReturn
  <2>1. frames' = Mark(Front(frames), "return") /\ UNCHANGED <<list, helper, errors, crashed>>
    BY <1>6 DEF LeaveReturn
  <2>2. /\ frames \in Seq(Frame) /\ Front(frames) \in Seq(Frame) /\ Len(frames) \in Nat \ {0}
        /\ DOMAIN Front(frames) = 1..(Len(frames) - 1) /\ DOMAIN frames = 1..Len(frames)
        /\ \A i \in 1..(Len(frames) - 1) : Front(frames)[i] = frames[i]
    BY <1>1, <1>2, TopFrame, FrontProperties
  <2>3. \A m \in Nat : \A i \in 1..(m - 1) : i \in 1..m /\ i # m
    OBVIOUS
  <2>4. Entered(Front(frames), errors)
    BY <2>2, <2>3 DEF Typed, Entered
  <2>5. Len(Front(frames)) <= Len(frames)
    BY <2>2, FrontProperties, <1>1
  <2>6. FramesFine(errors')
    BY <2>1, <2>2, <2>4, <2>5, MarkFine
  <2> QED BY <1>2, <2>1, <2>6, KeepStops
<1> QED BY <1>4, <1>5, <1>6 DEF ReturnNode

LEMMA CallStops == ASSUME Typed(errors), Call PROVE Stops
<1>1. frames # <<>> /\ Kind[Fr.node] \in {"call", "lib"}
  BY DEF Call, Arguments, Bind, CallBody, CallFlags, In, Busy
<1>2. /\ Fr.node \in Node /\ TypeOK /\ errors \in BOOLEAN /\ crashed \in BOOLEAN
      /\ Fr \in Frame /\ list \in Seq(Values) /\ Len(list) <= Len(list)
      /\ Fr.i \in Nat \ {0} /\ {"bind", "body", "finish"} \subseteq Phases
  BY <1>1, Guard DEF Phases
<1>3. Body[Fr.node] \in Seq(Node)
  BY <1>2, KidsAre
<1>4. CASE Arguments
  <2>1. CASE Kind[Fr.node] = "call" /\ Kids[Fr.node] = <<>>
    <3>1. Done /\ UNCHANGED <<list, helper, errors, crashed>>
      BY <1>4, <2>1 DEF Arguments
    <3> QED BY <1>1, <1>2, <3>1, DoneStops
  <2>2. CASE /\ ~(Kind[Fr.node] = "call" /\ Kids[Fr.node] = <<>>)
             /\ Fr.i > Len(Kids[Fr.node])
    <3> DEFINE p == IF Kind[Fr.node] = "lib" THEN "finish" ELSE "body"
    <3>1. Continue(Restart(Fr, p)) /\ UNCHANGED <<list, helper, errors, crashed>>
      BY <1>4, <2>2 DEF Arguments, Restart
    <3>2. p \in {"finish", "body"}
      OBVIOUS
    <3> HIDE DEF p
    <3>3. Settled(Restart(Fr, p))
      BY <1>2, <3>2, Updates DEF Settled, Same
    <3> QED BY <1>1, <1>2, <3>1, <3>3, ContinueStops
  <2>3. CASE /\ ~(Kind[Fr.node] = "call" /\ Kids[Fr.node] = <<>>)
             /\ ~(Fr.i > Len(Kids[Fr.node]))
    <3>1. Visit(Kids[Fr.node][Fr.i], Begin("bind"))
      BY <1>4, <2>3 DEF Arguments
    <3>2. Fr.i <= Len(Kids[Fr.node])
      BY <1>2, <2>3, KidsAre
    <3>3. Kids[Fr.node][Fr.i] \in Node \cup {NULL}
      BY <1>2, <3>2, KidsAre
    <3> QED BY <1>1, <1>2, <3>1, <3>3, ToStops
  <2> QED BY <2>1, <2>2, <2>3
<1>5. CASE Bind
  <2>1. Continue(NextArgument(Fr)) /\ UNCHANGED <<helper, errors, crashed>>
    BY <1>5 DEF Bind, NextArgument
  <2>2. list' \in Seq(Values) /\ Len(list') <= Len(list)
    BY <1>2, <1>5, ListFacts DEF Bind
  <2>3. Settled(NextArgument(Fr))
    <3>1. Fr.i + 1 # 0
      BY <1>2
    <3> QED BY <1>2, <3>1, Updates DEF Settled, Same
  <2> QED BY <1>1, <1>2, <2>1, <2>2, <2>3, ContinueStops
<1>6. CASE CallBody
  <2>1. CASE Fr.i > Len(Body[Fr.node])
    <3>1. Done /\ UNCHANGED <<list, helper, errors, crashed>>
      BY <1>6, <2>1 DEF CallBody
    <3> QED BY <1>1, <1>2, <3>1, DoneStops
  <2>2. CASE ~(Fr.i > Len(Body[Fr.node]))
    <3>1. Visit(Body[Fr.node][Fr.i], BeginNext(Fr))
      BY <1>6, <2>2 DEF CallBody, BeginNext
    <3> QED BY <1>1, <1>3, <2>2, <3>1, BodyVisitStops
  <2> QED BY <2>1, <2>2
<1>7. CASE CallFlags
  <2>1. TakeFlag(Consumed) /\ (Done \/ Continue(To("body"))) /\ UNCHANGED <<list, errors, crashed>>
    BY <1>7 DEF CallFlags
  <2> QED BY <1>1, <2>1, FlagsStops
<1> QED BY <1>4, <1>5, <1>6, <1>7 DEF Call

LEMMA IndexedStops == ASSUME Typed(errors), Indexed PROVE Stops
<1>1. frames # <<>>
  BY DEF Indexed, Elements, Element, Finish, In, Busy
<1>2. /\ Fr.node \in Node /\ TypeOK /\ errors \in BOOLEAN /\ crashed \in BOOLEAN
      /\ Fr \in Frame /\ list \in Seq(Values) /\ Len(list) <= Len(list)
      /\ Fr.i \in Nat \ {0} /\ {"elem", "finish"} \subseteq Phases
  BY <1>1, Guard DEF Phases
<1>3. Settled(To("finish"))
  BY <1>1, <1>2, TopFrame DEF Settled, Same
<1>4. CASE Elements
  <2>1. CASE Fr.i > Len(Kids[Fr.node])
    <3>1. Continue(To("finish")) /\ UNCHANGED <<list, helper, errors, crashed>>
      BY <1>4, <2>1 DEF Elements
    <3> QED BY <1>1, <1>2, <1>3, <3>1, ContinueStops
  <2>2. CASE ~(Fr.i > Len(Kids[Fr.node]))
    <3>1. Visit(Kids[Fr.node][Fr.i], Begin("elem"))
      BY <1>4, <2>2 DEF Elements
    <3>2. Fr.i <= Len(Kids[Fr.node])
      BY <1>2, <2>2, KidsAre
    <3>3. Kids[Fr.node][Fr.i] \in Node \cup {NULL}
      BY <1>2, <3>2, KidsAre
    <3> QED BY <1>1, <1>2, <3>1, <3>3, ToStops
  <2> QED BY <2>1, <2>2
<1>5. CASE Element
  <2>1. CASE list = <<>>
    BY <1>5, <2>1, CrashStops DEF Element
  <2>2. CASE list # <<>>
    <3>1. /\ list' = Front(list) /\ UNCHANGED <<helper, crashed>>
          /\ errors' = (errors \/ Last(list) = "other")
          /\ Continue(NextElement(Fr)) \/ Continue(To("finish")) \/ Done
      BY <1>5, <2>2 DEF Element, NextElement
    <3>2. list' \in Seq(Values) /\ Len(list') <= Len(list)
      BY <1>2, <2>2, <3>1, ListFacts
    <3>3. errors' \in BOOLEAN
      BY <3>1
    <3>4. Settled(NextElement(Fr))
      <4>1. Fr.i + 1 # 0
        BY <1>2
      <4> QED BY <1>2, <4>1, Updates DEF Settled, Same
    <3> QED BY <1>1, <1>2, <1>3, <3>1, <3>2, <3>3, <3>4, ContinueStops, DoneStops
  <2> QED BY <2>1, <2>2
<1>6. CASE Finish
  <2>1. Done /\ UNCHANGED <<helper, crashed>>
    BY <1>6 DEF Finish
  <2>2. CASE /\ Kind[Fr.node] \in DOMAIN Results /\ errors' = errors
             /\ \E v \in Results[Kind[Fr.node]] : Push(v)
    <3>1. Results[Kind[Fr.node]] \subseteq Values
      BY <2>2 DEF Results, Values
    <3> QED BY <1>1, <1>2, <2>1, <2>2, <3>1, PushStops
  <2>3. CASE list' = list /\ errors' \in {errors, TRUE}
    BY <1>1, <1>2, <2>1, <2>3, DoneStops
  <2> QED BY <1>6, <2>2, <2>3 DEF Finish
<1> QED BY <1>4, <1>5, <1>6 DEF Indexed

LEMMA StartStops ==
  ASSUME Typed(errors), NEW n \in Lines, StartLine(n)
  PROVE  Stops
<1> DEFINE fr == [node |-> n, phase |-> "line", i |-> 1, base |-> 0, cause |-> "none"]
<1>1. /\ TypeOK /\ frames = <<>> /\ frames' = <<fr>>
      /\ UNCHANGED <<list, helper, errors, crashed>>
  BY DEF StartLine, Typed
<1>2. fr \in Frame /\ fr.i # 0 /\ fr.phase # "raise"
  BY TraverseAssumption DEF Frame, Phases
<1> HIDE DEF fr
<1>3. frames' \in Seq(Frame) /\ DOMAIN frames' = {1} /\ frames'[1] = fr
  BY <1>1, <1>2
<1>4. FramesFine(errors')
  BY <1>1, <1>2, <1>3 DEF FramesFine, Entered
<1> QED BY <1>1, <1>4, KeepStops DEF TypeOK

(* Every step of every program. *)
LEMMA NextStops == ASSUME Typed(errors), [Next]_vars PROVE Stops
<1>1. ASSUME NEW n \in Lines, StartLine(n) PROVE Stops
  BY <1>1, StartStops
<1>2. CASE Handle
  BY <1>2, LineStops, PrintStops, OpStops, AssignStops, IfStops, LoopStops, ReturnStops,
     CallStops, IndexedStops DEF Handle
<1>3. CASE UNCHANGED vars
  <2>1. TypeOK /\ errors \in BOOLEAN /\ crashed \in BOOLEAN
    BY DEF Typed, TypeOK
  <2>2. FramesFine(errors')
    <3>1. frames \in Seq(Frame) /\ Len(frames) \in Nat
      BY <2>1, LenProperties DEF TypeOK
    <3> QED BY <1>3, <2>1, <3>1 DEF vars, FramesFine, Typed
  <2> QED BY <1>3, <2>1, <2>2, KeepStops DEF vars
<1> QED BY <1>1, <1>2, <1>3 DEF Next

LEMMA InitTyped == Init => Typed(errors)
<1> SUFFICES ASSUME Init PROVE Typed(errors)
  OBVIOUS
<1>1. /\ frames = <<>> /\ list = <<>> /\ helper = [f \in Flags |-> 0]
      /\ errors = FALSE /\ crashed = FALSE
  BY DEF Init
<1>2. <<>> \in Seq(Frame) /\ <<>> \in Seq(Values) /\ Len(<<>>) <= MaxList
  BY EmptySeq, TraverseAssumption
<1>3. helper \in [Flags -> 0..MaxFlag]
  <2>1. 0 \in 0..MaxFlag
    BY TraverseAssumption
  <2> QED BY <1>1, <2>1
<1>4. errors \in BOOLEAN /\ crashed \in BOOLEAN
  BY <1>1
<1>5. TypeOK
  BY <1>1, <1>2, <1>3, <1>4 DEF TypeOK
<1> QED BY <1>1, <1>5 DEF Typed, Entered

(* In every program the stack of handlers, the evaluation stack and the counters
   keep their types; a counter is never taken below zero. *)
THEOREM TypeCorrect == Spec => []TypeOK
<1>1. Typed(errors) => TypeOK
  BY DEF Typed
<1>2. Typed(errors) /\ [Next]_vars => Typed(errors)'
  BY NextStops DEF Stops, Typed
<1> QED BY <1>1, <1>2, InitTyped, PTL DEF Spec

(* In every program, after an error nothing more is begun in the line and no
   counter changes; the handlers in progress only end, and none pushes more than
   one value, as its last act (traversal, traverse_body, perform_lib_function,
   traverse_access). *)
THEOREM ErrorsStop == Spec => ErrorStopsLine
<1>1. Typed(errors) /\ [Next]_vars => Typed(errors)'
  BY NextStops DEF Stops, Typed
<1>2. Typed(errors) /\ [Next]_vars =>
        [errors /\ frames # <<>> =>
           /\ helper' = helper
           /\ Len(frames') <= Len(frames)
           /\ Len(list') + Len(frames') <= Len(list) + Len(frames)]_vars
  BY NextStops DEF Stops, Quiet
<1> QED BY <1>1, <1>2, InitTyped, PTL DEF Spec, ErrorStopsLine

-----------------------------------------------------------------------------
(* The programs of a grammar g.  fs is a stack of handlers, m its length, v the
   number of values on the evaluation stack and h the counters. *)
PhasesOf == [k \in Kinds \ Leaves |->
  CASE k = "op"     -> {"left", "right", "apply"}
    [] k = "assign" -> {"right", "store"}
    [] k = "if"     -> {"cond", "branch", "then", "else"}
    [] k = "while"  -> {"test", "check", "body", "flags"}
    [] k = "for"    -> {"init", "test", "check", "body", "flags", "step"}
    [] k = "return" -> {"raise", "value", "leave"}
    [] k = "call"   -> {"args", "bind", "body", "flags"}
    [] k = "lib"    -> {"args", "bind", "finish"}
    [] k \in {"array", "access", "setelem"} -> {"elems", "elem", "finish"}]

(* The handler of the line, and one that it has led to: an if has not begun its
   block while it waits for the condition, and a call executes a statement only
   if it has arguments and the function is not at its end. *)
LineFrame(fr) == fr.phase \in {"line", "print"} /\ fr.base = 0 /\ fr.node \in Lines

InnerFrame(fr) ==
  /\ Kind[fr.node] \in Kinds \ Leaves /\ fr.phase \in PhasesOf[Kind[fr.node]]
  /\ Kind[fr.node] = "if" /\ fr.phase \in {"cond", "branch"} => fr.i = 1
  /\ Kind[fr.node] = "call" /\ fr.phase # "args" => Kids[fr.node] # <<>>
  /\ Kind[fr.node] = "call" /\ fr.phase = "body" => fr.i <= Len(Body[fr.node])

Proper(fr, m) == IF m = 1 THEN LineFrame(fr) ELSE InnerFrame(fr)

(* The handler waits for an expression; it waits for one without calls. *)
WantsValue(fr) ==
  \/ fr.phase \in {"store", "branch", "check", "leave", "bind", "elem", "apply"}
  \/ Kind[fr.node] = "op" /\ fr.phase = "right"

WantsSimple(fr, g) ==
  fr.phase = "leave" \/ (Kind[fr.node] \in Computing /\ fr.node \in g.simple)

(* An if that has begun the last statement of its block; a loop or a function
   that has begun a statement. *)
EndedIf(fr) ==
  /\ Kind[fr.node] = "if"
  /\ \/ fr.phase = "then" /\ fr.i > Len(Body[fr.node])
     \/ fr.phase = "else" /\ fr.i > Len(Else[fr.node])

Catches(fr, kinds) == Kind[fr.node] \in kinds /\ fr.phase = "flags"

(* A jump from the handler at m comes to the one at c. *)
LeadsTo(fs, m, c, kinds) ==
  Catches(fs[c], kinds) /\ \A j \in (c + 1)..m : EndedIf(fs[j])

Reaches(fs, m, kinds) == \E c \in 1..m : LeadsTo(fs, m, c, kinds)

(* The statement the handler has begun is one that always returns. *)
MustReturn(fr, g) ==
  \/ EndedIf(fr) /\ fr.node \in g.returning
  \/ Catches(fr, {"call"}) /\ fr.i > Len(Body[fr.node])

Statement(fs, m, n, g) ==
  \/ n \in g.plain
  \/ n \in g.inLoop /\ Reaches(fs, m, Loops)
  \/ n \in g.inFunction /\ Reaches(fs, m, {"call"})

(* The handler at m may be traversing the node n. *)
Visits(fs, m, n, g) ==
  \/ WantsValue(fs[m]) /\ n \in g.values /\ (WantsSimple(fs[m], g) => n \in g.simple)
  \/ fs[m].phase = "print" /\ n \in g.values \cup g.plain
  \/ fs[m].phase = "test" /\ n \in g.plain
  \/ /\ fs[m].phase \in {"then", "else", "flags"}
     /\ Statement(fs, m, n, g)
     /\ MustReturn(fs[m], g) => n \in g.returning

(* The values of its own that a handler has on the stack: while it waits, and
   when it goes on. *)
Below(fr) == IF fr.phase = "apply" THEN 1 ELSE 0

Have(fr) == IF ~WantsValue(fr) THEN 0 ELSE Below(fr) + 1

Link(fs, k, g) ==
  /\ Proper(fs[k], k)
  /\ k > 1 => /\ fs[k].base = fs[k - 1].base + Below(fs[k - 1])
              /\ Visits(fs, k - 1, fs[k].node, g)

Linked(fs, m, g) == \A k \in 1..m : Link(fs, k, g)

-----------------------------------------------------------------------------
(* How a jump is on its way. *)
Clear == [f \in Flags |-> 0]
Only(flag) == [f \in Flags |-> IF f = flag THEN 1 ELSE 0]

(* A return whose value is being evaluated. *)
IsReturn(fr) == Kind[fr.node] = "return" /\ fr.phase \in {"value", "leave"}

NoReturn(fs, m) == \A r \in 1..m : ~IsReturn(fs[r])

Unmarked(fs, m) == \A k \in 1..m : fs[k].cause = "none"

Simply(fs, r, m, g) ==
  \A j \in (r + 1)..m : Kind[fs[j].node] \in Computing /\ fs[j].node \in g.simple

(* None is; the counter of return is raised while its value is evaluated; a
   handler is left behind. *)
Calm(fs, m, g) == NoReturn(fs, m) /\ Unmarked(fs, m) /\ ~MustReturn(fs[m], g)

Giving(fs, m, g) ==
  /\ Unmarked(fs, m)
  /\ \E r \in 1..m : IsReturn(fs[r])
  /\ \A r \in 1..m : IsReturn(fs[r]) => Simply(fs, r, m, g)

Leaping(fs, m, kinds) ==
  /\ NoReturn(fs, m)
  /\ \E c \in 1..m : LeadsTo(fs, m, c, kinds) /\ \A k \in 1..m : fs[k].cause # "none" => k = c

Stacked(fr, v) == IF fr.phase = "print" THEN v <= 1 ELSE v = fr.base + Have(fr)

Mode(fs, m, v, h, g) ==
  \/ h = Clear /\ Calm(fs, m, g) /\ Stacked(fs[m], v)
  \/ h = Only("is_return") /\ Giving(fs, m, g) /\ Stacked(fs[m], v)
  \/ /\ h \in {Only("is_break"), Only("is_continue")}
     /\ Leaping(fs, m, Loops) /\ ~MustReturn(fs[m], g) /\ v = fs[m].base
     /\ h = Only("is_continue") => Unmarked(fs, m)
  \/ h = Only("is_return") /\ Leaping(fs, m, {"call"}) /\ v = fs[m].base + 1

Good(fs, v, h, g) ==
  IF fs = <<>> THEN h = Clear /\ v = 0
  ELSE Linked(fs, Len(fs), g) /\ Mode(fs, Len(fs), v, h, g)

-----------------------------------------------------------------------------
(* Nodes of a grammar, by kind. *)
LEMMA GrammarKinds ==
  ASSUME NEW g, Grammar(g), NEW n
  PROVE  /\ n \in g.values \cup g.plain \cup g.inLoop \cup g.inFunction => n \in Node
         /\ n \in g.values => /\ Kind[n] \in {"const", "id", "call"} \cup Computing
                              /\ Kind[n] = "call" => Kids[n] # <<>>
         /\ n \in g.simple => n \in g.values /\ Kind[n] \in {"const", "id"} \cup Computing
         /\ n \in g.plain => /\ Kind[n] \in {"stub", "assign", "setelem", "call", "if",
                                             "while", "for"}
                             /\ Kind[n] = "call" => Kids[n] = <<>>
         /\ n \in g.inLoop => Kind[n] \in {"break", "continue", "if"}
         /\ n \in g.inFunction => Kind[n] \in {"return", "if"}
         /\ n \in g.returning => n \in g.inFunction
<1>1. n \in g.values => IsValue(n, g)
  BY DEF Grammar
<1>2. n \in g.simple => n \in g.values /\ IsSimple(n, g)
  BY DEF Grammar
<1>3. n \in g.plain => IsPlain(n, g)
  BY DEF Grammar
<1>4. n \in g.inLoop => IsInLoop(n, g)
  BY DEF Grammar
<1>5. n \in g.inFunction => IsInFunction(n, g)
  BY DEF Grammar
<1>6. n \in g.returning => n \in g.inFunction
  BY DEF Grammar, IsReturning
<1>7. n \in g.values \cup g.plain \cup g.inLoop \cup g.inFunction => n \in Node
  BY DEF Grammar
<1>8. n \in g.plain => /\ Kind[n] \in {"stub", "assign", "setelem", "call", "if",
                                             "while", "for"}
                       /\ Kind[n] = "call" => Kids[n] = <<>>
  BY <1>3 DEF IsPlain, IfOf
<1>9. n \in g.values => /\ Kind[n] \in {"const", "id", "call"} \cup Computing
                        /\ Kind[n] = "call" => Kids[n] # <<>>
  BY <1>1 DEF IsValue, Computing
<1>10. /\ n \in g.simple => n \in g.values /\ Kind[n] \in {"const", "id"} \cup Computing
       /\ n \in g.inLoop => Kind[n] \in {"break", "continue", "if"}
       /\ n \in g.inFunction => Kind[n] \in {"return", "if"}
  BY <1>2, <1>4, <1>5 DEF IsSimple, IsInLoop, IsInFunction, IfOf, Computing
<1> QED BY <1>6, <1>7, <1>8, <1>9, <1>10

(* Frames that differ at most in the jump that ended them. *)
Twin(a, b) == a.node = b.node /\ a.phase = b.phase /\ a.i = b.i /\ a.base = b.base

Alike(fs, gs, m) == \A k \in 1..m : Twin(fs[k], gs[k])

LEMMA TwinIs ==
  ASSUME NEW a, NEW b, Twin(a, b)
  PROVE  /\ a.node = b.node /\ a.base = b.base /\ Below(a) = Below(b) /\ Have(a) = Have(b)
         /\ LineFrame(a) => LineFrame(b)
         /\ InnerFrame(a) => InnerFrame(b)
         /\ WantsValue(a) <=> WantsValue(b)
         /\ EndedIf(a) <=> EndedIf(b)
         /\ IsReturn(a) <=> IsReturn(b)
         /\ \A kinds : Catches(a, kinds) <=> Catches(b, kinds)
         /\ \A g : /\ WantsSimple(a, g) <=> WantsSimple(b, g)
                   /\ MustReturn(a, g) <=> MustReturn(b, g)
         /\ a.phase = b.phase
<1>1. a.node = b.node /\ a.phase = b.phase /\ a.i = b.i /\ a.base = b.base
  BY DEF Twin
<1>2. /\ Below(a) = Below(b)
      /\ WantsValue(a) <=> WantsValue(b)
  BY <1>1 DEF Below, WantsValue
<1>3. Have(a) = Have(b)
  BY <1>2 DEF Have
<1>4. (LineFrame(a) => LineFrame(b)) /\ (InnerFrame(a) => InnerFrame(b))
  BY <1>1 DEF LineFrame, InnerFrame
<1>5. /\ EndedIf(a) <=> EndedIf(b)
      /\ IsReturn(a) <=> IsReturn(b)
      /\ \A kinds : Catches(a, kinds) <=> Catches(b, kinds)
  BY <1>1 DEF EndedIf, IsReturn, Catches
<1>6. ASSUME NEW g PROVE /\ WantsSimple(a, g) <=> WantsSimple(b, g)
                         /\ MustReturn(a, g) <=> MustReturn(b, g)
  BY <1>1, <1>5 DEF WantsSimple, MustReturn, Computing
<1> QED BY <1>1, <1>2, <1>3, <1>4, <1>5, <1>6

LEMMA AlikeReaches ==
  ASSUME NEW fs, NEW gs, NEW m \in Nat, Alike(fs, gs, m), NEW kinds
  PROVE  \A k \in 1..m : Reaches(fs, k, kinds) => Reaches(gs, k, kinds)
<1> SUFFICES ASSUME NEW k \in 1..m, NEW c \in 1..k, LeadsTo(fs, k, c, kinds)
             PROVE  LeadsTo(gs, k, c, kinds)
  BY DEF Reaches
<1>1. c \in 1..m /\ \A j \in (c + 1)..k : j \in 1..m
  OBVIOUS
<1>2. Twin(fs[c], gs[c]) /\ \A j \in (c + 1)..k : Twin(fs[j], gs[j])
  BY <1>1 DEF Alike
<1>3. Catches(gs[c], kinds)
  BY <1>2, TwinIs DEF LeadsTo
<1>4. \A j \in (c + 1)..k : EndedIf(gs[j])
  BY <1>2, TwinIs DEF LeadsTo
<1> QED BY <1>3, <1>4 DEF LeadsTo

LEMMA AlikeVisits ==
  ASSUME NEW fs, NEW gs, NEW m \in Nat, Alike(fs, gs, m), NEW k \in 1..m, NEW n, NEW g,
         Visits(fs, k, n, g)
  PROVE  Visits(gs, k, n, g)
<1>1. Twin(fs[k], gs[k])
  BY DEF Alike
<1>2. /\ WantsValue(fs[k]) <=> WantsValue(gs[k])
      /\ WantsSimple(fs[k], g) <=> WantsSimple(gs[k], g)
      /\ MustReturn(fs[k], g) <=> MustReturn(gs[k], g)
      /\ fs[k].phase = gs[k].phase
  BY <1>1, TwinIs
<1>3. Statement(fs, k, n, g) => Statement(gs, k, n, g)
  BY AlikeReaches DEF Statement
<1> QED BY <1>2, <1>3 DEF Visits

LEMMA AlikeLinked ==
  ASSUME NEW fs, NEW gs, NEW m \in Nat, Alike(fs, gs, m), NEW g, Linked(fs, m, g)
  PROVE  Linked(gs, m, g)
<1> SUFFICES ASSUME NEW k \in 1..m PROVE Link(gs, k, g)
  BY DEF Linked
<1>1. Link(fs, k, g) /\ Twin(fs[k], gs[k])
  BY DEF Linked, Alike
<1>2. Proper(gs[k], k)
  BY <1>1, TwinIs DEF Link, Proper
<1>3. ASSUME k > 1
      PROVE  /\ gs[k].base = gs[k - 1].base + Below(gs[k - 1])
             /\ Visits(gs, k - 1, gs[k].node, g)
  <2>1. k - 1 \in 1..m
    BY <1>3
  <2>2. Twin(fs[k - 1], gs[k - 1])
    BY <2>1 DEF Alike
  <2>3. fs[k].base = fs[k - 1].base + Below(fs[k - 1]) /\ Visits(fs, k - 1, fs[k].node, g)
    BY <1>1, <1>3 DEF Link
  <2>4. Visits(gs, k - 1, fs[k].node, g)
    BY <2>1, <2>3, AlikeVisits
  <2>5. /\ fs[k].node = gs[k].node /\ fs[k].base = gs[k].base
        /\ fs[k - 1].base = gs[k - 1].base /\ Below(fs[k - 1]) = Below(gs[k - 1])
    BY <1>1, <2>2, TwinIs
  <2> QED BY <2>3, <2>4, <2>5
<1> QED BY <1>2, <1>3 DEF Link

(* The handler at the top goes on, begins another, or returns. *)
LEMMA LinkedPut ==
  ASSUME NEW fs, NEW gs, NEW m \in Nat \ {0}, NEW g, Linked(fs, m, g), Alike(fs, gs, m - 1),
         gs[m].node = fs[m].node, gs[m].base = fs[m].base, Proper(gs[m], m)
  PROVE  Linked(gs, m, g)
<1>1. m - 1 \in Nat /\ (\A k \in 1..(m - 1) : k \in 1..m) /\ (\A k \in 1..m : k \in 1..(m - 1) \/ k = m)
  OBVIOUS
<1>2. Linked(gs, m - 1, g)
  <2>1. Linked(fs, m - 1, g)
    BY <1>1 DEF Linked
  <2> QED BY <1>1, <2>1, AlikeLinked
<1>3. Link(gs, m, g)
  <2>1. Link(fs, m, g)
    BY DEF Linked
  <2>2. CASE m > 1
    <3>1. m - 1 \in 1..(m - 1)
      BY <2>2
    <3>2. Twin(fs[m - 1], gs[m - 1])
      BY <3>1 DEF Alike
    <3>3. fs[m].base = fs[m - 1].base + Below(fs[m - 1]) /\ Visits(fs, m - 1, fs[m].node, g)
      BY <2>1, <2>2 DEF Link
    <3>4. Visits(gs, m - 1, fs[m].node, g)
      BY <1>1, <3>1, <3>3, AlikeVisits
    <3>5. fs[m - 1].base = gs[m - 1].base /\ Below(fs[m - 1]) = Below(gs[m - 1])
      BY <3>2, TwinIs
    <3> QED BY <3>3, <3>4, <3>5 DEF Link
  <2>3. CASE ~(m > 1)
    BY <2>3 DEF Link
  <2> QED BY <2>2, <2>3
<1> QED BY <1>1, <1>2, <1>3 DEF Linked

LEMMA LinkedPush ==
  ASSUME NEW gs, NEW m \in Nat \ {0}, NEW g, Linked(gs, m, g), InnerFrame(gs[m + 1]),
         gs[m + 1].base = gs[m].base + Below(gs[m]), Visits(gs, m, gs[m + 1].node, g)
  PROVE  Linked(gs, m + 1, g)
<1>1. /\ m + 1 > 1 /\ m + 1 # 1 /\ (m + 1) - 1 = m
      /\ \A k \in 1..(m + 1) : k \in 1..m \/ k = m + 1
  OBVIOUS
<1>2. Link(gs, m + 1, g)
  BY <1>1 DEF Link, Proper
<1> QED BY <1>1, <1>2 DEF Linked

LEMMA LinkedPop ==
  ASSUME NEW fs, NEW m \in Nat \ {0}, NEW g, Linked(fs, m, g)
  PROVE  Linked(fs, m - 1, g)
<1>1. \A k \in 1..(m - 1) : k \in 1..m
  OBVIOUS
<1> QED BY <1>1 DEF Linked


-----------------------------------------------------------------------------
(* The counters. *)
LEMMA Counters ==
  /\ Clear # Only("is_break") /\ Clear # Only("is_continue") /\ Clear # Only("is_return")
  /\ Only("is_break") # Only("is_continue") /\ Only("is_break") # Only("is_return")
  /\ Only("is_continue") # Only("is_return")
  /\ \A f \in Flags : /\ [Clear EXCEPT ![f] = @ + 1] = Only(f)
                      /\ [Only(f) EXCEPT ![f] = @ - 1] = Clear
                      /\ Clear[f] = 0 /\ Only(f)[f] = 1
                      /\ \A e \in Flags \ {f} : Only(f)[e] = 0
<1>1. \A f \in Flags : /\ Clear[f] = 0 /\ Only(f)[f] = 1
                       /\ \A e \in Flags \ {f} : Only(f)[e] = 0
  BY DEF Clear, Only
<1>2. \A f \in Flags : /\ [Clear EXCEPT ![f] = @ + 1] = Only(f)
                       /\ [Only(f) EXCEPT ![f] = @ - 1] = Clear
  <2> SUFFICES ASSUME NEW f \in Flags
               PROVE  /\ [Clear EXCEPT ![f] = @ + 1] = Only(f)
                      /\ [Only(f) EXCEPT ![f] = @ - 1] = Clear
    OBVIOUS
  <2>1. [Clear EXCEPT ![f] = @ + 1] = [e \in Flags |-> IF e = f THEN Clear[f] + 1 ELSE Clear[e]]
    BY DEF Clear
  <2>2. [Only(f) EXCEPT ![f] = @ - 1] =
          [e \in Flags |-> IF e = f THEN Only(f)[f] - 1 ELSE Only(f)[e]]
    BY DEF Only
  <2>3. [e \in Flags |-> IF e = f THEN Clear[f] + 1 ELSE Clear[e]] = Only(f)
    BY DEF Clear, Only
  <2>4. [e \in Flags |-> IF e = f THEN Only(f)[f] - 1 ELSE Only(f)[e]] = Clear
    BY DEF Clear, Only
  <2> QED BY <2>1, <2>2, <2>3, <2>4
<1>3. /\ "is_break" \in Flags /\ "is_continue" \in Flags /\ "is_return" \in Flags
      /\ "is_continue" \in Flags \ {"is_break"} /\ "is_return" \in Flags \ {"is_break"}
      /\ "is_return" \in Flags \ {"is_continue"}
  BY DEF Flags
<1>4. Clear # Only("is_break") /\ Clear # Only("is_continue") /\ Clear # Only("is_return")
  BY <1>1, <1>3
<1>5. /\ Only("is_break") # Only("is_continue") /\ Only("is_break") # Only("is_return")
      /\ Only("is_continue") # Only("is_return")
  BY <1>1, <1>3
<1> QED BY <1>1, <1>2, <1>4, <1>5

(* While a jump is on its way, the handler at the top is one that is left. *)
LEMMA LeapingTop ==
  ASSUME NEW fs, NEW m \in Nat \ {0}, NEW kinds, NEW c \in 1..m, LeadsTo(fs, m, c, kinds)
  PROVE  (c = m /\ Catches(fs[m], kinds)) \/ (c \in 1..(m - 1) /\ EndedIf(fs[m]))
<1>1. c = m \/ (c \in 1..(m - 1) /\ m \in (c + 1)..m)
  OBVIOUS
<1> QED BY <1>1 DEF LeadsTo

(* The handler at the top is not left, so no jump is on its way. *)
Resting(fr) == ~EndedIf(fr) /\ ~Catches(fr, Loops) /\ ~Catches(fr, {"call"})

LEMMA NoLeap ==
  ASSUME NEW fs, NEW m \in Nat \ {0}, NEW v, NEW h, NEW g, Mode(fs, m, v, h, g),
         Resting(fs[m])
  PROVE  /\ Stacked(fs[m], v)
         /\ \/ h = Clear /\ Calm(fs, m, g)
            \/ h = Only("is_return") /\ Giving(fs, m, g)
<1>1. ~Leaping(fs, m, Loops) /\ ~Leaping(fs, m, {"call"})
  <2> SUFFICES ASSUME NEW kinds \in {Loops, {"call"}}, Leaping(fs, m, kinds) PROVE FALSE
    OBVIOUS
  <2>1. PICK c \in 1..m : LeadsTo(fs, m, c, kinds)
    BY DEF Leaping
  <2> QED BY <2>1, LeapingTop DEF Resting
<1> QED BY <1>1 DEF Mode

(* While the value of a return is evaluated, the handler at the top is the one of
   the return or of a computation of its value. *)
LEMMA GivingTop ==
  ASSUME NEW fs, NEW m \in Nat \ {0}, NEW g, Linked(fs, m, g), Giving(fs, m, g)
  PROVE  /\ m > 1 /\ InnerFrame(fs[m])
         /\ \/ IsReturn(fs[m])
            \/ Kind[fs[m].node] \in Computing /\ fs[m].node \in g.simple
<1>1. PICK r \in 1..m : IsReturn(fs[r]) /\ Simply(fs, r, m, g)
  BY DEF Giving
<1>2. r # 1
  <2>1. ASSUME r = 1 PROVE LineFrame(fs[r])
    BY <2>1 DEF Linked, Link, Proper
  <2> QED BY <1>1, <2>1 DEF LineFrame, IsReturn
<1>3. m > 1 /\ m # 1
  BY <1>2
<1>4. Link(fs, m, g)
  BY DEF Linked
<1>5. r = m \/ m \in (r + 1)..m
  OBVIOUS
<1> QED BY <1>1, <1>3, <1>4, <1>5 DEF Link, Proper, Simply

(* The handler at the top of fs goes on as the one at the top of gs, after it has
   visited the node n. *)
Onward(fs, gs, m, n, g) ==
  /\ \A k \in 1..(m - 1) : gs[k] = fs[k]
  /\ gs[m].node = fs[m].node /\ gs[m].base = fs[m].base /\ gs[m].cause = fs[m].cause
  /\ gs[m].base \in Nat /\ Proper(gs[m], m)
  /\ fs[m].phase # "print" /\ Resting(fs[m])
  /\ Have(fs[m]) = Below(gs[m])
  /\ IsReturn(gs[m]) <=> IsReturn(fs[m])
  /\ Visits(gs, m, n, g)

(* What is visited for the value of a return is simple. *)
LEMMA SimpleVisit ==
  ASSUME NEW gs, NEW m, NEW n, NEW g, InnerFrame(gs[m]), Visits(gs, m, n, g),
         IsReturn(gs[m]) \/ (Kind[gs[m].node] \in Computing /\ gs[m].node \in g.simple)
  PROVE  n \in g.simple
<1>1. CASE IsReturn(gs[m])
  BY <1>1 DEF IsReturn, Visits, WantsValue, WantsSimple, Computing
<1>2. CASE Kind[gs[m].node] \in Computing /\ gs[m].node \in g.simple
  <2>1. gs[m].phase \notin {"print", "test", "then", "else", "flags"}
    BY <1>2 DEF InnerFrame, PhasesOf, Kinds, Leaves, Computing
  <2> QED BY <1>2, <2>1 DEF Visits, WantsSimple, Computing
<1> QED BY <1>1, <1>2

LEMMA OnwardKeeps ==
  ASSUME NEW fs, NEW gs, NEW m \in Nat \ {0}, NEW v, NEW h, NEW n, NEW g,
         Linked(fs, m, g), Mode(fs, m, v, h, g), Onward(fs, gs, m, n, g)
  PROVE  /\ Linked(gs, m, g)
         /\ v = gs[m].base + Below(gs[m])
         /\ \/ h = Clear /\ NoReturn(gs, m) /\ Unmarked(gs, m)
            \/ h = Only("is_return") /\ Giving(gs, m, g) /\ n \in g.simple
<1>1. /\ Stacked(fs[m], v)
      /\ \/ h = Clear /\ Calm(fs, m, g)
         \/ h = Only("is_return") /\ Giving(fs, m, g)
  BY NoLeap DEF Onward
<1>2. Linked(gs, m, g)
  <2>1. Alike(fs, gs, m - 1)
    BY DEF Onward, Alike, Twin
  <2> QED BY <2>1, LinkedPut DEF Onward
<1>3. v = gs[m].base + Below(gs[m])
  BY <1>1 DEF Stacked, Onward
<1>4. \A k \in 1..m : /\ gs[k].node = fs[k].node /\ gs[k].cause = fs[k].cause
                      /\ IsReturn(gs[k]) <=> IsReturn(fs[k])
  <2>1. \A k \in 1..m : k \in 1..(m - 1) \/ k = m
    OBVIOUS
  <2> QED BY <2>1 DEF Onward
<1>5. CASE h = Clear /\ Calm(fs, m, g)
  BY <1>2, <1>3, <1>4, <1>5 DEF Calm, NoReturn, Unmarked
<1>6. CASE h = Only("is_return") /\ Giving(fs, m, g)
  <2>1. \A r \in 1..m : Simply(fs, r, m, g) => Simply(gs, r, m, g)
    <3>1. \A r \in 1..m : \A j \in (r + 1)..m : j \in 1..m
      OBVIOUS
    <3> QED BY <1>4, <3>1 DEF Simply
  <2>2. Giving(gs, m, g)
    BY <1>4, <1>6, <2>1 DEF Giving, Unmarked
  <2>3. n \in g.simple
    BY <1>2, <2>2, GivingTop, SimpleVisit DEF Onward
  <2> QED BY <1>2, <1>3, <1>6, <2>2, <2>3
<1> QED BY <1>1, <1>5, <1>6

(* A handler is begun. *)
LEMMA PushGood ==
  ASSUME NEW fs, NEW gs, NEW m \in Nat \ {0}, NEW v \in Nat, NEW h, NEW n \in Node, NEW g,
         Grammar(g), Linked(fs, m, g), Mode(fs, m, v, h, g), Onward(fs, gs, m, n, g),
         Kind[n] \notin Leaves, gs[m + 1].node = n, gs[m + 1].phase = First[Kind[n]],
         gs[m + 1].i = 1, gs[m + 1].base = v, gs[m + 1].cause = "none"
  PROVE  Linked(gs, m + 1, g) /\ Mode(gs, m + 1, v, h, g)
<1>1. /\ Linked(gs, m, g)
      /\ v = gs[m].base + Below(gs[m])
      /\ \/ h = Clear /\ NoReturn(gs, m) /\ Unmarked(gs, m)
         \/ h = Only("is_return") /\ Giving(gs, m, g) /\ n \in g.simple
  BY OnwardKeeps
<1>2. Kind[n] \in Kinds \ Leaves
  BY TraverseAssumption
<1>3. /\ First[Kind[n]] \in PhasesOf[Kind[n]]
      /\ First[Kind[n]] \in {"left", "right", "cond", "test", "init", "raise", "args",
                             "elems"}
      /\ First[Kind[n]] = "right" => Kind[n] # "op"
      /\ Kind[n] = "call" => First[Kind[n]] = "args"
  BY <1>2 DEF First, PhasesOf, Kinds, Leaves, Computing
<1>4. InnerFrame(gs[m + 1])
  BY <1>2, <1>3 DEF InnerFrame
<1>5. Linked(gs, m + 1, g)
  BY <1>1, <1>4, LinkedPush DEF Onward
<1>6. /\ ~IsReturn(gs[m + 1]) /\ ~MustReturn(gs[m + 1], g)
      /\ Have(gs[m + 1]) = 0 /\ gs[m + 1].phase # "print"
  BY <1>3 DEF IsReturn, MustReturn, EndedIf, Catches, Have, WantsValue
<1>7. Stacked(gs[m + 1], v)
  BY <1>6 DEF Stacked
<1>8. \A k \in 1..(m + 1) : k \in 1..m \/ k = m + 1
  OBVIOUS
<1>9. Unmarked(gs, m) => Unmarked(gs, m + 1)
  BY <1>8 DEF Unmarked
<1>10. CASE h = Clear /\ NoReturn(gs, m) /\ Unmarked(gs, m)
  <2>1. NoReturn(gs, m + 1)
    BY <1>6, <1>8, <1>10 DEF NoReturn
  <2> QED BY <1>5, <1>6, <1>7, <1>9, <1>10, <2>1 DEF Mode, Calm
<1>11. CASE h = Only("is_return") /\ Giving(gs, m, g) /\ n \in g.simple
  <2>1. Kind[n] \in Computing
    BY <1>2, <1>11, GrammarKinds DEF Leaves, Computing
  <2>2. \A r \in 1..m : Simply(gs, r, m, g) => Simply(gs, r, m + 1, g)
    <3>1. \A r \in 1..m : \A j \in (r + 1)..(m + 1) : j \in (r + 1)..m \/ j = m + 1
      OBVIOUS
    <3> QED BY <1>11, <2>1, <3>1 DEF Simply
  <2>3. \A r \in 1..m : r \in 1..(m + 1)
    OBVIOUS
  <2>4. Giving(gs, m + 1, g)
    BY <1>6, <1>8, <1>9, <1>11, <2>2, <2>3 DEF Giving
  <2> QED BY <1>5, <1>7, <1>11, <2>4 DEF Mode
<1> QED BY <1>1, <1>10, <1>11


(* A node that is no handler of its own is visited: nothing is left by an empty
   statement, one value by an expression, a jump by break and continue. *)
LEMMA StubGood ==
  ASSUME NEW fs, NEW gs, NEW m \in Nat \ {0}, NEW v \in Nat, NEW h, NEW n, NEW g,
         Grammar(g), Linked(fs, m, g), Mode(fs, m, v, h, g), Onward(fs, gs, m, n, g),
         Kind[n] = "stub"
  PROVE  Linked(gs, m, g) /\ Mode(gs, m, v, h, g)
<1>1. n \notin g.values /\ n \notin g.simple /\ n \notin g.returning
  BY GrammarKinds DEF Computing
<1>2. /\ Linked(gs, m, g)
      /\ v = gs[m].base + Below(gs[m])
      /\ h = Clear /\ NoReturn(gs, m) /\ Unmarked(gs, m)
  BY <1>1, OnwardKeeps
<1>3. gs[m].phase \in {"print", "test", "then", "else", "flags"} /\ ~MustReturn(gs[m], g)
  BY <1>1 DEF Onward, Visits, MustReturn, EndedIf, Catches
<1>4. Stacked(gs[m], v)
  <2>1. Below(gs[m]) = 0 /\ Have(gs[m]) = 0
    BY <1>3 DEF Below, Have, WantsValue
  <2>2. gs[m].phase = "print" => gs[m].base = 0
    BY DEF Onward, Proper, LineFrame, InnerFrame, PhasesOf, Kinds, Leaves, Computing
  <2> QED BY <1>2, <2>1, <2>2 DEF Stacked
<1> QED BY <1>2, <1>3, <1>4 DEF Mode, Calm

LEMMA ExpressionGood ==
  ASSUME NEW fs, NEW gs, NEW m \in Nat \ {0}, NEW v \in Nat, NEW h, NEW n, NEW g,
         Grammar(g), Linked(fs, m, g), Mode(fs, m, v, h, g), Onward(fs, gs, m, n, g),
         Kind[n] \in {"const", "id"}
  PROVE  Linked(gs, m, g) /\ Mode(gs, m, v + 1, h, g)
<1>1. n \notin g.plain /\ n \notin g.inLoop /\ n \notin g.inFunction
  BY GrammarKinds
<1>2. /\ Linked(gs, m, g)
      /\ v = gs[m].base + Below(gs[m])
      /\ \/ h = Clear /\ NoReturn(gs, m) /\ Unmarked(gs, m)
         \/ h = Only("is_return") /\ Giving(gs, m, g)
  BY OnwardKeeps
<1>3. WantsValue(gs[m]) \/ gs[m].phase = "print"
  BY <1>1 DEF Onward, Visits, Statement
<1>4. ~MustReturn(gs[m], g)
  BY <1>3 DEF MustReturn, EndedIf, Catches, WantsValue
<1>5. Stacked(gs[m], v + 1)
  <2>1. CASE gs[m].phase = "print"
    <3>1. gs[m].base = 0 /\ Below(gs[m]) = 0
      BY <2>1 DEF Onward, Proper, LineFrame, InnerFrame, PhasesOf, Kinds, Leaves, Below, Computing
    <3> QED BY <1>2, <2>1, <3>1 DEF Stacked
  <2>2. CASE gs[m].phase # "print"
    <3>1. Have(gs[m]) = Below(gs[m]) + 1 /\ Below(gs[m]) \in {0, 1}
      BY <1>3, <2>2 DEF Have, Below
    <3>2. v + 1 = gs[m].base + (Below(gs[m]) + 1)
      BY <1>2, <3>1 DEF Onward
    <3> QED BY <2>2, <3>1, <3>2 DEF Stacked
  <2> QED BY <2>1, <2>2
<1> QED BY <1>2, <1>4, <1>5 DEF Mode, Calm

(* Only the handler that the jump comes to is marked, or a loop in the function
   that a return leaves: there is none when every block above is at its end. *)
LEMMA MarkLeaps ==
  ASSUME NEW fs \in Seq(Frame), NEW m \in Nat \ {0}, Len(fs) = m,
         NoReturn(fs, m), Unmarked(fs, m), NEW kinds, NEW cause,
         \/ kinds = Loops /\ cause = "break"
         \/ kinds = {"call"} /\ cause = "return",
         Reaches(fs, m, kinds)
  PROVE  Leaping(Mark(fs, cause), m, kinds)
<1> DEFINE gs == Mark(fs, cause)
<1>1. PICK c \in 1..m : LeadsTo(fs, m, c, kinds)
  BY DEF Reaches
<1>2. /\ DOMAIN fs = 1..m
      /\ \A k \in 1..m :
           /\ gs[k].node = fs[k].node /\ gs[k].phase = fs[k].phase
           /\ gs[k].i = fs[k].i /\ gs[k].base = fs[k].base
           /\ gs[k].cause = IF k \in Ended(fs, cause) THEN cause ELSE fs[k].cause
  BY MarkIs
<1>3. Alike(fs, gs, m)
  BY <1>2 DEF Alike, Twin
<1>4. NoReturn(gs, m)
  BY <1>3, TwinIs DEF NoReturn, Alike
<1>5. LeadsTo(gs, m, c, kinds)
  <2>1. \A j \in (c + 1)..m : j \in 1..m
    OBVIOUS
  <2> QED BY <1>1, <1>3, <2>1, TwinIs DEF LeadsTo, Alike
<1>6. ASSUME NEW k \in 1..m, gs[k].cause # "none" PROVE k = c
  <2>1. k \in Ended(fs, cause)
    BY <1>2, <1>6 DEF Unmarked
  <2>2. Catches(fs[c], kinds) /\ \A j \in (c + 1)..m : EndedIf(fs[j])
    BY <1>1 DEF LeadsTo
  <2>3. ASSUME NEW ks, "if" \notin ks, NEW j \in Inside(fs, ks) PROVE j \in 1..m /\ j <= c
    <3>1. j \in 1..m /\ Kind[fs[j].node] # "if"
      BY <1>2, <2>3 DEF Inside
    <3>2. j \notin (c + 1)..m
      BY <2>2, <3>1 DEF EndedIf
    <3> QED BY <3>1, <3>2
  <2>4. ASSUME NEW ks, kinds \subseteq ks PROVE c \in Inside(fs, ks)
    BY <1>2, <2>2, <2>4 DEF Inside, Catches
  <2>5. ASSUME NEW ks, kinds \subseteq ks, "if" \notin ks, NEW j \in Innermost(fs, ks)
        PROVE  j = c
    <3>1. j \in Inside(fs, ks) /\ c <= j
      BY <2>4, <2>5 DEF Innermost
    <3>2. j \in 1..m /\ j <= c
      BY <2>3, <2>5, <3>1
    <3> QED BY <3>1, <3>2
  <2>6. CASE kinds = Loops /\ cause = "break"
    <3>1. k \in Innermost(fs, Loops \cup {"call"})
      BY <2>1, <2>6 DEF Ended
    <3> QED BY <2>5, <2>6, <3>1 DEF Loops
  <2>7. CASE kinds = {"call"} /\ cause = "return"
    <3>1. PICK j \in Innermost(fs, {"call"}) : k = j \/ (k > j /\ k \in Inside(fs, Loops))
      BY <2>1, <2>7 DEF Ended
    <3>2. j = c
      BY <2>5, <2>7
    <3>3. k \in Inside(fs, Loops) => k <= c
      BY <2>3 DEF Loops
    <3> QED BY <3>1, <3>2, <3>3
  <2> QED BY <2>6, <2>7
<1> HIDE DEF gs
<1>7. Leaping(gs, m, kinds)
  BY <1>4, <1>5, <1>6 DEF Leaping
<1> QED BY <1>7 DEF gs

LEMMA JumpVisit ==
  ASSUME NEW fs, NEW gs, NEW m \in Nat \ {0}, NEW v \in Nat, NEW h, NEW n, NEW g,
         Grammar(g), Linked(fs, m, g), Mode(fs, m, v, h, g), Onward(fs, gs, m, n, g),
         Kind[n] \in {"break", "continue"}
  PROVE  /\ Linked(gs, m, g) /\ h = Clear /\ NoReturn(gs, m) /\ Unmarked(gs, m)
         /\ Reaches(gs, m, Loops) /\ ~MustReturn(gs[m], g) /\ v = gs[m].base
<1>1. /\ n \notin g.values /\ n \notin g.simple /\ n \notin g.plain
      /\ n \notin g.inFunction /\ n \notin g.returning
  BY GrammarKinds DEF Computing
<1>2. /\ Linked(gs, m, g)
      /\ v = gs[m].base + Below(gs[m])
      /\ h = Clear /\ NoReturn(gs, m) /\ Unmarked(gs, m)
  BY <1>1, OnwardKeeps
<1>3. /\ gs[m].phase \in {"then", "else", "flags"}
      /\ Reaches(gs, m, Loops) /\ ~MustReturn(gs[m], g)
  BY <1>1 DEF Onward, Visits, Statement
<1>4. v = gs[m].base
  BY <1>2, <1>3 DEF Below, Onward
<1> QED BY <1>2, <1>3, <1>4

LEMMA ContinueGood ==
  ASSUME NEW fs, NEW gs, NEW m \in Nat \ {0}, NEW v \in Nat, NEW h, NEW n, NEW g,
         Grammar(g), Linked(fs, m, g), Mode(fs, m, v, h, g), Onward(fs, gs, m, n, g),
         Kind[n] = "continue"
  PROVE  h = Clear /\ Linked(gs, m, g) /\ Mode(gs, m, v, Only("is_continue"), g)
<1>1. /\ Linked(gs, m, g) /\ h = Clear /\ NoReturn(gs, m) /\ Unmarked(gs, m)
      /\ Reaches(gs, m, Loops) /\ ~MustReturn(gs[m], g) /\ v = gs[m].base
  BY JumpVisit
<1>2. Leaping(gs, m, Loops)
  BY <1>1 DEF Leaping, Reaches, Unmarked
<1> QED BY <1>1, <1>2 DEF Mode

LEMMA BreakGood ==
  ASSUME NEW fs, NEW gs \in Seq(Frame), NEW m \in Nat \ {0}, Len(gs) = m,
         NEW v \in Nat, NEW h, NEW n, NEW g,
         Grammar(g), Linked(fs, m, g), Mode(fs, m, v, h, g), Onward(fs, gs, m, n, g),
         Kind[n] = "break"
  PROVE  /\ h = Clear /\ Linked(Mark(gs, "break"), m, g)
         /\ Mode(Mark(gs, "break"), m, v, Only("is_break"), g)
<1> DEFINE ks == Mark(gs, "break")
<1>1. /\ Linked(gs, m, g) /\ h = Clear /\ NoReturn(gs, m) /\ Unmarked(gs, m)
      /\ Reaches(gs, m, Loops) /\ ~MustReturn(gs[m], g) /\ v = gs[m].base
  BY JumpVisit
<1>2. Leaping(ks, m, Loops)
  BY <1>1, MarkLeaps
<1>3. Alike(gs, ks, m) /\ Twin(gs[m], ks[m])
  BY MarkIs DEF Alike, Twin
<1> HIDE DEF ks
<1>4. Linked(ks, m, g) /\ ~MustReturn(ks[m], g) /\ v = ks[m].base
  BY <1>1, <1>3, AlikeLinked, TwinIs
<1>5. Mode(ks, m, v, Only("is_break"), g)
  BY <1>2, <1>4, Counters DEF Mode
<1> QED BY <1>1, <1>4, <1>5 DEF ks


(* The handler below one that ends finds the value it has been waiting for, or
   waits for none. *)
Based(fs, m) == \A k \in 1..m : fs[k].base \in Nat

IsExpression(n) == Kind[n] \in Computing \/ (Kind[n] = "call" /\ Kids[n] # <<>>)

LEMMA Parent ==
  ASSUME NEW fs, NEW m \in Nat, m > 1, NEW g, Linked(fs, m, g), Based(fs, m)
  PROVE  /\ m - 1 \in Nat \ {0} /\ m - 1 \in 1..m /\ m \in 1..m
         /\ \A k \in 1..(m - 1) : k \in 1..m
         /\ Linked(fs, m - 1, g) /\ Proper(fs[m - 1], m - 1) /\ InnerFrame(fs[m])
         /\ fs[m].base = fs[m - 1].base + Below(fs[m - 1])
         /\ fs[m].base \in Nat /\ fs[m - 1].base \in Nat
         /\ Visits(fs, m - 1, fs[m].node, g)
<1>1. /\ m - 1 \in Nat \ {0} /\ m - 1 \in 1..m /\ m \in 1..m /\ m # 1
      /\ \A k \in 1..(m - 1) : k \in 1..m
  OBVIOUS
<1>2. Link(fs, m, g) /\ Link(fs, m - 1, g)
  BY <1>1 DEF Linked
<1>3. Linked(fs, m - 1, g)
  BY LinkedPop
<1> QED BY <1>1, <1>2, <1>3 DEF Link, Proper, Based

LEMMA ParentOfExpression ==
  ASSUME NEW fs, NEW m \in Nat, m > 1, NEW g, Grammar(g), Linked(fs, m, g), Based(fs, m),
         IsExpression(fs[m].node)
  PROVE  Stacked(fs[m - 1], fs[m].base + 1) /\ ~MustReturn(fs[m - 1], g)
<1> DEFINE n == fs[m].node
           t == fs[m - 1]
<1>1. /\ Proper(t, m - 1) /\ fs[m].base = t.base + Below(t)
      /\ fs[m].base \in Nat /\ t.base \in Nat
      /\ Visits(fs, m - 1, n, g)
  BY Parent
<1>2. n \notin g.plain /\ n \notin g.inLoop /\ n \notin g.inFunction
  BY GrammarKinds DEF IsExpression, Computing
<1>3. WantsValue(t) \/ t.phase = "print"
  BY <1>1, <1>2 DEF Visits, Statement
<1>4. ~MustReturn(t, g)
  BY <1>3 DEF MustReturn, EndedIf, Catches, WantsValue
<1>5. t.phase = "print" => t.base = 0 /\ Below(t) = 0
  BY <1>1 DEF Proper, LineFrame, InnerFrame, PhasesOf, Kinds, Leaves, Below, Computing
<1>6. Below(t) \in Nat /\ (WantsValue(t) => Have(t) = Below(t) + 1)
  BY DEF Below, Have
<1> HIDE DEF n, t
<1>7. Stacked(t, fs[m].base + 1)
  <2>1. t.phase = "print" => fs[m].base + 1 <= 1
    BY <1>1, <1>5
  <2>2. WantsValue(t) => fs[m].base + 1 = t.base + Have(t)
    BY <1>1, <1>6
  <2> QED BY <1>3, <2>1, <2>2 DEF Stacked
<1> QED BY <1>4, <1>7 DEF t

LEMMA ParentOfStatement ==
  ASSUME NEW fs, NEW m \in Nat, m > 1, NEW g, Grammar(g), Linked(fs, m, g), Based(fs, m),
         ~IsExpression(fs[m].node)
  PROVE  /\ Stacked(fs[m - 1], fs[m].base)
         /\ MustReturn(fs[m - 1], g) => fs[m].node \in g.returning
         /\ fs[m - 1].phase \in {"print", "test", "then", "else", "flags"}
         /\ \/ fs[m].node \in g.plain
            \/ fs[m].node \in g.inLoop /\ Reaches(fs, m - 1, Loops)
            \/ fs[m].node \in g.inFunction /\ Reaches(fs, m - 1, {"call"})
<1> DEFINE n == fs[m].node
           t == fs[m - 1]
<1>1. /\ Proper(t, m - 1) /\ fs[m].base = t.base + Below(t)
      /\ fs[m].base \in Nat /\ t.base \in Nat
      /\ InnerFrame(fs[m]) /\ Visits(fs, m - 1, n, g)
  BY Parent
<1>2. n \notin g.values
  BY <1>1, GrammarKinds DEF IsExpression, InnerFrame, Leaves, Computing
<1>3. /\ t.phase \in {"print", "test", "then", "else", "flags"}
      /\ MustReturn(t, g) => n \in g.returning
      /\ \/ n \in g.plain
         \/ n \in g.inLoop /\ Reaches(fs, m - 1, Loops)
         \/ n \in g.inFunction /\ Reaches(fs, m - 1, {"call"})
  BY <1>1, <1>2 DEF Visits, Statement, MustReturn, EndedIf, Catches
<1>4. Below(t) = 0 /\ Have(t) = 0
  BY <1>3 DEF Below, Have, WantsValue
<1>5. t.phase = "print" => t.base = 0
  BY <1>1 DEF Proper, LineFrame, InnerFrame, PhasesOf, Kinds, Leaves, Computing
<1> HIDE DEF n, t
<1>6. Stacked(t, fs[m].base)
  BY <1>1, <1>4, <1>5 DEF Stacked
<1> QED BY <1>3, <1>6 DEF n, t

(* A handler ends: an expression with its value, a statement without. *)
LEMMA PopExpression ==
  ASSUME NEW fs, NEW m \in Nat, m > 1, NEW g, Grammar(g), Linked(fs, m, g), Based(fs, m),
         IsExpression(fs[m].node), NoReturn(fs, m), Unmarked(fs, m - 1)
  PROVE  Linked(fs, m - 1, g) /\ Mode(fs, m - 1, fs[m].base + 1, Clear, g)
<1>1. Stacked(fs[m - 1], fs[m].base + 1) /\ ~MustReturn(fs[m - 1], g)
  BY ParentOfExpression
<1>2. NoReturn(fs, m - 1)
  BY Parent DEF NoReturn
<1> QED BY <1>1, <1>2, Parent DEF Mode, Calm

LEMMA PopStatement ==
  ASSUME NEW fs, NEW m \in Nat, m > 1, NEW g, Grammar(g), Linked(fs, m, g), Based(fs, m),
         ~IsExpression(fs[m].node), fs[m].node \notin g.returning,
         NoReturn(fs, m), Unmarked(fs, m - 1)
  PROVE  Linked(fs, m - 1, g) /\ Mode(fs, m - 1, fs[m].base, Clear, g)
<1>1. Stacked(fs[m - 1], fs[m].base) /\ ~MustReturn(fs[m - 1], g)
  BY ParentOfStatement
<1>2. NoReturn(fs, m - 1)
  BY Parent DEF NoReturn
<1> QED BY <1>1, <1>2, Parent DEF Mode, Calm

(* A computation ends in the value of a return. *)
LEMMA PopGiving ==
  ASSUME NEW fs, NEW m \in Nat, m > 1, NEW g, Grammar(g), Linked(fs, m, g), Based(fs, m),
         Kind[fs[m].node] \in Computing, Giving(fs, m, g)
  PROVE  Linked(fs, m - 1, g) /\ Mode(fs, m - 1, fs[m].base + 1, Only("is_return"), g)
<1>1. Stacked(fs[m - 1], fs[m].base + 1)
  BY ParentOfExpression DEF IsExpression, Computing
<1>2. /\ m - 1 \in 1..m /\ \A k \in 1..(m - 1) : k \in 1..m
      /\ \A k \in 1..m : k \in 1..(m - 1) \/ k = m
      /\ \A r \in 1..m : \A j \in (r + 1)..(m - 1) : j \in (r + 1)..m
  OBVIOUS
<1>3. \A r \in 1..m : Simply(fs, r, m, g) => Simply(fs, r, m - 1, g)
  BY <1>2 DEF Simply
<1>4. ~IsReturn(fs[m])
  BY DEF IsReturn, Computing
<1>5. Unmarked(fs, m - 1)
  BY <1>2 DEF Giving, Unmarked
<1>6. PICK r \in 1..m : IsReturn(fs[r])
  BY DEF Giving
<1>7. r \in 1..(m - 1)
  BY <1>2, <1>4, <1>6
<1>8. \A q \in 1..(m - 1) : IsReturn(fs[q]) => Simply(fs, q, m - 1, g)
  BY <1>2, <1>3 DEF Giving
<1>9. Giving(fs, m - 1, g)
  BY <1>5, <1>6, <1>7, <1>8 DEF Giving
<1> QED BY <1>1, <1>9, Parent DEF Mode

(* A jump leaves a block at its end. *)
LEMMA PopLeap ==
  ASSUME NEW fs, NEW m \in Nat, m > 1, NEW v, NEW h, NEW g, Grammar(g), Linked(fs, m, g),
         Based(fs, m), EndedIf(fs[m]), Mode(fs, m, v, h, g), h # Clear
  PROVE  Linked(fs, m - 1, g) /\ Mode(fs, m - 1, v, h, g)
<1>1. Kind[fs[m].node] = "if"
  BY DEF EndedIf
<1>2. /\ Stacked(fs[m - 1], fs[m].base)
      /\ MustReturn(fs[m - 1], g) => MustReturn(fs[m], g)
      /\ fs[m - 1].phase \in {"print", "test", "then", "else", "flags"}
  BY <1>1, ParentOfStatement DEF IsExpression, MustReturn, Computing
<1>3. /\ m - 1 \in 1..m /\ \A k \in 1..(m - 1) : k \in 1..m
      /\ \A c \in 1..m : \A j \in (c + 1)..(m - 1) : j \in (c + 1)..m
  OBVIOUS
<1>4. ~Giving(fs, m, g)
  BY <1>1, GivingTop DEF IsReturn, Computing
<1>5. ASSUME NEW kinds \in {Loops, {"call"}}, Leaping(fs, m, kinds)
      PROVE  Leaping(fs, m - 1, kinds) /\ fs[m - 1].phase \in {"then", "else", "flags"}
  <2>1. PICK c \in 1..m : /\ LeadsTo(fs, m, c, kinds)
                          /\ \A k \in 1..m : fs[k].cause # "none" => k = c
    BY <1>5 DEF Leaping
  <2>2. c # m
    BY <1>1, <1>5, <2>1 DEF LeadsTo, Catches, Loops
  <2>3. c \in 1..(m - 1) /\ LeadsTo(fs, m - 1, c, kinds)
    BY <1>3, <2>1, <2>2 DEF LeadsTo
  <2>4. Leaping(fs, m - 1, kinds)
    BY <1>3, <1>5, <2>1, <2>3 DEF Leaping, NoReturn
  <2>5. Catches(fs[m - 1], kinds) \/ EndedIf(fs[m - 1])
    BY <2>3, LeapingTop, Parent
  <2> QED BY <2>4, <2>5 DEF Catches, EndedIf
<1>6. Unmarked(fs, m) => Unmarked(fs, m - 1)
  BY <1>3 DEF Unmarked
<1>7. fs[m - 1].phase \in {"then", "else", "flags"} => fs[m].base = fs[m - 1].base
  <2>1. fs[m - 1].phase \in {"then", "else", "flags"} => Below(fs[m - 1]) = 0
    BY DEF Below
  <2> QED BY <2>1, Parent
<1>8. Linked(fs, m - 1, g)
  BY Parent
<1> QED BY <1>2, <1>4, <1>5, <1>6, <1>7, <1>8 DEF Mode

(* The handler goes on without a visit. *)
LEMMA GoOnGood ==
  ASSUME NEW fs, NEW gs, NEW m \in Nat \ {0}, NEW g, Linked(fs, m, g),
         NoReturn(fs, m), Unmarked(fs, m),
         \A k \in 1..(m - 1) : gs[k] = fs[k],
         gs[m].node = fs[m].node, gs[m].base = fs[m].base, gs[m].cause = fs[m].cause,
         Proper(gs[m], m), ~IsReturn(gs[m]), ~MustReturn(gs[m], g), gs[m].phase # "print"
  PROVE  Linked(gs, m, g) /\ Mode(gs, m, gs[m].base + Have(gs[m]), Clear, g)
<1>1. Linked(gs, m, g)
  <2>1. Alike(fs, gs, m - 1)
    BY DEF Alike, Twin
  <2> QED BY <2>1, LinkedPut
<1>2. \A k \in 1..m : k \in 1..(m - 1) \/ k = m
  OBVIOUS
<1>3. NoReturn(gs, m)
  BY <1>2 DEF NoReturn
<1>4. Unmarked(gs, m)
  BY <1>2 DEF Unmarked
<1> QED BY <1>1, <1>3, <1>4 DEF Mode, Calm, Stacked

(* The same while the value of a return is evaluated. *)
LEMMA GoOnGiving ==
  ASSUME NEW fs, NEW gs, NEW m \in Nat \ {0}, NEW g, Linked(fs, m, g), Giving(fs, m, g),
         \A k \in 1..(m - 1) : gs[k] = fs[k],
         gs[m].node = fs[m].node, gs[m].base = fs[m].base, gs[m].cause = fs[m].cause,
         Proper(gs[m], m), IsReturn(gs[m]) <=> IsReturn(fs[m]), gs[m].phase # "print"
  PROVE  Linked(gs, m, g) /\ Mode(gs, m, gs[m].base + Have(gs[m]), Only("is_return"), g)
<1>1. Linked(gs, m, g)
  <2>1. Alike(fs, gs, m - 1)
    BY DEF Alike, Twin
  <2> QED BY <2>1, LinkedPut
<1>2. \A k \in 1..m : /\ gs[k].node = fs[k].node /\ gs[k].cause = fs[k].cause
                      /\ IsReturn(gs[k]) <=> IsReturn(fs[k])
  <2>1. \A k \in 1..m : k \in 1..(m - 1) \/ k = m
    OBVIOUS
  <2> QED BY <2>1
<1>3. \A r \in 1..m : Simply(fs, r, m, g) => Simply(gs, r, m, g)
  <2>1. \A r \in 1..m : \A j \in (r + 1)..m : j \in 1..m
    OBVIOUS
  <2> QED BY <1>2, <2>1 DEF Simply
<1>4. Giving(gs, m, g)
  BY <1>2, <1>3 DEF Giving, Unmarked
<1> QED BY <1>1, <1>4 DEF Mode, Stacked


-----------------------------------------------------------------------------
(* The inductive invariant of the programs of a grammar that run without errors:
   every handler is in progress for a node its caller may visit, at most one jump
   is on its way, to a handler that is there, and the evaluation stack holds just
   the values that the handlers in progress have asked for. *)
PInv(g) ==
  Typed(errors) /\ ~errors /\ ~crashed /\ Good(frames, Len(list), helper, g)

GoodNext(g) == ~errors' /\ ~crashed' /\ Good(frames', Len(list'), helper', g)

LEMMA Present ==
  ASSUME NEW g, PInv(g), frames # <<>>
  PROVE  /\ Len(frames) \in Nat \ {0} /\ frames \in Seq(Frame)
         /\ Linked(frames, Len(frames), g)
         /\ Mode(frames, Len(frames), Len(list), helper, g)
         /\ Based(frames, Len(frames))
         /\ Len(list) \in Nat
         /\ Fr \in Frame /\ Fr = frames[Len(frames)] /\ Fr.i \in Nat \ {0} /\ Fr.base \in Nat
         /\ Fr.node \in Node /\ Proper(Fr, Len(frames))
         /\ Fr.phase \notin {"line", "print"} => Len(frames) > 1 /\ InnerFrame(Fr)
         /\ ~errors /\ ~crashed
<1>1. TypeOK /\ Entered(frames, errors)
  BY DEF PInv, Typed
<1>2. /\ Len(frames) \in Nat \ {0} /\ frames \in Seq(Frame) /\ Fr \in Frame
      /\ Fr = frames[Len(frames)] /\ Len(frames) \in 1..Len(frames)
      /\ DOMAIN frames = 1..Len(frames)
  BY <1>1, TopFrame
<1>3. Linked(frames, Len(frames), g) /\ Mode(frames, Len(frames), Len(list), helper, g)
  BY DEF PInv, Good
<1>4. Based(frames, Len(frames))
  <2>1. \A k \in 1..Len(frames) : frames[k] \in Frame
    BY <1>2, ElementOfSeq
  <2>2. \A k \in 1..Len(frames) : frames[k].base \in 0..MaxList
    BY <2>1 DEF Frame
  <2> QED BY <2>2, TraverseAssumption DEF Based
<1>5. Fr.i \in Nat \ {0} /\ Fr.node \in Node /\ Fr.base \in Nat
  <2>1. Fr.i # 0
    BY <1>1, <1>2 DEF Entered
  <2> QED BY <1>2, <1>4, <2>1 DEF Frame, Based
<1>6. Proper(Fr, Len(frames))
  BY <1>2, <1>3 DEF Linked, Link
<1>7. Fr.phase \notin {"line", "print"} => Len(frames) > 1 /\ InnerFrame(Fr)
  BY <1>2, <1>6 DEF Proper, LineFrame
<1>8. Len(list) \in Nat
  BY <1>1, ListFacts
<1> QED BY <1>2, <1>3, <1>4, <1>5, <1>6, <1>7, <1>8 DEF PInv

LEMMA GoodIs ==
  ASSUME NEW gs \in Seq(Frame), NEW m \in Nat \ {0}, Len(gs) = m, NEW v, NEW h, NEW g,
         Linked(gs, m, g), Mode(gs, m, v, h, g)
  PROVE  Good(gs, v, h, g)
<1>1. gs # <<>>
  BY EmptySeq
<1> QED BY <1>1 DEF Good

(* The mode depends on the handlers only. *)
LEMMA SameMode ==
  ASSUME NEW fs, NEW gs, NEW m \in Nat \ {0}, \A k \in 1..m : gs[k] = fs[k],
         NEW v, NEW h, NEW g, Linked(fs, m, g), Mode(fs, m, v, h, g)
  PROVE  Linked(gs, m, g) /\ Mode(gs, m, v, h, g)
<1>1. Linked(gs, m, g)
  <2>1. Alike(fs, gs, m)
    BY DEF Alike, Twin
  <2> QED BY <2>1, AlikeLinked
<1>2. m \in 1..m /\ \A c \in 1..m : \A j \in (c + 1)..m : j \in 1..m
  OBVIOUS
<1>3. /\ gs[m] = fs[m]
      /\ NoReturn(fs, m) => NoReturn(gs, m)
      /\ Unmarked(fs, m) => Unmarked(gs, m)
  BY <1>2 DEF NoReturn, Unmarked
<1>4. \A r \in 1..m : Simply(fs, r, m, g) => Simply(gs, r, m, g)
  BY <1>2 DEF Simply
<1>5. Giving(fs, m, g) => Giving(gs, m, g)
  BY <1>3, <1>4 DEF Giving
<1>6. \A kinds : \A c \in 1..m : LeadsTo(fs, m, c, kinds) => LeadsTo(gs, m, c, kinds)
  BY <1>2 DEF LeadsTo
<1>7. \A kinds : Leaping(fs, m, kinds) => Leaping(gs, m, kinds)
  BY <1>3, <1>6 DEF Leaping
<1> QED BY <1>1, <1>3, <1>5, <1>7 DEF Mode, Calm

(* The stack of handlers after a step. *)
LEMMA PutNext ==
  ASSUME NEW g, PInv(g), frames # <<>>, NEW fr \in Frame
  PROVE  /\ Put(frames, fr) \in Seq(Frame) /\ Len(Put(frames, fr)) = Len(frames)
         /\ Put(frames, fr)[Len(frames)] = fr
         /\ \A k \in 1..(Len(frames) - 1) : Put(frames, fr)[k] = frames[k]
         /\ Continue(fr) <=> frames' = Put(frames, fr)
<1>1. frames \in Seq(Frame)
  BY Present
<1> QED BY <1>1, PutProperties DEF Continue, Put

LEMMA PopNext ==
  ASSUME NEW g, PInv(g), frames # <<>>, Len(frames) > 1, NEW v, NEW h,
         Linked(frames, Len(frames) - 1, g), Mode(frames, Len(frames) - 1, v, h, g)
  PROVE  Good(Front(frames), v, h, g)
<1>1. frames \in Seq(Frame) /\ Len(frames) \in Nat \ {0}
  BY Present
<1>2. Len(frames) - 1 \in Nat \ {0}
  <2>1. \A m \in Nat : m > 1 => m - 1 \in Nat \ {0}
    OBVIOUS
  <2> QED BY <1>1, <2>1
<1>3. /\ Front(frames) \in Seq(Frame) /\ Len(Front(frames)) = Len(frames) - 1
      /\ \A k \in 1..(Len(frames) - 1) : Front(frames)[k] = frames[k]
  BY <1>1, FrontProperties
<1>4. /\ Linked(Front(frames), Len(frames) - 1, g)
      /\ Mode(Front(frames), Len(frames) - 1, v, h, g)
  BY <1>2, <1>3, SameMode
<1> QED BY <1>2, <1>3, <1>4, GoodIs

(* Whatever a handler visits leaves the invariant. *)
LEMMA VisitGood ==
  ASSUME NEW g, Grammar(g), Faults = {}, PInv(g), frames # <<>>, NEW n, NEW fr \in Frame,
         Onward(frames, Put(frames, fr), Len(frames), n, g), Visit(n, fr)
  PROVE  GoodNext(g)
<1> DEFINE m == Len(frames)
           gs == Put(frames, fr)
<1>1. /\ m \in Nat \ {0} /\ Linked(frames, m, g) /\ Len(list) \in Nat
      /\ Mode(frames, m, Len(list), helper, g) /\ ~errors /\ ~crashed /\ TypeOK
      /\ errors \in BOOLEAN /\ list \in Seq(Values)
  BY Present DEF PInv, Typed, TypeOK
<1>2. /\ gs \in Seq(Frame) /\ Len(gs) = m
      /\ Continue(fr) <=> frames' = gs
      /\ [frames EXCEPT ![Len(frames)] = fr] = gs
  BY PutNext DEF Put
<1>3. n \in Node
  <2>1. n \in g.values \cup g.plain \cup g.inLoop \cup g.inFunction
    BY GrammarKinds DEF Onward, Visits, Statement
  <2> QED BY <2>1, GrammarKinds
<1>4. n # NULL /\ Kind[n] \in Kinds
  BY <1>3, TraverseAssumption
<1> HIDE DEF m, gs
<1>5. Onward(frames, gs, m, n, g)
  BY DEF m, gs
<1>6. CASE Kind[n] \notin Leaves
  <2>1. /\ frames' = Append(gs, NewFrame(n)) /\ Len(list') = Len(list)
        /\ helper' = helper /\ ~errors' /\ ~crashed'
    BY <1>1, <1>2, <1>4, <1>6 DEF Visit
  <2>2. /\ NewFrame(n) \in Frame /\ NewFrame(n).node = n /\ NewFrame(n).i = 1
        /\ NewFrame(n).base = Len(list) /\ NewFrame(n).cause = "none"
        /\ NewFrame(n).phase = First[Kind[n]]
    BY <1>1, <1>3, <1>6, NewFrameIs
  <2> DEFINE ks == Append(gs, NewFrame(n))
  <2>3. /\ ks \in Seq(Frame) /\ Len(ks) = m + 1 /\ ks[m + 1] = NewFrame(n)
        /\ \A k \in 1..m : ks[k] = gs[k]
    BY <1>2, <2>2, AddProperties
  <2> HIDE DEF ks
  <2>4. Onward(frames, ks, m, n, g)
    <3>1. Alike(gs, ks, m)
      BY <2>3 DEF Alike, Twin
    <3>2. m \in 1..m /\ \A k \in 1..(m - 1) : k \in 1..m
      BY <1>1
    <3>3. Visits(ks, m, n, g)
      BY <1>1, <1>5, <3>1, <3>2, AlikeVisits DEF Onward
    <3> QED BY <1>5, <2>3, <3>2, <3>3 DEF Onward
  <2>5. Linked(ks, m + 1, g) /\ Mode(ks, m + 1, Len(list), helper, g)
    BY <1>1, <1>3, <1>6, <2>2, <2>3, <2>4, PushGood
  <2>6. m + 1 \in Nat \ {0}
    BY <1>1
  <2>7. Good(ks, Len(list), helper, g)
    BY <2>3, <2>5, <2>6, GoodIs
  <2> QED BY <2>1, <2>7 DEF GoodNext, ks
<1>7. CASE Kind[n] \in Leaves
  <2>1. Leaf(n, fr) /\ ~crashed'
    BY <1>1, <1>4, <1>7 DEF Visit
  <2>2. CASE Kind[n] = "stub"
    <3>1. frames' = gs /\ Len(list') = Len(list) /\ helper' = helper /\ errors' = errors
      BY <1>2, <2>1, <2>2 DEF Leaf
    <3>2. Linked(gs, m, g) /\ Mode(gs, m, Len(list), helper, g)
      BY <1>1, <1>5, <2>2, StubGood
    <3>3. Good(gs, Len(list), helper, g)
      BY <1>1, <1>2, <3>2, GoodIs
    <3> QED BY <1>1, <2>1, <3>1, <3>3 DEF GoodNext
  <2>3. CASE Kind[n] \in {"const", "id"}
    <3>1. /\ frames' = gs /\ (\E v \in Values : Push(v))
          /\ helper' = helper /\ errors' = errors
      BY <1>2, <2>1, <2>3 DEF Leaf
    <3>2. PICK v \in Values : list' = Append(list, v)
      BY <3>1 DEF Push
    <3>3. Len(list') = Len(list) + 1
      BY <1>1, <3>2, AddProperties
    <3>4. Linked(gs, m, g) /\ Mode(gs, m, Len(list) + 1, helper, g)
      BY <1>1, <1>5, <2>3, ExpressionGood
    <3>5. Good(gs, Len(list) + 1, helper, g)
      BY <1>1, <1>2, <3>4, GoodIs
    <3> QED BY <1>1, <2>1, <3>1, <3>3, <3>5 DEF GoodNext
  <2>4. CASE Kind[n] = "break"
    <3>1. /\ frames' = Mark(gs, "break") /\ Raise("is_break") /\ list' = list
          /\ errors' = errors
      BY <1>2, <2>1, <2>4 DEF Leaf
    <3>2. /\ helper = Clear /\ Linked(Mark(gs, "break"), m, g)
          /\ Mode(Mark(gs, "break"), m, Len(list), Only("is_break"), g)
      BY <1>1, <1>2, <1>5, <2>4, BreakGood
    <3>3. helper' = Only("is_break")
      BY <3>1, <3>2, Counters DEF Raise, Flags
    <3>4. Mark(gs, "break") \in Seq(Frame) /\ Len(Mark(gs, "break")) = m
      BY <1>2, MarkIs
    <3>5. Good(Mark(gs, "break"), Len(list), Only("is_break"), g)
      BY <1>1, <3>2, <3>4, GoodIs
    <3> QED BY <1>1, <2>1, <3>1, <3>3, <3>5 DEF GoodNext
  <2>5. CASE Kind[n] = "continue"
    <3>1. /\ frames' = gs /\ Raise("is_continue") /\ list' = list
          /\ errors' = errors
      BY <1>2, <2>1, <2>5 DEF Leaf
    <3>2. helper = Clear /\ Linked(gs, m, g) /\ Mode(gs, m, Len(list), Only("is_continue"), g)
      BY <1>1, <1>5, <2>5, ContinueGood
    <3>3. helper' = Only("is_continue")
      BY <3>1, <3>2, Counters DEF Raise, Flags
    <3>4. Good(gs, Len(list), Only("is_continue"), g)
      BY <1>1, <1>2, <3>2, GoodIs
    <3> QED BY <1>1, <2>1, <3>1, <3>3, <3>4 DEF GoodNext
  <2> QED BY <1>7, <2>2, <2>3, <2>4, <2>5 DEF Leaves, Computing
<1> QED BY <1>6, <1>7


-----------------------------------------------------------------------------
(* What the handler at the top may visit, in terms of that handler. *)
Awaits(fr, n, g) ==
  \/ WantsValue(fr) /\ n \in g.values /\ (WantsSimple(fr, g) => n \in g.simple)
  \/ fr.phase = "print" /\ n \in g.values \cup g.plain
  \/ fr.phase = "test" /\ n \in g.plain
  \/ /\ fr.phase \in {"then", "else", "flags"}
     /\ MustReturn(fr, g) => n \in g.returning
     /\ \/ n \in g.plain
        \/ n \in g.inLoop /\ Catches(fr, Loops)
        \/ n \in g.inFunction /\ Catches(fr, {"call"})
        \/ /\ Len(frames) > 1 /\ EndedIf(fr)
           /\ \/ n \in g.inLoop /\ Reaches(frames, Len(frames) - 1, Loops)
              \/ n \in g.inFunction /\ Reaches(frames, Len(frames) - 1, {"call"})

LEMMA ReachesTop ==
  ASSUME NEW fs, NEW gs, NEW m \in Nat \ {0}, \A k \in 1..(m - 1) : gs[k] = fs[k], NEW kinds,
         \/ Catches(gs[m], kinds)
         \/ EndedIf(gs[m]) /\ Reaches(fs, m - 1, kinds)
  PROVE  Reaches(gs, m, kinds)
<1>1. CASE Catches(gs[m], kinds)
  <2>1. m \in 1..m /\ (m + 1)..m = {}
    OBVIOUS
  <2> QED BY <1>1, <2>1 DEF Reaches, LeadsTo
<1>2. CASE EndedIf(gs[m]) /\ Reaches(fs, m - 1, kinds)
  <2>1. PICK c \in 1..(m - 1) : LeadsTo(fs, m - 1, c, kinds)
    BY <1>2 DEF Reaches
  <2>2. /\ c \in 1..m /\ c \in 1..(m - 1)
        /\ \A j \in (c + 1)..m : j = m \/ (j \in (c + 1)..(m - 1) /\ j \in 1..(m - 1))
    OBVIOUS
  <2>3. LeadsTo(gs, m, c, kinds)
    BY <1>2, <2>1, <2>2 DEF LeadsTo
  <2> QED BY <2>2, <2>3 DEF Reaches
<1> QED BY <1>1, <1>2

(* The handler goes on as fr. *)
Goes(fr) ==
  /\ Same(fr, Fr) /\ fr.base = Fr.base /\ Proper(fr, Len(frames))

LEMMA StepVisit ==
  ASSUME NEW g, Grammar(g), Faults = {}, PInv(g), frames # <<>>, NEW n, NEW fr, Goes(fr),
         Fr.phase # "print", Resting(Fr), Have(Fr) = Below(fr), IsReturn(fr) <=> IsReturn(Fr),
         Awaits(fr, n, g), Visit(n, fr)
  PROVE  GoodNext(g)
<1> DEFINE m == Len(frames)
           gs == Put(frames, fr)
<1>1. /\ m \in Nat \ {0} /\ Fr = frames[m] /\ Fr.base \in Nat
      /\ fr \in Frame /\ fr.node = Fr.node /\ fr.cause = Fr.cause
  BY Present DEF Goes, Same
<1>2. gs[m] = fr /\ \A k \in 1..(m - 1) : gs[k] = frames[k]
  BY <1>1, PutNext
<1> HIDE DEF m, gs
<1>3. \A kinds : \/ Catches(fr, kinds)
                 \/ EndedIf(fr) /\ Reaches(frames, m - 1, kinds)
                 => Reaches(gs, m, kinds)
  BY <1>1, <1>2, ReachesTop
<1>4. Visits(gs, m, n, g)
  BY <1>2, <1>3 DEF Visits, Awaits, Statement, m
<1>5. Onward(frames, gs, m, n, g)
  BY <1>1, <1>2, <1>4 DEF Onward, Goes, m
<1> QED BY <1>1, <1>5, VisitGood DEF m, gs

(* The node at the top, as the grammar has it. *)
BlockOf(s, n, g) ==
  /\ \A i \in Nat \ {0} : i <= Len(s) =>
       \/ s[i] \in g.plain
       \/ /\ i = Len(s)
          /\ \/ s[i] \in g.inLoop /\ Reaches(frames, Len(frames) - 1, Loops)
             \/ s[i] \in g.inFunction /\ Reaches(frames, Len(frames) - 1, {"call"})
  /\ n \in g.returning => Len(s) # 0 /\ s[Len(s)] \in g.returning

NodeFits(n, g) ==
  /\ Kind[n] = "op" => /\ {Kids[n][1], Kids[n][2]} \subseteq g.values
                       /\ n \in g.simple => {Kids[n][1], Kids[n][2]} \subseteq g.simple
  /\ Kind[n] \in {"lib", "array", "access", "setelem"} =>
       \A i \in Nat \ {0} : i <= Len(Kids[n]) =>
         Kids[n][i] \in g.values /\ (n \in g.simple => Kids[n][i] \in g.simple)
  /\ Kind[n] \in {"assign", "if", "while"} => Kids[n][1] \in g.values
  /\ Kind[n] = "for" => {Kids[n][1], Kids[n][3]} \subseteq g.plain /\ Kids[n][2] \in g.values
  /\ Kind[n] = "return" => /\ Kids[n][1] \in g.simple
                           /\ Reaches(frames, Len(frames) - 1, {"call"})
  /\ Kind[n] = "if" => BlockOf(Body[n], n, g) /\ BlockOf(Else[n], n, g)
  /\ Kind[n] \in Loops =>
       \A i \in Nat \ {0} : i <= Len(Body[n]) => Body[n][i] \in g.plain \cup g.inLoop
  /\ Kind[n] = "call" /\ Kids[n] # <<>> =>
       /\ \A i \in Nat \ {0} : i <= Len(Kids[n]) => Kids[n][i] \in g.values
       /\ \A i \in Nat \ {0} : i <= Len(Body[n]) => Body[n][i] \in g.plain \cup g.inFunction
       /\ Len(Body[n]) # 0 /\ Body[n][Len(Body[n])] \in g.returning

LEMMA BlockFits ==
  ASSUME NEW g, NEW n, NEW s \in Seq(Node), NEW J, JumpLast(s, g.plain, J),
         n \in g.returning => EndsIn(s, g.returning),
         \/ J = {}
         \/ J = g.inLoop /\ Reaches(frames, Len(frames) - 1, Loops)
         \/ J = g.inFunction /\ Reaches(frames, Len(frames) - 1, {"call"})
  PROVE  BlockOf(s, n, g)
<1>1. Len(s) \in Nat /\ DOMAIN s = 1..Len(s) /\ (s = <<>> <=> Len(s) = 0)
  BY LenProperties, EmptySeq
<1>2. \A i \in Nat \ {0} : i <= Len(s) => i \in DOMAIN s
  BY <1>1
<1>3. n \in g.returning => Len(s) # 0 /\ s[Len(s)] \in g.returning
  BY <1>1 DEF EndsIn, Last
<1>4. \A i \in Nat \ {0} : i <= Len(s) => s[i] \in g.plain \/ (i = Len(s) /\ s[i] \in J)
  BY <1>2 DEF JumpLast
<1> QED BY <1>3, <1>4 DEF BlockOf

LEMMA TopNode ==
  ASSUME NEW g, Grammar(g), PInv(g), frames # <<>>, Len(frames) > 1
  PROVE  NodeFits(Fr.node, g)
<1> DEFINE m == Len(frames)
           n == Fr.node
<1>1. /\ m \in Nat \ {0} /\ m \in Nat /\ Fr = frames[m] /\ n \in Node
      /\ Linked(frames, m, g) /\ Based(frames, m)
  BY Present
<1>2. InnerFrame(Fr) /\ Visits(frames, m - 1, n, g)
  BY <1>1, Parent
<1> HIDE DEF m, n
<1>3. n \in g.values \cup g.plain \cup g.inLoop \cup g.inFunction
  BY <1>2 DEF Visits, Statement
<1>4. /\ n \in g.values => IsValue(n, g)
      /\ n \in g.simple => IsSimple(n, g)
      /\ n \in g.plain => IsPlain(n, g)
      /\ n \in g.inLoop => IsInLoop(n, g)
      /\ n \in g.inFunction => IsInFunction(n, g)
      /\ n \in g.returning => IsReturning(n, g)
      /\ g.simple \subseteq g.values
  BY DEF Grammar
<1>5. /\ Kind[n] \in {"op", "assign", "if", "while", "for", "return"} => 1 \in DOMAIN Kids[n]
      /\ Kind[n] = "op" => 2 \in DOMAIN Kids[n]
      /\ \A i \in Nat \ {0} : i <= Len(Kids[n]) => i \in DOMAIN Kids[n]
      /\ \A i \in Nat \ {0} : i <= Len(Body[n]) => i \in DOMAIN Body[n]
  <2>1. /\ DOMAIN Kids[n] = 1..Len(Kids[n]) /\ Len(Kids[n]) \in Nat
        /\ DOMAIN Body[n] = 1..Len(Body[n]) /\ Len(Body[n]) \in Nat
        /\ Kind[n] \in DOMAIN Fixed => Len(Kids[n]) = Fixed[Kind[n]]
    BY <1>1, KidsAre
  <2>2. /\ Kind[n] \in {"op", "assign", "if", "while", "for", "return"} => Len(Kids[n]) >= 1
        /\ Kind[n] = "op" => Len(Kids[n]) >= 2
    BY <2>1 DEF Fixed
  <2> QED BY <2>1, <2>2
<1>6. Kind[n] = "op" => /\ {Kids[n][1], Kids[n][2]} \subseteq g.values
                        /\ n \in g.simple => {Kids[n][1], Kids[n][2]} \subseteq g.simple
  <2> SUFFICES ASSUME Kind[n] = "op"
               PROVE  /\ {Kids[n][1], Kids[n][2]} \subseteq g.values
                      /\ n \in g.simple => {Kids[n][1], Kids[n][2]} \subseteq g.simple
    OBVIOUS
  <2>1. n \in g.values
    BY <1>3, GrammarKinds
  <2> QED BY <1>4, <1>5, <2>1 DEF IsValue, IsSimple, AllIn, Computing
<1>7. Kind[n] \in {"assign", "if", "while"} => Kids[n][1] \in g.values
  <2> SUFFICES ASSUME Kind[n] \in {"assign", "if", "while"} PROVE AllIn(Kids[n], g.values)
    BY <1>5 DEF AllIn
  <2>1. n \notin g.values
    BY GrammarKinds DEF Computing
  <2> QED BY <1>3, <1>4, <2>1 DEF IsPlain, IsInLoop, IsInFunction, IfOf
<1>8. ASSUME Kind[n] \in Loops
      PROVE  /\ Kind[n] = "for" => /\ {Kids[n][1], Kids[n][3]} \subseteq g.plain
                                   /\ Kids[n][2] \in g.values
             /\ \A i \in Nat \ {0} : i <= Len(Body[n]) => Body[n][i] \in g.plain \cup g.inLoop
  <2>1. n \in g.plain
    BY <1>3, <1>8, GrammarKinds DEF Loops, Computing
  <2>2. IsPlain(n, g)
    BY <1>4, <2>1
  <2>3. AllIn(Body[n], g.plain \cup g.inLoop)
    BY <1>8, <2>2 DEF Loops, IsPlain, IfOf
  <2>4. Kind[n] = "for" => /\ {Kids[n][1], Kids[n][3]} \subseteq g.plain
                           /\ Kids[n][2] \in g.values
    BY <2>2 DEF IsPlain, IfOf
  <2> QED BY <1>5, <2>3, <2>4 DEF AllIn
<1>9. ASSUME Kind[n] = "return"
      PROVE  Kids[n][1] \in g.simple /\ Reaches(frames, m - 1, {"call"})
  <2>1. n \notin g.values /\ n \notin g.simple /\ n \notin g.plain /\ n \notin g.inLoop
    BY <1>9, GrammarKinds DEF Computing
  <2>2. n \in g.inFunction
    BY <1>3, <2>1
  <2>3. AllIn(Kids[n], g.simple)
    BY <1>4, <1>9, <2>2 DEF IsInFunction, IfOf
  <2>4. Reaches(frames, m - 1, {"call"})
    BY <1>2, <2>1 DEF Visits, Statement
  <2> QED BY <1>5, <1>9, <2>3, <2>4 DEF AllIn
<1>10. ASSUME Kind[n] = "call", Kids[n] # <<>>
       PROVE  /\ \A i \in Nat \ {0} : i <= Len(Kids[n]) => Kids[n][i] \in g.values
              /\ \A i \in Nat \ {0} : i <= Len(Body[n]) =>
                   Body[n][i] \in g.plain \cup g.inFunction
              /\ Len(Body[n]) # 0 /\ Body[n][Len(Body[n])] \in g.returning
  <2>1. n \in g.values
    BY <1>3, <1>10, GrammarKinds
  <2>2. /\ AllIn(Kids[n], g.values)
        /\ AllIn(Body[n], g.plain \cup g.inFunction) /\ EndsIn(Body[n], g.returning)
    BY <1>4, <1>10, <2>1 DEF IsValue, Computing
  <2>3. Len(Body[n]) # 0
    <3>1. Body[n] \in Seq(Node)
      BY <1>1, KidsAre
    <3> QED BY <2>2, <3>1, EmptySeq DEF EndsIn
  <2> QED BY <1>5, <2>2, <2>3 DEF AllIn, EndsIn, Last
<1>11. ASSUME Kind[n] = "if"
       PROVE  BlockOf(Body[n], n, g) /\ BlockOf(Else[n], n, g)
  <2>1. n \notin g.values
    BY <1>11, GrammarKinds DEF Computing
  <2>2. \/ n \in g.plain
        \/ n \in g.inLoop /\ Reaches(frames, m - 1, Loops)
        \/ n \in g.inFunction /\ Reaches(frames, m - 1, {"call"})
    BY <1>2, <2>1 DEF Visits, Statement
  <2>3. n \in g.returning => EndsIn(Body[n], g.returning) /\ EndsIn(Else[n], g.returning)
    BY <1>4, <1>11 DEF IsReturning
  <2>4. Body[n] \in Seq(Node) /\ Else[n] \in Seq(Node)
    BY <1>1, KidsAre
  <2>5. ASSUME NEW J, IfOf(n, g, J),
               \/ J = {}
               \/ J = g.inLoop /\ Reaches(frames, m - 1, Loops)
               \/ J = g.inFunction /\ Reaches(frames, m - 1, {"call"})
        PROVE  BlockOf(Body[n], n, g) /\ BlockOf(Else[n], n, g)
    <3>1. JumpLast(Body[n], g.plain, J) /\ JumpLast(Else[n], g.plain, J)
      BY <2>5 DEF IfOf
    <3> QED BY <2>3, <2>4, <2>5, <3>1, BlockFits DEF m
  <2>6. n \in g.plain => IfOf(n, g, {})
    BY <1>4, <1>11 DEF IsPlain
  <2>7. n \in g.inLoop => IfOf(n, g, g.inLoop)
    BY <1>4, <1>11 DEF IsInLoop
  <2>8. n \in g.inFunction => IfOf(n, g, g.inFunction)
    BY <1>4, <1>11 DEF IsInFunction
  <2> QED BY <2>2, <2>5, <2>6, <2>7, <2>8
<1>12. Kind[n] = "for" =>
         {Kids[n][1], Kids[n][3]} \subseteq g.plain /\ Kids[n][2] \in g.values
  BY <1>8 DEF Loops
<1>13. Kind[n] = "return" =>
         Kids[n][1] \in g.simple /\ Reaches(frames, Len(frames) - 1, {"call"})
  BY <1>9 DEF m
<1>14. ASSUME Kind[n] \in {"lib", "array", "access", "setelem"}
       PROVE  \A i \in Nat \ {0} : i <= Len(Kids[n]) =>
                Kids[n][i] \in g.values /\ (n \in g.simple => Kids[n][i] \in g.simple)
  <2>1. n \in g.values \cup g.plain
    BY <1>3, <1>14, GrammarKinds
  <2>2. AllIn(Kids[n], g.values)
    BY <1>4, <1>14, <2>1 DEF IsValue, IsPlain, IfOf, Computing
  <2>3. n \in g.simple => AllIn(Kids[n], g.simple)
    BY <1>4, <1>14 DEF IsSimple, Computing
  <2> QED BY <1>5, <2>2, <2>3 DEF AllIn
<1>15. NodeFits(n, g)
  BY <1>6, <1>7, <1>8, <1>10, <1>11, <1>12, <1>13, <1>14 DEF NodeFits
<1> QED BY <1>15 DEF n


-----------------------------------------------------------------------------
(* The steps of the programs of a grammar, one lemma per action. *)
Inner(g, kinds, p) ==
  /\ frames # <<>> /\ TypeOK /\ Len(frames) > 1 /\ Len(frames) # 1
  /\ InnerFrame(Fr) /\ NodeFits(Fr.node, g)
  /\ Kind[Fr.node] \in kinds /\ Fr.phase = p
  /\ Fr.node \in Node /\ Fr.i \in Nat \ {0} /\ Fr.base \in Nat /\ Len(list) \in Nat

LEMMA InnerIs ==
  ASSUME NEW g, Grammar(g), PInv(g), NEW kinds, NEW p, p \notin {"line", "print"},
         In(kinds, p)
  PROVE  Inner(g, kinds, p)
<1>1. frames # <<>> /\ Kind[Fr.node] \in kinds /\ Fr.phase = p
  BY DEF In, Busy
<1>2. Len(frames) > 1 /\ InnerFrame(Fr) /\ Len(frames) \in Nat
  BY <1>1, Present
<1>3. Len(frames) # 1
  <2>1. \A m \in Nat : m > 1 => m # 1
    OBVIOUS
  <2> QED BY <1>2, <2>1
<1>4. NodeFits(Fr.node, g)
  BY <1>1, <1>2, TopNode
<1> QED BY <1>1, <1>2, <1>3, <1>4, Present DEF Inner, PInv, Typed

(* No jump is on its way, or the one of a return whose value is evaluated. *)
LEMMA AtRest ==
  ASSUME NEW g, Grammar(g), PInv(g), NEW kinds, NEW p, p # "print", Inner(g, kinds, p),
         Resting(Fr)
  PROVE  /\ Len(list) = Fr.base + Have(Fr)
         /\ \/ helper = Clear /\ Calm(frames, Len(frames), g)
            \/ /\ helper = Only("is_return") /\ Giving(frames, Len(frames), g)
               /\ IsReturn(Fr) \/ Kind[Fr.node] \in Computing
<1>1. /\ Len(frames) \in Nat \ {0} /\ Fr = frames[Len(frames)]
      /\ Linked(frames, Len(frames), g) /\ Mode(frames, Len(frames), Len(list), helper, g)
  BY Present DEF Inner
<1>2. /\ Stacked(Fr, Len(list))
      /\ \/ helper = Clear /\ Calm(frames, Len(frames), g)
         \/ helper = Only("is_return") /\ Giving(frames, Len(frames), g)
  BY <1>1, NoLeap
<1>3. Giving(frames, Len(frames), g) => IsReturn(Fr) \/ Kind[Fr.node] \in Computing
  BY <1>1, GivingTop
<1> QED BY <1>2, <1>3 DEF Stacked, Inner

LEMMA RunLineGood ==
  ASSUME NEW g, Grammar(g), Faults = {}, PInv(g), RunLine PROVE GoodNext(g)
<1>1. frames # <<>> /\ Fr.phase = "line" /\ TypeOK /\ Visit(Fr.node, To("print"))
  BY DEF RunLine, Busy, PInv, Typed
<1>2. Proper(Fr, Len(frames))
  BY <1>1, Present
<1>3. ~InnerFrame(Fr)
  BY <1>1 DEF InnerFrame, PhasesOf, Kinds, Leaves, Computing
<1>4. LineFrame(Fr) /\ Len(frames) = 1
  BY <1>2, <1>3 DEF Proper
<1>5. Same(To("print"), Fr) /\ To("print").phase = "print" /\ To("print").base = Fr.base
  BY <1>1, TopFrame DEF Phases
<1>6. Goes(To("print"))
  BY <1>4, <1>5 DEF Goes, Proper, LineFrame, Same
<1>7. Fr.node \in g.values \cup g.plain
  BY <1>4 DEF LineFrame, Grammar
<1>8. Awaits(To("print"), Fr.node, g)
  BY <1>5, <1>7 DEF Awaits
<1>9. /\ Resting(Fr) /\ Have(Fr) = Below(To("print")) /\ Fr.phase # "print"
      /\ IsReturn(To("print")) <=> IsReturn(Fr)
  BY <1>1, <1>5 DEF Resting, EndedIf, Catches, Have, Below, WantsValue, IsReturn
<1> QED BY <1>1, <1>6, <1>8, <1>9, StepVisit

LEMMA PrintGood ==
  ASSUME NEW g, Grammar(g), PInv(g), PrintResult PROVE GoodNext(g)
<1>1. /\ frames # <<>> /\ Fr.phase = "print" /\ TypeOK /\ ~errors /\ ~crashed
      /\ errors' = FALSE /\ crashed' = crashed /\ helper' = helper
      /\ frames' = Front(frames) /\ list' = IF list = <<>> THEN <<>> ELSE Front(list)
  BY DEF PrintResult, Busy, PInv, Typed, Done
<1>2. /\ Proper(Fr, Len(frames)) /\ Len(frames) \in Nat \ {0} /\ Fr = frames[Len(frames)]
      /\ Linked(frames, Len(frames), g) /\ Mode(frames, Len(frames), Len(list), helper, g)
      /\ frames \in Seq(Frame)
  BY <1>1, Present
<1>3. ~InnerFrame(Fr)
  BY <1>1 DEF InnerFrame, PhasesOf, Kinds, Leaves, Computing
<1>4. Len(frames) = 1
  BY <1>2, <1>3 DEF Proper
<1>5. Resting(Fr)
  BY <1>1 DEF Resting, EndedIf, Catches
<1>6. Stacked(Fr, Len(list)) /\ helper = Clear
  <2>1. ~Giving(frames, Len(frames), g)
    BY <1>2, <1>4, GivingTop
  <2> QED BY <1>2, <1>5, <2>1, NoLeap
<1>7. Len(list') = 0
  <2>1. Len(list) <= 1
    BY <1>1, <1>6 DEF Stacked
  <2> QED BY <1>1, <2>1, ListFacts
<1>8. frames' = <<>>
  BY <1>1, <1>2, <1>4, FrontProperties
<1> QED BY <1>1, <1>6, <1>7, <1>8 DEF GoodNext, Good

(* A computation ends with its value. *)
LEMMA ExpressionEnds ==
  ASSUME NEW g, Grammar(g), PInv(g), NEW kinds, NEW p, p # "print", Inner(g, kinds, p),
         Resting(Fr), Kind[Fr.node] \in Computing,
         Len(list') = Fr.base + 1, helper' = helper, ~errors', ~crashed', Done
  PROVE  GoodNext(g)
<1>1. /\ Len(frames) \in Nat \ {0} /\ Len(frames) \in Nat /\ Fr = frames[Len(frames)]
      /\ Linked(frames, Len(frames), g) /\ Based(frames, Len(frames)) /\ frames # <<>>
      /\ Len(frames) > 1
  BY Present DEF Inner
<1>2. \/ helper = Clear /\ Calm(frames, Len(frames), g)
      \/ helper = Only("is_return") /\ Giving(frames, Len(frames), g)
  BY AtRest
<1>3. CASE helper = Clear /\ Calm(frames, Len(frames), g)
  <2>1. NoReturn(frames, Len(frames)) /\ Unmarked(frames, Len(frames) - 1)
    BY <1>1, <1>3, Parent DEF Calm, Unmarked
  <2>2. /\ Linked(frames, Len(frames) - 1, g)
        /\ Mode(frames, Len(frames) - 1, Fr.base + 1, helper, g)
    BY <1>1, <1>3, <2>1, PopExpression DEF IsExpression, Computing
  <2> QED BY <1>1, <2>2, PopNext DEF GoodNext, Done
<1>4. CASE helper = Only("is_return") /\ Giving(frames, Len(frames), g)
  <2>1. /\ Linked(frames, Len(frames) - 1, g)
        /\ Mode(frames, Len(frames) - 1, Fr.base + 1, helper, g)
    BY <1>1, <1>4, PopGiving
  <2> QED BY <1>1, <2>1, PopNext DEF GoodNext, Done
<1> QED BY <1>2, <1>3, <1>4

LEMMA OpGood ==
  ASSUME NEW g, Grammar(g), Faults = {}, PInv(g), Op PROVE GoodNext(g)
<1>1. CASE In({"op"}, "left") /\ Visit(Kids[Fr.node][1], To("right"))
  <2>1. Inner(g, {"op"}, "left")
    BY <1>1, InnerIs
  <2>2. Same(To("right"), Fr) /\ To("right").phase = "right" /\ To("right").base = Fr.base
    BY <2>1, TopFrame DEF Inner, Phases
  <2>3. Goes(To("right"))
    BY <2>1, <2>2 DEF Goes, Proper, Inner, InnerFrame, PhasesOf, Same
  <2>4. Awaits(To("right"), Kids[Fr.node][1], g)
    BY <2>1, <2>2 DEF Awaits, Inner, NodeFits, WantsValue, WantsSimple, Same, Computing
  <2>5. /\ Resting(Fr) /\ Have(Fr) = Below(To("right")) /\ Fr.phase # "print"
        /\ IsReturn(To("right")) <=> IsReturn(Fr)
    BY <2>1, <2>2
       DEF Inner, Resting, EndedIf, Catches, Have, Below, WantsValue, IsReturn, Same
  <2> QED BY <1>1, <2>1, <2>3, <2>4, <2>5, StepVisit DEF Inner
<1>2. CASE In({"op"}, "right") /\ Visit(Kids[Fr.node][2], To("apply"))
  <2>1. Inner(g, {"op"}, "right")
    BY <1>2, InnerIs
  <2>2. Same(To("apply"), Fr) /\ To("apply").phase = "apply" /\ To("apply").base = Fr.base
    BY <2>1, TopFrame DEF Inner, Phases
  <2>3. Goes(To("apply"))
    BY <2>1, <2>2 DEF Goes, Proper, Inner, InnerFrame, PhasesOf, Same
  <2>4. Awaits(To("apply"), Kids[Fr.node][2], g)
    BY <2>1, <2>2 DEF Awaits, Inner, NodeFits, WantsValue, WantsSimple, Same, Computing
  <2>5. /\ Resting(Fr) /\ Have(Fr) = Below(To("apply")) /\ Fr.phase # "print"
        /\ IsReturn(To("apply")) <=> IsReturn(Fr)
    BY <2>1, <2>2
       DEF Inner, Resting, EndedIf, Catches, Have, Below, WantsValue, IsReturn, Same
  <2> QED BY <1>2, <2>1, <2>3, <2>4, <2>5, StepVisit DEF Inner
<1>3. CASE Apply
  <2>1. In({"op"}, "apply") /\ UNCHANGED <<helper, errors, crashed>> /\ Done
    BY <1>3 DEF Apply
  <2>2. Inner(g, {"op"}, "apply")
    BY <2>1, InnerIs
  <2>3. Resting(Fr) /\ Have(Fr) = 2 /\ Kind[Fr.node] \in Computing
    BY <2>2 DEF Inner, Resting, EndedIf, Catches, Have, Below, WantsValue, Computing
  <2>4. Len(list) = Fr.base + 2
    BY <2>2, <2>3, AtRest
  <2>5. Len(list') = Fr.base + 1
    <3>1. Len(list) >= 2 /\ Fr.base + 1 = Len(list) - 1
      BY <2>2, <2>4 DEF Inner
    <3>2. PICK x \in Values : list' = Append(Front(Front(list)), x)
      BY <1>3, <3>1 DEF Apply
    <3> QED BY <2>2, <3>1, <3>2, ListFacts DEF Inner
  <2>6. ~errors /\ ~crashed
    BY DEF PInv
  <2> QED BY <2>1, <2>2, <2>3, <2>5, <2>6, ExpressionEnds
<1> QED BY <1>1, <1>2, <1>3 DEF Op


LEMMA ClearMode ==
  ASSUME NEW fs, NEW m, NEW v, NEW g, Mode(fs, m, v, Clear, g)
  PROVE  Calm(fs, m, g) /\ Stacked(fs[m], v)
BY Counters DEF Mode

(* A handler that is no computation and no return is at rest: all is calm. *)
LEMMA CalmHere ==
  ASSUME NEW g, Grammar(g), PInv(g), NEW kinds, NEW p, p # "print", Inner(g, kinds, p),
         Resting(Fr), Kind[Fr.node] \notin Computing \cup {"return"} \/ Fr.phase = "raise"
  PROVE  /\ Len(list) = Fr.base + Have(Fr)
         /\ helper = Clear /\ Calm(frames, Len(frames), g)
<1>1. Kind[Fr.node] \notin Computing /\ ~IsReturn(Fr)
  <2>1. InnerFrame(Fr)
    BY DEF Inner
  <2> QED BY <2>1 DEF IsReturn, InnerFrame, PhasesOf, Kinds, Leaves, Computing
<1> QED BY <1>1, AtRest

(* A statement ends without a jump, or with the one it has caught. *)
LEMMA StatementEnds ==
  ASSUME NEW g, Grammar(g), PInv(g), NEW kinds, NEW p, Inner(g, kinds, p),
         ~IsExpression(Fr.node), Fr.node \notin g.returning,
         NoReturn(frames, Len(frames)), Unmarked(frames, Len(frames) - 1),
         Len(list') = Fr.base, helper' = Clear, ~errors', ~crashed', Done
  PROVE  GoodNext(g)
<1>1. /\ Len(frames) \in Nat \ {0} /\ Fr = frames[Len(frames)] /\ frames # <<>>
      /\ Linked(frames, Len(frames), g) /\ Based(frames, Len(frames)) /\ Len(frames) > 1
  BY Present DEF Inner
<1>2. /\ Linked(frames, Len(frames) - 1, g)
      /\ Mode(frames, Len(frames) - 1, Fr.base, Clear, g)
  BY <1>1, PopStatement
<1>3. Good(Front(frames), Fr.base, Clear, g)
  BY <1>1, <1>2, PopNext
<1> QED BY <1>3 DEF GoodNext, Done

(* The handler goes on, and nothing is on its way. *)
LEMMA GoesOn ==
  ASSUME NEW g, PInv(g), NEW kinds, NEW p, Inner(g, kinds, p),
         NEW fr, Same(fr, Fr), fr.base = Fr.base, InnerFrame(fr), ~IsReturn(fr),
         ~MustReturn(fr, g), fr.phase # "print",
         NoReturn(frames, Len(frames)), Unmarked(frames, Len(frames)),
         Len(list') = Fr.base + Have(fr), helper' = Clear, ~errors', ~crashed', Continue(fr)
  PROVE  GoodNext(g)
<1> DEFINE m == Len(frames)
           gs == Put(frames, fr)
<1>1. /\ m \in Nat \ {0} /\ m # 1 /\ Fr = frames[m] /\ frames # <<>> /\ Linked(frames, m, g)
      /\ fr \in Frame
  BY Present DEF Inner, Same
<1>2. /\ gs \in Seq(Frame) /\ Len(gs) = m /\ gs[m] = fr
      /\ \A k \in 1..(m - 1) : gs[k] = frames[k]
      /\ frames' = gs
  BY <1>1, PutNext
<1> HIDE DEF gs
<1>3. Linked(gs, m, g) /\ Mode(gs, m, fr.base + Have(fr), Clear, g)
  BY <1>1, <1>2, GoOnGood DEF Proper, Same
<1>4. Good(gs, fr.base + Have(fr), Clear, g)
  BY <1>1, <1>2, <1>3, GoodIs
<1> QED BY <1>2, <1>4 DEF GoodNext

(* The handler goes on, in the value of a return or not. *)
LEMMA KeepsOn ==
  ASSUME NEW g, Grammar(g), PInv(g), NEW kinds, NEW p, p # "print", Inner(g, kinds, p),
         Resting(Fr), Kind[Fr.node] # "return",
         NEW fr, Same(fr, Fr), fr.base = Fr.base, InnerFrame(fr), ~MustReturn(fr, g),
         fr.phase # "print",
         Len(list') = Fr.base + Have(fr), helper' = helper, ~errors', ~crashed', Continue(fr)
  PROVE  GoodNext(g)
<1> DEFINE m == Len(frames)
           gs == Put(frames, fr)
<1>1. ~IsReturn(fr) /\ ~IsReturn(Fr)
  BY DEF IsReturn, Same
<1>2. \/ helper = Clear /\ Calm(frames, m, g)
      \/ helper = Only("is_return") /\ Giving(frames, m, g)
  BY AtRest
<1>3. CASE helper = Clear /\ Calm(frames, m, g)
  BY <1>1, <1>3, GoesOn DEF Calm
<1>4. CASE helper = Only("is_return") /\ Giving(frames, m, g)
  <2>1. /\ m \in Nat \ {0} /\ m # 1 /\ Fr = frames[m] /\ frames # <<>> /\ Linked(frames, m, g)
        /\ fr \in Frame
    BY Present DEF Inner, Same
  <2>2. /\ gs \in Seq(Frame) /\ Len(gs) = m /\ gs[m] = fr
        /\ \A k \in 1..(m - 1) : gs[k] = frames[k]
        /\ frames' = gs
    BY <2>1, PutNext
  <2> HIDE DEF gs
  <2>3. Linked(gs, m, g) /\ Mode(gs, m, fr.base + Have(fr), Only("is_return"), g)
    BY <1>1, <1>4, <2>1, <2>2, GoOnGiving DEF Proper, Same
  <2>4. Good(gs, fr.base + Have(fr), Only("is_return"), g)
    BY <2>1, <2>2, <2>3, GoodIs
  <2> QED BY <1>4, <2>2, <2>4 DEF GoodNext
<1> QED BY <1>2, <1>3, <1>4

LEMMA AssignGood ==
  ASSUME NEW g, Grammar(g), Faults = {}, PInv(g), Assign PROVE GoodNext(g)
<1>1. CASE In({"assign"}, "right") /\ Visit(Kids[Fr.node][1], To("store"))
  <2>1. Inner(g, {"assign"}, "right")
    BY <1>1, InnerIs
  <2>2. Same(To("store"), Fr) /\ To("store").phase = "store" /\ To("store").base = Fr.base
    BY <2>1, TopFrame DEF Inner, Phases
  <2>3. Goes(To("store"))
    BY <2>1, <2>2 DEF Goes, Proper, Inner, InnerFrame, PhasesOf, Same
  <2>4. Awaits(To("store"), Kids[Fr.node][1], g)
    BY <2>1, <2>2 DEF Awaits, Inner, NodeFits, WantsValue, WantsSimple, Same, Computing
  <2>5. /\ Resting(Fr) /\ Have(Fr) = Below(To("store")) /\ Fr.phase # "print"
        /\ IsReturn(To("store")) <=> IsReturn(Fr)
    BY <2>1, <2>2
       DEF Inner, Resting, EndedIf, Catches, Have, Below, WantsValue, IsReturn, Same
  <2> QED BY <1>1, <2>1, <2>3, <2>4, <2>5, StepVisit DEF Inner
<1>2. CASE Store
  <2>1. /\ In({"assign"}, "store") /\ UNCHANGED <<helper, errors, crashed>> /\ Done
        /\ list' = IF list = <<>> THEN list ELSE Front(list)
    BY <1>2 DEF Store
  <2>2. Inner(g, {"assign"}, "store")
    BY <2>1, InnerIs
  <2>3. Resting(Fr) /\ Have(Fr) = 1 /\ Kind[Fr.node] = "assign"
    BY <2>2 DEF Inner, Resting, EndedIf, Catches, Have, Below, WantsValue
  <2>4. Len(list) = Fr.base + 1 /\ helper = Clear /\ Calm(frames, Len(frames), g)
    BY <2>2, <2>3, CalmHere DEF Computing
  <2>5. Len(list') = Fr.base
    <3>1. Fr.base \in Nat /\ Len(list) # 0 /\ Len(list) - 1 = Fr.base
      BY <2>2, <2>4 DEF Inner
    <3> QED BY <2>1, <2>2, <3>1, ListFacts DEF Inner
  <2>6. NoReturn(frames, Len(frames)) /\ Unmarked(frames, Len(frames) - 1)
    <3>1. Linked(frames, Len(frames), g) /\ Based(frames, Len(frames)) /\ Len(frames) > 1
          /\ Len(frames) \in Nat
      BY <2>2, Present DEF Inner
    <3> QED BY <2>4, <3>1, Parent DEF Calm, Unmarked
  <2>7. ~IsExpression(Fr.node) /\ Fr.node \notin g.returning
    BY <2>3, GrammarKinds DEF IsExpression, Computing
  <2>8. ~errors /\ ~crashed
    BY DEF PInv
  <2> QED BY <2>1, <2>2, <2>3, <2>4, <2>5, <2>6, <2>7, <2>8, StatementEnds
<1> QED BY <1>1, <1>2 DEF Assign

(* The block of an if. *)
LEMMA BlockGood ==
  ASSUME NEW g, Grammar(g), Faults = {}, PInv(g), NEW p, NEW s,
         \/ p = "then" /\ s = Body[Fr.node]
         \/ p = "else" /\ s = Else[Fr.node],
         Block(p, s)
  PROVE  GoodNext(g)
<1>1. In({"if"}, p)
  BY DEF Block
<1>2. Inner(g, {"if"}, p)
  BY <1>1, InnerIs
<1>3. /\ frames # <<>> /\ TypeOK /\ Kind[Fr.node] = "if" /\ Fr.phase = p /\ BlockOf(s, Fr.node, g)
      /\ Fr.i \in Nat \ {0} /\ Fr.base \in Nat /\ Fr \in Frame /\ ~errors /\ ~crashed
      /\ Fr = frames[Len(frames)] /\ Len(frames) > 1 /\ Len(frames) \in Nat \ {0}
      /\ Linked(frames, Len(frames), g) /\ Based(frames, Len(frames))
      /\ Mode(frames, Len(frames), Len(list), helper, g)
  BY <1>2, Present DEF Inner, NodeFits
<1>4. Len(s) \in Nat
  BY <1>2, KidsAre DEF Inner
<1>5. EndedIf(Fr) <=> Fr.i > Len(s)
  BY <1>3 DEF EndedIf
<1>6. CASE Fr.i > Len(s)
  <2>1. Done /\ UNCHANGED <<list, helper, errors, crashed>>
    BY <1>6 DEF Block
  <2>2. CASE helper = Clear
    <3>1. Calm(frames, Len(frames), g) /\ Stacked(Fr, Len(list))
      BY <1>3, <2>2, ClearMode
    <3>2. Len(list) = Fr.base
      BY <1>3, <3>1 DEF Stacked, Have, WantsValue
    <3>3. Fr.node \notin g.returning
      BY <1>3, <1>5, <1>6, <3>1 DEF Calm, MustReturn
    <3>4. NoReturn(frames, Len(frames)) /\ Unmarked(frames, Len(frames) - 1)
      BY <1>3, <3>1, Parent DEF Calm, Unmarked
    <3>5. ~IsExpression(Fr.node)
      BY <1>3 DEF IsExpression, Computing
    <3> QED BY <1>2, <1>3, <2>1, <2>2, <3>2, <3>3, <3>4, <3>5, StatementEnds
  <2>3. CASE helper # Clear
    <3>1. /\ Linked(frames, Len(frames) - 1, g)
          /\ Mode(frames, Len(frames) - 1, Len(list), helper, g)
      BY <1>3, <1>5, <1>6, <2>3, PopLeap
    <3>2. Good(Front(frames), Len(list), helper, g)
      BY <1>3, <3>1, PopNext
    <3> QED BY <1>3, <2>1, <3>2 DEF GoodNext, Done
  <2> QED BY <2>2, <2>3
<1>7. CASE ~(Fr.i > Len(s))
  <2>1. Visit(s[Fr.i], NextOf(Fr))
    BY <1>7 DEF Block, NextOf
  <2>2. /\ Same(NextOf(Fr), Fr) /\ NextOf(Fr).phase = p /\ NextOf(Fr).base = Fr.base
        /\ NextOf(Fr).i = Fr.i + 1
    BY <1>3, Updates
  <2>3. Goes(NextOf(Fr))
    BY <1>2, <2>2 DEF Goes, Proper, Inner, InnerFrame, PhasesOf, Same
  <2>4. /\ EndedIf(NextOf(Fr)) <=> Fr.i = Len(s)
        /\ MustReturn(NextOf(Fr), g) <=> Fr.i = Len(s) /\ Fr.node \in g.returning
    <3>1. Fr.i + 1 > Len(s) <=> Fr.i = Len(s)
      BY <1>3, <1>4, <1>7
    <3>2. EndedIf(NextOf(Fr)) <=> Fr.i = Len(s)
      BY <1>3, <2>2, <3>1 DEF EndedIf, Same
    <3> QED BY <1>3, <2>2, <3>2 DEF MustReturn, Catches, Same
  <2>5. Awaits(NextOf(Fr), s[Fr.i], g)
    <3>1. Fr.i <= Len(s)
      BY <1>3, <1>4, <1>7
    <3> QED BY <1>3, <2>2, <2>4, <3>1 DEF Awaits, BlockOf
  <2>6. /\ Resting(Fr) /\ Have(Fr) = Below(NextOf(Fr)) /\ Fr.phase # "print"
        /\ IsReturn(NextOf(Fr)) <=> IsReturn(Fr)
    BY <1>3, <1>5, <1>7, <2>2
       DEF Resting, Catches, Have, Below, WantsValue, IsReturn, Same
  <2> QED BY <1>3, <2>1, <2>3, <2>5, <2>6, StepVisit
<1> QED BY <1>6, <1>7

LEMMA IfGood ==
  ASSUME NEW g, Grammar(g), Faults = {}, PInv(g), If PROVE GoodNext(g)
<1>1. CASE In({"if"}, "cond") /\ Visit(Kids[Fr.node][1], To("branch"))
  <2>1. Inner(g, {"if"}, "cond")
    BY <1>1, InnerIs
  <2>2. /\ Same(To("branch"), Fr) /\ To("branch").phase = "branch"
        /\ To("branch").base = Fr.base /\ To("branch").i = Fr.i
    BY <2>1, TopFrame DEF Inner, Phases
  <2>3. Goes(To("branch"))
    BY <2>1, <2>2 DEF Goes, Proper, Inner, InnerFrame, PhasesOf, Same
  <2>4. Awaits(To("branch"), Kids[Fr.node][1], g)
    BY <2>1, <2>2 DEF Awaits, Inner, NodeFits, WantsValue, WantsSimple, Same, Computing
  <2>5. /\ Resting(Fr) /\ Have(Fr) = Below(To("branch")) /\ Fr.phase # "print"
        /\ IsReturn(To("branch")) <=> IsReturn(Fr)
    BY <2>1, <2>2
       DEF Inner, Resting, EndedIf, Catches, Have, Below, WantsValue, IsReturn, Same
  <2> QED BY <1>1, <2>1, <2>3, <2>4, <2>5, StepVisit DEF Inner
<1>2. CASE Branch
  <2>1. Inner(g, {"if"}, "branch")
    BY <1>2, InnerIs DEF Branch
  <2>2. Resting(Fr) /\ Have(Fr) = 1 /\ Kind[Fr.node] = "if" /\ Fr.phase = "branch"
    BY <2>1 DEF Inner, Resting, EndedIf, Catches, Have, Below, WantsValue
  <2>3. Len(list) = Fr.base + 1 /\ helper = Clear /\ Calm(frames, Len(frames), g)
    BY <2>1, <2>2, CalmHere DEF Computing
  <2>4. list # <<>> /\ Last(list) \in {"true", "false"} /\ Len(Front(list)) = Fr.base
    <3>1. Fr.base \in Nat /\ Len(list) # 0 /\ Len(list) - 1 = Fr.base
      BY <2>1, <2>3 DEF Inner
    <3> QED BY <2>1, <3>1, ListFacts DEF Inner, Values, Numbers
  <2> DEFINE q == IF Last(list) = "true" THEN "then" ELSE "else"
  <2>5. /\ list' = Front(list) /\ Continue(To(q)) /\ helper' = helper /\ crashed' = crashed
        /\ errors' = errors
    BY <1>2, <2>4 DEF Branch
  <2>6. q \in {"then", "else"}
    OBVIOUS
  <2> HIDE DEF q
  <2>7. /\ Same(To(q), Fr) /\ To(q).phase = q /\ To(q).base = Fr.base /\ To(q).i = 1
    BY <2>1, <2>2, <2>6, TopFrame DEF Inner, Phases, InnerFrame
  <2>8. InnerFrame(To(q)) /\ ~IsReturn(To(q)) /\ To(q).phase # "print" /\ Have(To(q)) = 0
    BY <2>1, <2>2, <2>6, <2>7
       DEF Inner, InnerFrame, PhasesOf, Kinds, Leaves, IsReturn, Have, WantsValue, Same, Computing
  <2>9. ~MustReturn(To(q), g)
    <3>1. BlockOf(Body[Fr.node], Fr.node, g) /\ BlockOf(Else[Fr.node], Fr.node, g)
      BY <2>1, <2>2 DEF Inner, NodeFits
    <3>2. Len(Body[Fr.node]) \in Nat /\ Len(Else[Fr.node]) \in Nat
      BY <2>1, KidsAre DEF Inner
    <3>3. Fr.node \in g.returning => ~(1 > Len(Body[Fr.node])) /\ ~(1 > Len(Else[Fr.node]))
      BY <3>1, <3>2 DEF BlockOf
    <3> QED BY <2>2, <2>6, <2>7, <3>3 DEF MustReturn, EndedIf, Catches, Same
  <2>10. ~errors /\ ~crashed /\ Len(list') = Fr.base + Have(To(q))
    BY <2>1, <2>4, <2>5, <2>8 DEF PInv, Inner
  <2>11. NoReturn(frames, Len(frames)) /\ Unmarked(frames, Len(frames))
    BY <2>3 DEF Calm
  <2> QED BY <2>1, <2>3, <2>5, <2>7, <2>8, <2>9, <2>10, <2>11, GoesOn
<1>3. CASE Block("then", Body[Fr.node]) \/ Block("else", Else[Fr.node])
  BY <1>3, BlockGood
<1> QED BY <1>1, <1>2, <1>3 DEF If


(* What a loop or a function does with the counter of a jump. *)
LEMMA FlagsTaken ==
  ASSUME ~errors, TakeFlag(Consumed)
  PROVE  /\ helper = Clear => Consumed = "RES_OK" /\ helper' = Clear
         /\ helper = Only("is_continue") => Consumed = "RES_CONTINUE" /\ helper' = Clear
         /\ helper = Only("is_break") => Consumed = "RES_BREAK" /\ helper' = Clear
         /\ helper = Only("is_return") => Consumed = "RES_RETURN" /\ helper' = Clear
<1>1. /\ "is_break" \in Flags /\ "is_continue" \in Flags /\ "is_return" \in Flags
      /\ "is_continue" \in Flags \ {"is_break"} /\ "is_continue" \in Flags \ {"is_return"}
      /\ "is_break" \in Flags \ {"is_return"}
  BY DEF Flags
<1>2. helper = Clear => Consumed = "RES_OK"
  <2>1. Clear["is_break"] = 0 /\ Clear["is_continue"] = 0 /\ Clear["is_return"] = 0
    BY <1>1, Counters
  <2> QED BY <2>1 DEF Consumed
<1>3. helper = Only("is_continue") => Consumed = "RES_CONTINUE"
  <2>1. Only("is_continue")["is_continue"] = 1
    BY <1>1, Counters
  <2> QED BY <2>1 DEF Consumed
<1>4. helper = Only("is_break") => Consumed = "RES_BREAK"
  <2>1. Only("is_break")["is_break"] = 1 /\ Only("is_break")["is_continue"] = 0
    BY <1>1, Counters
  <2> QED BY <2>1 DEF Consumed
<1>5. helper = Only("is_return") => Consumed = "RES_RETURN"
  <2>1. /\ Only("is_return")["is_return"] = 1 /\ Only("is_return")["is_continue"] = 0
        /\ Only("is_return")["is_break"] = 0
    BY <1>1, Counters
  <2> QED BY <2>1 DEF Consumed
<1>6. ASSUME NEW f \in Flags, helper = Only(f), FlagOf(Consumed) = f,
             Consumed \notin {"RES_OK", "RES_ERROR"}
      PROVE  helper' = Clear
  <2>1. helper' = [Only(f) EXCEPT ![f] = @ - 1]
    BY <1>6 DEF TakeFlag
  <2> QED BY <2>1, Counters
<1>7. helper = Clear => helper' = Clear
  BY <1>2 DEF TakeFlag
<1> QED BY <1>1, <1>2, <1>3, <1>4, <1>5, <1>6, <1>7 DEF FlagOf

(* A loop or a function after one of its statements. *)
LEMMA Caught ==
  ASSUME NEW g, Grammar(g), PInv(g), NEW kinds, Inner(g, kinds, "flags"),
         \/ kinds = Loops
         \/ kinds = {"call"}
  PROVE  /\ NoReturn(frames, Len(frames)) /\ Unmarked(frames, Len(frames) - 1)
         /\ \/ helper = Clear /\ Unmarked(frames, Len(frames)) /\ Len(list) = Fr.base
               /\ ~MustReturn(Fr, g)
            \/ /\ helper \in {Only("is_break"), Only("is_continue")} /\ kinds = Loops
               /\ Len(list) = Fr.base
               /\ helper = Only("is_continue") => Unmarked(frames, Len(frames))
            \/ helper = Only("is_return") /\ kinds = {"call"} /\ Len(list) = Fr.base + 1
<1> DEFINE m == Len(frames)
<1>1. /\ m \in Nat \ {0} /\ Fr = frames[m] /\ Fr.base \in Nat
      /\ Kind[Fr.node] \in kinds /\ Fr.phase = "flags"
      /\ Linked(frames, m, g) /\ Mode(frames, m, Len(list), helper, g)
  BY Present DEF Inner
<1> HIDE DEF m
<1>2. ~EndedIf(Fr) /\ Have(Fr) = 0
  BY <1>1 DEF EndedIf, Have, WantsValue
<1>3. \A k \in 1..(m - 1) : k \in 1..m /\ k # m
  BY <1>1
<1>4. Unmarked(frames, m) => Unmarked(frames, m - 1)
  BY <1>3 DEF Unmarked
<1>5. ~Giving(frames, m, g)
  <2>1. Kind[Fr.node] \notin Computing /\ ~IsReturn(Fr)
    BY <1>1 DEF IsReturn, Loops, Computing
  <2> QED BY <1>1, <2>1, GivingTop
<1>6. ASSUME NEW ks, Leaping(frames, m, ks)
      PROVE  NoReturn(frames, m) /\ Unmarked(frames, m - 1) /\ Kind[Fr.node] \in ks
  <2>1. PICK c \in 1..m : LeadsTo(frames, m, c, ks) /\ \A k \in 1..m : frames[k].cause # "none" => k = c
    BY <1>6 DEF Leaping
  <2>2. c = m /\ Catches(Fr, ks)
    BY <1>1, <1>2, <2>1, LeapingTop
  <2> QED BY <1>3, <1>6, <2>1, <2>2 DEF Leaping, Unmarked, Catches
<1>7. Kind[Fr.node] \in Loops => kinds = Loops
  BY <1>1 DEF Loops
<1>8. Kind[Fr.node] \in {"call"} => kinds = {"call"}
  BY <1>1 DEF Loops
<1>9. CASE helper = Clear /\ Calm(frames, m, g) /\ Stacked(frames[m], Len(list))
  BY <1>1, <1>2, <1>4, <1>9 DEF Calm, Stacked, m
<1>10. CASE /\ helper \in {Only("is_break"), Only("is_continue")}
            /\ Leaping(frames, m, Loops) /\ Len(list) = frames[m].base
            /\ helper = Only("is_continue") => Unmarked(frames, m)
  BY <1>1, <1>6, <1>7, <1>10 DEF m
<1>11. CASE helper = Only("is_return") /\ Leaping(frames, m, {"call"})
            /\ Len(list) = frames[m].base + 1
  BY <1>1, <1>6, <1>8, <1>11 DEF m
<1> QED BY <1>1, <1>5, <1>9, <1>10, <1>11 DEF Mode

LEMMA LoopFlagsGood ==
  ASSUME NEW g, Grammar(g), PInv(g), LoopFlags PROVE GoodNext(g)
<1>1. /\ In(Loops, "flags") /\ TakeFlag(Consumed) /\ UNCHANGED <<list, errors, crashed>>
      /\ IF Consumed \in {"RES_ERROR", "RES_BREAK", "RES_RETURN"} THEN Done
         ELSE Continue(To("test"))
  BY DEF LoopFlags
<1>2. Inner(g, Loops, "flags")
  BY <1>1, InnerIs
<1>3. ~errors /\ ~crashed /\ Kind[Fr.node] \in Loops /\ Fr.base \in Nat
  BY <1>2 DEF PInv, Inner
<1>4. /\ NoReturn(frames, Len(frames)) /\ Unmarked(frames, Len(frames) - 1)
      /\ Len(list) = Fr.base
      /\ \/ helper = Clear /\ Unmarked(frames, Len(frames))
         \/ helper = Only("is_break")
         \/ helper = Only("is_continue") /\ Unmarked(frames, Len(frames))
  <2>1. Loops # {"call"}
    BY DEF Loops
  <2> QED BY <1>2, <2>1, Caught
<1>5. CASE Unmarked(frames, Len(frames)) /\ helper \in {Clear, Only("is_continue")}
  <2>1. Consumed \in {"RES_OK", "RES_CONTINUE"} /\ helper' = Clear
    BY <1>1, <1>3, <1>5, FlagsTaken
  <2>2. Same(To("test"), Fr) /\ To("test").phase = "test" /\ To("test").base = Fr.base
    BY <1>2, TopFrame DEF Inner, Phases
  <2>3. /\ InnerFrame(To("test")) /\ ~IsReturn(To("test")) /\ ~MustReturn(To("test"), g)
        /\ To("test").phase # "print" /\ Have(To("test")) = 0
    BY <1>2, <1>3, <2>2
       DEF Inner, InnerFrame, PhasesOf, Kinds, Leaves, Loops, IsReturn, MustReturn, EndedIf,
           Catches, Have, WantsValue, Same, Computing
  <2>4. Len(list') = Fr.base + Have(To("test"))
    BY <1>1, <1>3, <1>4, <2>3
  <2> QED BY <1>1, <1>2, <1>3, <1>4, <1>5, <2>1, <2>2, <2>3, <2>4, GoesOn
<1>6. CASE helper = Only("is_break")
  <2>1. Consumed = "RES_BREAK" /\ helper' = Clear
    BY <1>1, <1>3, <1>6, FlagsTaken
  <2>2. ~IsExpression(Fr.node) /\ Fr.node \notin g.returning
    BY <1>3, GrammarKinds DEF IsExpression, Loops, Computing
  <2> QED BY <1>1, <1>2, <1>3, <1>4, <2>1, <2>2, StatementEnds
<1> QED BY <1>4, <1>5, <1>6

LEMMA LoopGood ==
  ASSUME NEW g, Grammar(g), Faults = {}, PInv(g), Loop PROVE GoodNext(g)
<1>1. ASSUME NEW p \in {"init", "step"}, NEW n, In({"for"}, p), Visit(n, To("test")),
             n \in {Kids[Fr.node][1], Kids[Fr.node][3]}
      PROVE  GoodNext(g)
  <2>1. Inner(g, {"for"}, p)
    BY <1>1, InnerIs
  <2>2. Same(To("test"), Fr) /\ To("test").phase = "test" /\ To("test").base = Fr.base
    BY <2>1, TopFrame DEF Inner, Phases
  <2>3. Goes(To("test"))
    BY <2>1, <2>2 DEF Goes, Proper, Inner, InnerFrame, PhasesOf, Same
  <2>4. Awaits(To("test"), n, g)
    BY <1>1, <2>1, <2>2 DEF Awaits, Inner, NodeFits
  <2>5. /\ Resting(Fr) /\ Have(Fr) = Below(To("test")) /\ Fr.phase # "print"
        /\ IsReturn(To("test")) <=> IsReturn(Fr)
    BY <1>1, <2>1, <2>2
       DEF Inner, Resting, EndedIf, Catches, Have, Below, WantsValue, IsReturn, Same
  <2> QED BY <1>1, <2>1, <2>3, <2>4, <2>5, StepVisit DEF Inner
<1>2. CASE Test
  <2> DEFINE n == Kids[Fr.node][IF Kind[Fr.node] = "for" THEN 2 ELSE 1]
  <2>1. In(Loops, "test") /\ Visit(n, Begin("check"))
    BY <1>2 DEF Test
  <2>2. Inner(g, Loops, "test")
    BY <2>1, InnerIs
  <2>3. n \in g.values
    BY <2>2 DEF Inner, NodeFits, Loops
  <2> HIDE DEF n
  <2>4. /\ Resting(Fr) /\ Have(Fr) = 0 /\ Fr.phase # "print" /\ Kind[Fr.node] \in Loops
        /\ ~IsReturn(Fr)
    BY <2>2 DEF Inner, Resting, EndedIf, Catches, Have, WantsValue, IsReturn
  <2>5. Len(list) = Fr.base
    <3>1. Kind[Fr.node] \notin Computing \cup {"return"}
      BY <2>4 DEF Loops, Computing
    <3>2. Len(list) = Fr.base + 0
      BY <2>2, <2>4, <3>1, CalmHere
    <3> QED BY <2>2, <3>2 DEF Inner
  <2>6. /\ Same(Begin("check"), Fr) /\ Begin("check").phase = "check"
        /\ Begin("check").base = Fr.base
    BY <2>2, <2>5, TopFrame DEF Inner, Phases
  <2>7. Goes(Begin("check"))
    BY <2>2, <2>4, <2>6 DEF Goes, Proper, Inner, InnerFrame, PhasesOf, Same, Loops
  <2>8. Awaits(Begin("check"), n, g)
    BY <2>3, <2>4, <2>6 DEF Awaits, WantsValue, WantsSimple, Same, Loops, Computing
  <2>9. Have(Fr) = Below(Begin("check")) /\ (IsReturn(Begin("check")) <=> IsReturn(Fr))
    BY <2>4, <2>6 DEF Below, IsReturn
  <2> QED BY <2>1, <2>2, <2>4, <2>7, <2>8, <2>9, StepVisit DEF Inner
<1>3. CASE Check
  <2>1. Inner(g, Loops, "check")
    BY <1>3, InnerIs DEF Check
  <2>2. /\ Resting(Fr) /\ Have(Fr) = 1 /\ Kind[Fr.node] \in Loops /\ Fr.phase = "check"
        /\ Kind[Fr.node] \notin Computing \cup {"return"}
    BY <2>1 DEF Inner, Resting, EndedIf, Catches, Have, Below, WantsValue, Loops, Computing
  <2>3. Len(list) = Fr.base + 1 /\ helper = Clear /\ Calm(frames, Len(frames), g)
    BY <2>1, <2>2, CalmHere
  <2>4. list # <<>> /\ Last(list) \in {"true", "false"} /\ Len(Front(list)) = Fr.base
    <3>1. Fr.base \in Nat /\ Len(list) # 0 /\ Len(list) - 1 = Fr.base
      BY <2>1, <2>3 DEF Inner
    <3> QED BY <2>1, <3>1, ListFacts DEF Inner, Values, Numbers
  <2>5. /\ list' = Front(list) /\ helper' = helper /\ crashed' = crashed
        /\ errors' = (errors \/ Last(list) = "other")
        /\ IF Last(list) = "true" THEN Continue(To("body")) ELSE Done
    BY <1>3, <2>4 DEF Check
  <2>6. ~errors /\ ~crashed /\ ~errors'
    <3>1. ~errors /\ ~crashed
      BY DEF PInv
    <3>2. Last(list) # "other"
      BY <2>4
    <3> QED BY <2>5, <3>1, <3>2
  <2>7. NoReturn(frames, Len(frames)) /\ Unmarked(frames, Len(frames))
    BY <2>3 DEF Calm
  <2>8. CASE Last(list) = "true"
    <3>1. Same(To("body"), Fr) /\ To("body").phase = "body" /\ To("body").base = Fr.base
      BY <2>1, TopFrame DEF Inner, Phases
    <3>2. /\ InnerFrame(To("body")) /\ ~IsReturn(To("body")) /\ ~MustReturn(To("body"), g)
          /\ To("body").phase # "print" /\ Have(To("body")) = 0
      BY <2>1, <2>2, <3>1
         DEF Inner, InnerFrame, PhasesOf, Kinds, Leaves, Loops, IsReturn, MustReturn, EndedIf,
             Catches, Have, WantsValue, Same, Computing
    <3>3. Len(list') = Fr.base + Have(To("body"))
      BY <2>1, <2>4, <2>5, <3>2 DEF Inner
    <3> QED BY <2>1, <2>3, <2>5, <2>6, <2>7, <2>8, <3>1, <3>2, <3>3, GoesOn
  <2>9. CASE Last(list) # "true"
    <3>1. ~IsExpression(Fr.node) /\ Fr.node \notin g.returning
      BY <2>2, GrammarKinds DEF IsExpression, Loops, Computing
    <3>2. Unmarked(frames, Len(frames) - 1)
      <4>1. \A m \in Nat : \A k \in 1..(m - 1) : k \in 1..m
        OBVIOUS
      <4>2. Len(frames) \in Nat
        BY <2>1, Present DEF Inner
      <4> QED BY <2>7, <4>1, <4>2 DEF Unmarked
    <3> QED BY <2>1, <2>3, <2>4, <2>5, <2>6, <2>7, <2>9, <3>1, <3>2, StatementEnds
  <2> QED BY <2>8, <2>9
<1>4. CASE LoopBody
  <2>1. In(Loops, "body")
    BY <1>4 DEF LoopBody
  <2>2. Inner(g, Loops, "body")
    BY <2>1, InnerIs
  <2>3. /\ Resting(Fr) /\ Have(Fr) = 0 /\ Fr.phase # "print" /\ Kind[Fr.node] \in Loops
        /\ ~IsReturn(Fr) /\ Kind[Fr.node] \notin Computing \cup {"return"}
    BY <2>2 DEF Inner, Resting, EndedIf, Catches, Have, WantsValue, IsReturn, Loops, Computing
  <2>4. /\ Len(list) = Fr.base /\ helper = Clear /\ Calm(frames, Len(frames), g)
        /\ ~errors /\ ~crashed
    <3>1. Len(list) = Fr.base + 0 /\ helper = Clear /\ Calm(frames, Len(frames), g)
      BY <2>2, <2>3, CalmHere
    <3> QED BY <2>2, <3>1 DEF Inner, PInv
  <2>5. Fr \in Frame /\ Len(Body[Fr.node]) \in Nat /\ Fr.i \in Nat \ {0}
    BY <2>2, KidsAre, TopFrame DEF Inner
  <2>6. CASE Fr.i > Len(Body[Fr.node])
    <3> DEFINE q == IF Kind[Fr.node] = "for" THEN "step" ELSE "test"
    <3>1. Continue(Restart(Fr, q)) /\ UNCHANGED <<list, helper, errors, crashed>>
      BY <1>4, <2>6 DEF LoopBody, Restart
    <3>2. q \in {"step", "test"} /\ q \in Phases /\ (q = "step" => Kind[Fr.node] = "for")
      BY DEF Phases
    <3> HIDE DEF q
    <3>3. /\ Same(Restart(Fr, q), Fr) /\ Restart(Fr, q).phase = q
          /\ Restart(Fr, q).base = Fr.base
      BY <2>5, <3>2, Updates
    <3>4. /\ InnerFrame(Restart(Fr, q)) /\ ~IsReturn(Restart(Fr, q))
          /\ ~MustReturn(Restart(Fr, q), g) /\ Restart(Fr, q).phase # "print"
          /\ Have(Restart(Fr, q)) = 0
      BY <2>2, <2>3, <3>2, <3>3
         DEF Inner, InnerFrame, PhasesOf, Kinds, Leaves, Loops, IsReturn, MustReturn, EndedIf,
             Catches, Have, WantsValue, Same, Computing
    <3>5. Len(list') = Fr.base + Have(Restart(Fr, q)) /\ ~errors' /\ ~crashed' /\ helper' = Clear
      BY <2>2, <2>4, <3>1, <3>4 DEF Inner
    <3> QED BY <2>2, <2>4, <3>1, <3>3, <3>4, <3>5, GoesOn DEF Calm
  <2>7. CASE ~(Fr.i > Len(Body[Fr.node]))
    <3>1. Visit(Body[Fr.node][Fr.i], BeginNext(Fr))
      BY <1>4, <2>7 DEF LoopBody, BeginNext
    <3>2. /\ Same(BeginNext(Fr), Fr) /\ BeginNext(Fr).phase = "flags"
          /\ BeginNext(Fr).base = Fr.base
      BY <2>5, Updates
    <3>3. Goes(BeginNext(Fr))
      BY <2>2, <2>3, <3>2 DEF Goes, Proper, Inner, InnerFrame, PhasesOf, Same, Loops
    <3>4. Body[Fr.node][Fr.i] \in g.plain \cup g.inLoop
      <4>1. Fr.i <= Len(Body[Fr.node])
        BY <2>5, <2>7
      <4> QED BY <2>2, <2>3, <2>5, <4>1 DEF Inner, NodeFits
    <3>5. Awaits(BeginNext(Fr), Body[Fr.node][Fr.i], g)
      BY <2>3, <3>2, <3>4 DEF Awaits, MustReturn, EndedIf, Catches, Same, Loops
    <3>6. Have(Fr) = Below(BeginNext(Fr)) /\ (IsReturn(BeginNext(Fr)) <=> IsReturn(Fr))
      BY <2>3, <3>2 DEF Below, IsReturn
    <3> QED BY <2>2, <2>3, <3>1, <3>3, <3>5, <3>6, StepVisit DEF Inner
  <2> QED BY <2>6, <2>7
<1> QED BY <1>1, <1>2, <1>3, <1>4, LoopFlagsGood DEF Loop


(* return: the counter is raised, the value evaluated, the function left. *)
LEMMA RaiseReturnGood ==
  ASSUME NEW g, Grammar(g), PInv(g), RaiseReturn PROVE GoodNext(g)
<1> DEFINE m == Len(frames)
           fr == To("value")
           gs == Put(frames, fr)
<1>1. /\ In({"return"}, "raise") /\ Raise("is_return") /\ Continue(fr)
      /\ UNCHANGED <<list, errors, crashed>>
  BY DEF RaiseReturn
<1>2. Inner(g, {"return"}, "raise")
  BY <1>1, InnerIs
<1>3. Resting(Fr) /\ Have(Fr) = 0 /\ Kind[Fr.node] = "return"
  BY <1>2 DEF Inner, Resting, EndedIf, Catches, Have, WantsValue
<1>4. Len(list) = Fr.base + 0 /\ helper = Clear /\ Calm(frames, m, g)
  BY <1>2, <1>3, CalmHere DEF Inner
<1>5. helper' = Only("is_return")
  BY <1>1, <1>4, Counters DEF Raise, Flags
<1>6. /\ m \in Nat \ {0} /\ m # 1 /\ Fr = frames[m] /\ frames # <<>> /\ Linked(frames, m, g)
      /\ ~errors /\ ~crashed
  BY <1>2, Present DEF Inner
<1>7. Same(fr, Fr) /\ fr.phase = "value" /\ fr.base = Fr.base
  BY <1>2, TopFrame DEF Inner, Phases
<1> HIDE DEF m, fr
<1>8. InnerFrame(fr) /\ Have(fr) = 0 /\ IsReturn(fr) /\ fr.phase # "print"
  BY <1>2, <1>3, <1>7
     DEF Inner, InnerFrame, PhasesOf, Kinds, Leaves, Have, WantsValue, IsReturn, Same, Computing
<1>9. /\ gs \in Seq(Frame) /\ Len(gs) = m /\ gs[m] = fr
      /\ \A k \in 1..(m - 1) : gs[k] = frames[k]
      /\ frames' = gs
  BY <1>1, <1>6, <1>7, PutNext DEF m, Same
<1> HIDE DEF gs
<1>10. Linked(gs, m, g)
  <2>1. Alike(frames, gs, m - 1)
    BY <1>9 DEF Alike, Twin
  <2>2. Proper(gs[m], m) /\ gs[m].node = frames[m].node /\ gs[m].base = frames[m].base
    BY <1>6, <1>7, <1>8, <1>9 DEF Proper, Same
  <2> QED BY <1>6, <2>1, <2>2, LinkedPut
<1>11. Giving(gs, m, g)
  <2>1. \A k \in 1..m : k \in 1..(m - 1) \/ k = m
    BY <1>6
  <2>2. \A k \in 1..m : k \in 1..(m - 1) => ~IsReturn(gs[k])
    BY <1>4, <1>9 DEF Calm, NoReturn
  <2>3. Unmarked(gs, m)
    BY <1>4, <1>6, <1>7, <1>9, <2>1 DEF Calm, Unmarked, Same
  <2>4. m \in 1..m /\ (m + 1)..m = {}
    BY <1>6
  <2>5. Simply(gs, m, m, g)
    BY <2>4 DEF Simply
  <2>6. \A r \in 1..m : IsReturn(gs[r]) => Simply(gs, r, m, g)
    BY <2>1, <2>2, <2>5
  <2> QED BY <1>8, <1>9, <2>3, <2>4, <2>6 DEF Giving
<1>12. Stacked(gs[m], Len(list))
  BY <1>4, <1>7, <1>8, <1>9 DEF Stacked
<1>13. Mode(gs, m, Len(list), Only("is_return"), g)
  BY <1>11, <1>12 DEF Mode
<1>14. Good(gs, Len(list), Only("is_return"), g)
  BY <1>6, <1>9, <1>10, <1>13, GoodIs
<1> QED BY <1>1, <1>5, <1>6, <1>9, <1>14 DEF GoodNext

LEMMA LeaveReturnGood ==
  ASSUME NEW g, Grammar(g), PInv(g), LeaveReturn PROVE GoodNext(g)
<1> DEFINE m == Len(frames)
           k == m - 1
           fs == Front(frames)
           gs == Mark(fs, "return")
<1>1. In({"return"}, "leave") /\ frames' = gs /\ UNCHANGED <<list, helper, errors, crashed>>
  BY DEF LeaveReturn
<1>2. Inner(g, {"return"}, "leave")
  BY <1>1, InnerIs
<1>3. /\ Resting(Fr) /\ Have(Fr) = 1 /\ Kind[Fr.node] = "return" /\ IsReturn(Fr)
      /\ Reaches(frames, k, {"call"}) /\ Fr.base \in Nat
  BY <1>2 DEF Inner, Resting, EndedIf, Catches, Have, WantsValue, Below, IsReturn, NodeFits
<1>4. /\ m \in Nat \ {0} /\ m \in Nat /\ m > 1 /\ Fr = frames[m] /\ frames # <<>>
      /\ frames \in Seq(Frame)
      /\ Linked(frames, m, g) /\ Based(frames, m) /\ ~errors /\ ~crashed
  BY <1>2, Present DEF Inner
<1>5. Len(list) = Fr.base + 1 /\ helper = Only("is_return") /\ Giving(frames, m, g)
  <2>1. ~Calm(frames, m, g)
    <3>1. m \in 1..m
      BY <1>4
    <3> QED BY <1>3, <1>4, <3>1 DEF Calm, NoReturn
  <2>2. Len(list) = Fr.base + Have(Fr)
    BY <1>2, <1>3, AtRest
  <2> QED BY <1>2, <1>3, <2>1, <2>2, AtRest
<1>6. /\ k \in Nat \ {0} /\ Linked(frames, k, g)
      /\ Fr.base = frames[k].base + Below(frames[k]) /\ frames[k].base \in Nat
  BY <1>4, Parent
<1>7. fs \in Seq(Frame) /\ Len(fs) = k /\ \A j \in 1..k : fs[j] = frames[j]
  BY <1>4, FrontProperties
<1>8. k \in 1..k /\ (\A j \in 1..k : j \in 1..m /\ m \in (j + 1)..m)
  BY <1>4, <1>6
<1> HIDE DEF m, k, fs
<1>9. NoReturn(fs, k)
  <2> SUFFICES ASSUME NEW r \in 1..k, IsReturn(frames[r]) PROVE FALSE
    BY <1>7 DEF NoReturn
  <2>1. Kind[frames[m].node] \in Computing
    BY <1>5, <1>8 DEF Giving, Simply
  <2> QED BY <1>3, <1>4, <2>1 DEF Computing
<1>10. Unmarked(fs, k)
  BY <1>5, <1>7, <1>8 DEF Giving, Unmarked
<1>11. Alike(frames, fs, k)
  BY <1>7 DEF Alike, Twin
<1>12. Reaches(fs, k, {"call"})
  BY <1>3, <1>6, <1>8, <1>11, AlikeReaches
<1>13. Leaping(gs, k, {"call"})
  BY <1>6, <1>7, <1>9, <1>10, <1>12, MarkLeaps
<1>14. gs \in Seq(Frame) /\ Len(gs) = k /\ Alike(fs, gs, k) /\ gs[k].base = frames[k].base
  BY <1>7, <1>8, MarkIs DEF Alike, Twin
<1>15. Linked(gs, k, g)
  <2>1. Linked(fs, k, g)
    BY <1>6, <1>11, AlikeLinked
  <2> QED BY <1>6, <1>14, <2>1, AlikeLinked
<1>16. Len(list) = gs[k].base + 1
  <2>1. frames[k].phase \in {"print", "test", "then", "else", "flags"}
    BY <1>3, <1>4, ParentOfStatement DEF IsExpression, k, Computing
  <2>2. Fr.base = frames[k].base
    BY <1>6, <2>1 DEF Below
  <2> QED BY <1>5, <1>14, <2>2
<1> HIDE DEF gs
<1>17. Mode(gs, k, Len(list), helper, g)
  BY <1>5, <1>13, <1>16 DEF Mode
<1>18. Good(gs, Len(list), helper, g)
  BY <1>6, <1>14, <1>15, <1>17, GoodIs
<1> QED BY <1>1, <1>4, <1>18 DEF GoodNext

LEMMA ReturnGood ==
  ASSUME NEW g, Grammar(g), Faults = {}, PInv(g), ReturnNode PROVE GoodNext(g)
<1>1. CASE In({"return"}, "value") /\ Visit(Kids[Fr.node][1], To("leave"))
  <2>1. Inner(g, {"return"}, "value")
    BY <1>1, InnerIs
  <2>2. Same(To("leave"), Fr) /\ To("leave").phase = "leave" /\ To("leave").base = Fr.base
    BY <2>1, TopFrame DEF Inner, Phases
  <2>3. Goes(To("leave"))
    BY <2>1, <2>2 DEF Goes, Proper, Inner, InnerFrame, PhasesOf, Same
  <2>4. Awaits(To("leave"), Kids[Fr.node][1], g)
    <3>1. Kids[Fr.node][1] \in g.simple /\ Kids[Fr.node][1] \in g.values
      BY <2>1, GrammarKinds DEF Inner, NodeFits
    <3> QED BY <2>2, <3>1 DEF Awaits, WantsValue
  <2>5. /\ Resting(Fr) /\ Have(Fr) = Below(To("leave")) /\ Fr.phase # "print"
        /\ IsReturn(To("leave")) <=> IsReturn(Fr)
    BY <2>1, <2>2
       DEF Inner, Resting, EndedIf, Catches, Have, Below, WantsValue, IsReturn, Same
  <2> QED BY <1>1, <2>1, <2>3, <2>4, <2>5, StepVisit DEF Inner
<1> QED BY <1>1, RaiseReturnGood, LeaveReturnGood DEF ReturnNode

(* The next argument, element or index is evaluated. *)
LEMMA AsksGood ==
  ASSUME NEW g, Grammar(g), Faults = {}, PInv(g), NEW p, NEW q,
         NEW kinds, Inner(g, kinds, p),
         \/ p = "args" /\ q = "bind" /\ Kind[Fr.node] \in {"call", "lib"}
         \/ p = "elems" /\ q = "elem" /\ Kind[Fr.node] \in {"array", "access", "setelem"},
         Fr.i <= Len(Kids[Fr.node]), Visit(Kids[Fr.node][Fr.i], Begin(q))
  PROVE  GoodNext(g)
<1>1. /\ Resting(Fr) /\ Have(Fr) = 0 /\ Fr.phase # "print" /\ ~IsReturn(Fr)
      /\ Fr.base \in Nat /\ Fr.i \in Nat \ {0} /\ frames # <<>>
  BY DEF Inner, Resting, EndedIf, Catches, Have, WantsValue, IsReturn
<1>2. Len(list) = Fr.base
  <2>1. Len(list) = Fr.base + 0
    BY <1>1, AtRest
  <2> QED BY <1>1, <2>1
<1>3. Same(Begin(q), Fr) /\ Begin(q).phase = q /\ Begin(q).base = Fr.base
  BY <1>2, TopFrame DEF Inner, Phases
<1>4. Kids[Fr.node] # <<>>
  <2>1. Kids[Fr.node] = <<>> => Len(Kids[Fr.node]) = 0
    OBVIOUS
  <2> QED BY <1>1, <2>1
<1>5. Goes(Begin(q))
  BY <1>3, <1>4 DEF Goes, Proper, Inner, InnerFrame, PhasesOf, Kinds, Leaves, Same, Computing
<1>6. /\ Kids[Fr.node][Fr.i] \in g.values
      /\ Fr.node \in g.simple => Kids[Fr.node][Fr.i] \in g.simple
  <2>1. Kind[Fr.node] = "call" => Fr.node \notin g.simple
    BY GrammarKinds DEF Computing
  <2> QED BY <1>1, <1>4, <2>1 DEF Inner, NodeFits
<1>7. Awaits(Begin(q), Kids[Fr.node][Fr.i], g)
  BY <1>3, <1>6 DEF Awaits, WantsValue, WantsSimple, Same, Computing
<1>8. Have(Fr) = Below(Begin(q)) /\ (IsReturn(Begin(q)) <=> IsReturn(Fr))
  BY <1>1, <1>3 DEF Below, IsReturn
<1> QED BY <1>1, <1>5, <1>7, <1>8, StepVisit

(* Calls. *)
LEMMA ArgumentsGood ==
  ASSUME NEW g, Grammar(g), Faults = {}, PInv(g), Arguments PROVE GoodNext(g)
<1>1. In({"call", "lib"}, "args")
  BY DEF Arguments
<1>2. Inner(g, {"call", "lib"}, "args")
  BY <1>1, InnerIs
<1>3. /\ Resting(Fr) /\ Have(Fr) = 0 /\ Kind[Fr.node] \in {"call", "lib"} /\ Fr \in Frame
      /\ Kind[Fr.node] # "return" /\ ~errors /\ ~crashed
  BY <1>2, TopFrame DEF Inner, Resting, EndedIf, Catches, Have, WantsValue, PInv
<1>4. Len(list) = Fr.base
  <2>1. Len(list) = Fr.base + 0
    BY <1>2, <1>3, AtRest
  <2> QED BY <1>2, <2>1 DEF Inner
<1>5. CASE Kind[Fr.node] = "call" /\ Kids[Fr.node] = <<>>
  <2>1. Done /\ UNCHANGED <<list, helper, errors, crashed>>
    BY <1>5 DEF Arguments
  <2>2. ~IsExpression(Fr.node) /\ Fr.node \notin g.returning
    BY <1>5, GrammarKinds DEF IsExpression, Computing
  <2>3. helper = Clear /\ Calm(frames, Len(frames), g)
    BY <1>2, <1>3, <1>5, CalmHere DEF Computing
  <2>4. NoReturn(frames, Len(frames)) /\ Unmarked(frames, Len(frames) - 1)
    <3>1. \A m \in Nat : \A k \in 1..(m - 1) : k \in 1..m
      OBVIOUS
    <3>2. Len(frames) \in Nat
      BY <1>2, Present DEF Inner
    <3> QED BY <2>3, <3>1, <3>2 DEF Calm, Unmarked
  <2> QED BY <1>2, <1>3, <1>4, <2>1, <2>2, <2>3, <2>4, StatementEnds
<1>6. CASE ~(Kind[Fr.node] = "call" /\ Kids[Fr.node] = <<>>) /\ Fr.i > Len(Kids[Fr.node])
  <2> DEFINE q == IF Kind[Fr.node] = "lib" THEN "finish" ELSE "body"
  <2>1. Continue(Restart(Fr, q)) /\ UNCHANGED <<list, helper, errors, crashed>>
    <3>1. [Fr EXCEPT !.i = 1, !.phase = q] = Restart(Fr, q)
      BY DEF Restart
    <3> QED BY <1>6, <3>1 DEF Arguments
  <2>2. q \in Phases /\ q # "print" /\ q \notin {"then", "else", "flags"}
        /\ (q = "finish" <=> Kind[Fr.node] = "lib") /\ (q = "body" <=> Kind[Fr.node] = "call")
        /\ q \in {"finish", "body"}
    BY <1>3 DEF Phases
  <2> HIDE DEF q
  <2>3. /\ Same(Restart(Fr, q), Fr) /\ Restart(Fr, q).phase = q
        /\ Restart(Fr, q).base = Fr.base /\ Restart(Fr, q).i = 1
    BY <1>3, <2>2, Updates
  <2>4. Kind[Fr.node] = "call" => 1 <= Len(Body[Fr.node])
    <3>1. Len(Body[Fr.node]) \in Nat
      BY <1>2, KidsAre DEF Inner
    <3>2. Kind[Fr.node] = "call" => Len(Body[Fr.node]) # 0
      BY <1>2, <1>6 DEF Inner, NodeFits
    <3> QED BY <3>1, <3>2
  <2>5. /\ InnerFrame(Restart(Fr, q))
        /\ ~MustReturn(Restart(Fr, q), g) /\ Restart(Fr, q).phase # "print"
        /\ Have(Restart(Fr, q)) = 0
    BY <1>3, <1>6, <2>2, <2>3, <2>4
       DEF InnerFrame, PhasesOf, Kinds, Leaves, MustReturn, EndedIf, Catches, Have,
           WantsValue, Same, Computing
  <2>6. Len(list') = Fr.base + Have(Restart(Fr, q)) /\ ~errors' /\ ~crashed'
        /\ helper' = helper
    BY <1>2, <1>3, <1>4, <2>1, <2>5 DEF Inner
  <2> QED BY <1>2, <1>3, <2>1, <2>3, <2>5, <2>6, KeepsOn
<1>7. CASE ~(Kind[Fr.node] = "call" /\ Kids[Fr.node] = <<>>) /\ ~(Fr.i > Len(Kids[Fr.node]))
  <2>1. Visit(Kids[Fr.node][Fr.i], Begin("bind"))
    BY <1>7 DEF Arguments
  <2>2. Fr.i <= Len(Kids[Fr.node])
    <3>1. Fr.i \in Nat /\ Len(Kids[Fr.node]) \in Nat
      BY <1>2, KidsAre DEF Inner
    <3> QED BY <1>7, <3>1
  <2> QED BY <1>2, <1>3, <2>1, <2>2, AsksGood
<1> QED BY <1>5, <1>6, <1>7

LEMMA BindGood ==
  ASSUME NEW g, Grammar(g), PInv(g), Bind PROVE GoodNext(g)
<1>1. /\ In({"call", "lib"}, "bind") /\ UNCHANGED <<helper, errors, crashed>>
      /\ list' = IF list = <<>> THEN list ELSE Front(list)
      /\ Continue(NextArgument(Fr))
  BY DEF Bind, NextArgument
<1>2. Inner(g, {"call", "lib"}, "bind")
  BY <1>1, InnerIs
<1>3. /\ Resting(Fr) /\ Have(Fr) = 1 /\ Kind[Fr.node] \in {"call", "lib"} /\ Fr \in Frame
      /\ Kind[Fr.node] # "return" /\ ~errors /\ ~crashed
  BY <1>2, TopFrame DEF Inner, Resting, EndedIf, Catches, Have, WantsValue, Below, PInv
<1>4. Len(list) = Fr.base + 1
  BY <1>2, <1>3, AtRest
<1>5. Len(list') = Fr.base /\ Fr.base \in Nat
  <2>1. Fr.base \in Nat /\ Len(list) # 0 /\ Len(list) - 1 = Fr.base
    BY <1>2, <1>4 DEF Inner
  <2> QED BY <1>1, <1>2, <2>1, ListFacts DEF Inner
<1>6. /\ Same(NextArgument(Fr), Fr) /\ NextArgument(Fr).phase = "args"
      /\ NextArgument(Fr).base = Fr.base
  BY <1>3, Updates
<1>7. /\ InnerFrame(NextArgument(Fr))
      /\ ~MustReturn(NextArgument(Fr), g) /\ NextArgument(Fr).phase # "print"
      /\ Have(NextArgument(Fr)) = 0
  BY <1>3, <1>6
     DEF InnerFrame, PhasesOf, Kinds, Leaves, MustReturn, EndedIf, Catches, Have,
         WantsValue, Same, Computing
<1>8. Len(list') = Fr.base + Have(NextArgument(Fr)) /\ ~errors' /\ ~crashed'
  BY <1>1, <1>3, <1>5, <1>7
<1> QED BY <1>1, <1>2, <1>3, <1>6, <1>7, <1>8, KeepsOn

(* Elements and indices. *)
LEMMA ElementsGood ==
  ASSUME NEW g, Grammar(g), Faults = {}, PInv(g), Elements PROVE GoodNext(g)
<1> DEFINE kinds == {"array", "access", "setelem"}
<1>1. Inner(g, kinds, "elems")
  BY InnerIs DEF Elements
<1>2. /\ Resting(Fr) /\ Have(Fr) = 0 /\ Kind[Fr.node] \in kinds /\ ~errors /\ ~crashed
      /\ Kind[Fr.node] # "return"
  BY <1>1 DEF Inner, Resting, EndedIf, Catches, Have, WantsValue, PInv
<1>3. CASE Fr.i > Len(Kids[Fr.node])
  <2>1. Continue(To("finish")) /\ UNCHANGED <<list, helper, errors, crashed>>
    BY <1>3 DEF Elements
  <2>2. Same(To("finish"), Fr) /\ To("finish").phase = "finish" /\ To("finish").base = Fr.base
    BY <1>1, TopFrame DEF Inner, Phases
  <2>3. /\ InnerFrame(To("finish")) /\ ~MustReturn(To("finish"), g)
        /\ To("finish").phase # "print" /\ Have(To("finish")) = 0
    BY <1>1, <1>2, <2>2
       DEF Inner, InnerFrame, PhasesOf, Kinds, Leaves, MustReturn, EndedIf, Catches, Have,
           WantsValue, Same, Computing
  <2>4. Len(list') = Fr.base + Have(To("finish")) /\ helper' = helper /\ ~errors' /\ ~crashed'
    BY <1>1, <1>2, <2>1, <2>3, AtRest
  <2> QED BY <1>1, <1>2, <2>1, <2>2, <2>3, <2>4, KeepsOn
<1>4. CASE ~(Fr.i > Len(Kids[Fr.node]))
  <2>1. Visit(Kids[Fr.node][Fr.i], Begin("elem"))
    BY <1>4 DEF Elements
  <2>2. Fr.i <= Len(Kids[Fr.node])
    <3>1. Fr.i \in Nat /\ Len(Kids[Fr.node]) \in Nat
      BY <1>1, KidsAre DEF Inner
    <3> QED BY <1>4, <3>1
  <2> QED BY <1>1, <1>2, <2>1, <2>2, AsksGood
<1> QED BY <1>3, <1>4

LEMMA ElementGood ==
  ASSUME NEW g, Grammar(g), Faults = {}, PInv(g), Element PROVE GoodNext(g)
<1> DEFINE kinds == {"array", "access", "setelem"}
<1>1. Inner(g, kinds, "elem")
  BY InnerIs DEF Element
<1>2. /\ Resting(Fr) /\ Have(Fr) = 1 /\ Kind[Fr.node] \in kinds /\ ~errors /\ ~crashed
      /\ Kind[Fr.node] # "return" /\ Fr \in Frame
  BY <1>1, TopFrame DEF Inner, Resting, EndedIf, Catches, Have, Below, WantsValue, PInv
<1>3. Len(list) = Fr.base + 1
  BY <1>1, <1>2, AtRest
<1>4. list # <<>> /\ Last(list) # "other" /\ Len(Front(list)) = Fr.base /\ Fr.base \in Nat
  <2>1. Fr.base \in Nat /\ Len(list) # 0 /\ Len(list) - 1 = Fr.base
    BY <1>1, <1>3 DEF Inner
  <2> QED BY <1>1, <2>1, ListFacts DEF Inner, Values, Numbers
<1>5. /\ list' = Front(list) /\ Continue(NextElement(Fr)) /\ helper' = helper
      /\ ~errors' /\ ~crashed'
  BY <1>2, <1>4 DEF Element, NextElement
<1>6. /\ Same(NextElement(Fr), Fr) /\ NextElement(Fr).phase = "elems"
      /\ NextElement(Fr).base = Fr.base
  BY <1>2, Updates
<1>7. /\ InnerFrame(NextElement(Fr)) /\ ~MustReturn(NextElement(Fr), g)
      /\ NextElement(Fr).phase # "print" /\ Have(NextElement(Fr)) = 0
  BY <1>2, <1>6
     DEF InnerFrame, PhasesOf, Kinds, Leaves, MustReturn, EndedIf, Catches, Have,
         WantsValue, Same, Computing
<1>8. Len(list') = Fr.base + Have(NextElement(Fr))
  BY <1>4, <1>5, <1>7
<1> QED BY <1>1, <1>2, <1>5, <1>6, <1>7, <1>8, KeepsOn

LEMMA FinishGood ==
  ASSUME NEW g, Grammar(g), Faults = {}, PInv(g), Finish PROVE GoodNext(g)
<1> DEFINE kinds == {"lib", "array", "access", "setelem"}
<1>1. Inner(g, kinds, "finish") /\ Done /\ UNCHANGED <<helper, crashed>>
  BY InnerIs DEF Finish
<1>2. /\ Resting(Fr) /\ Have(Fr) = 0 /\ Kind[Fr.node] \in kinds /\ ~errors /\ ~crashed
      /\ TypeOK /\ Fr.base \in Nat
  BY <1>1 DEF Inner, Resting, EndedIf, Catches, Have, WantsValue, PInv
<1>3. Len(list) = Fr.base
  <2>1. Len(list) = Fr.base + 0
    BY <1>1, <1>2, AtRest
  <2> QED BY <1>2, <2>1
<1>4. \/ /\ Kind[Fr.node] \in {"lib", "array", "access"}
         /\ \E v \in Results[Kind[Fr.node]] : Push(v)
         /\ errors' = errors
      \/ Kind[Fr.node] = "setelem" /\ list' = list /\ errors' = errors
  BY <1>2 DEF Finish, Results
<1>5. CASE /\ Kind[Fr.node] \in {"lib", "array", "access"}
           /\ \E v \in Results[Kind[Fr.node]] : Push(v)
           /\ errors' = errors
  <2>1. PICK v : list' = Append(list, v)
    BY <1>5 DEF Push
  <2>2. Len(list') = Fr.base + 1
    BY <1>2, <1>3, <2>1, ListFacts
  <2>3. Kind[Fr.node] \in Computing
    BY <1>5 DEF Computing
  <2> QED BY <1>1, <1>2, <1>5, <2>2, <2>3, ExpressionEnds
<1>6. CASE Kind[Fr.node] = "setelem" /\ list' = list /\ errors' = errors
  <2>1. ~IsExpression(Fr.node) /\ Fr.node \notin g.returning
    BY <1>6, GrammarKinds DEF IsExpression, Computing
  <2>2. helper = Clear /\ Calm(frames, Len(frames), g)
    BY <1>1, <1>2, <1>6, CalmHere DEF Computing
  <2>3. NoReturn(frames, Len(frames)) /\ Unmarked(frames, Len(frames) - 1)
    <3>1. \A m \in Nat : \A k \in 1..(m - 1) : k \in 1..m
      OBVIOUS
    <3>2. Len(frames) \in Nat
      BY <1>1, Present DEF Inner
    <3> QED BY <2>2, <3>1, <3>2 DEF Calm, Unmarked
  <2> QED BY <1>1, <1>2, <1>3, <1>6, <2>1, <2>2, <2>3, StatementEnds
<1> QED BY <1>4, <1>5, <1>6

LEMMA CallBodyGood ==
  ASSUME NEW g, Grammar(g), Faults = {}, PInv(g), CallBody PROVE GoodNext(g)
<1>1. In({"call"}, "body")
  BY DEF CallBody
<1>2. Inner(g, {"call"}, "body")
  BY <1>1, InnerIs
<1>3. /\ Resting(Fr) /\ Have(Fr) = 0 /\ Fr.phase # "print" /\ Kind[Fr.node] = "call"
      /\ ~IsReturn(Fr) /\ Fr \in Frame /\ Kids[Fr.node] # <<>>
      /\ Fr.i <= Len(Body[Fr.node]) /\ Fr.i \in Nat \ {0} /\ Len(Body[Fr.node]) \in Nat
  BY <1>2, TopFrame, KidsAre
     DEF Inner, Resting, EndedIf, Catches, Have, WantsValue, IsReturn, InnerFrame
<1>4. Visit(Body[Fr.node][Fr.i], BeginNext(Fr))
  <2>1. ~(Fr.i > Len(Body[Fr.node]))
    BY <1>3
  <2> QED BY <2>1 DEF CallBody, BeginNext
<1>5. /\ Same(BeginNext(Fr), Fr) /\ BeginNext(Fr).phase = "flags"
      /\ BeginNext(Fr).base = Fr.base /\ BeginNext(Fr).i = Fr.i + 1
  BY <1>3, Updates
<1>6. Goes(BeginNext(Fr))
  BY <1>2, <1>3, <1>5 DEF Goes, Proper, Inner, InnerFrame, PhasesOf, Same
<1>7. Awaits(BeginNext(Fr), Body[Fr.node][Fr.i], g)
  <2>1. /\ Body[Fr.node][Fr.i] \in g.plain \cup g.inFunction
        /\ Body[Fr.node][Len(Body[Fr.node])] \in g.returning
    BY <1>2, <1>3 DEF Inner, NodeFits
  <2>2. MustReturn(BeginNext(Fr), g) => Fr.i = Len(Body[Fr.node])
    <3>1. Fr.i + 1 > Len(Body[Fr.node]) => Fr.i = Len(Body[Fr.node])
      BY <1>3
    <3> QED BY <1>3, <1>5, <3>1 DEF MustReturn, EndedIf, Catches, Same
  <2> QED BY <1>3, <1>5, <2>1, <2>2 DEF Awaits, Catches, Same
<1>8. Have(Fr) = Below(BeginNext(Fr)) /\ (IsReturn(BeginNext(Fr)) <=> IsReturn(Fr))
  BY <1>3, <1>5 DEF Below, IsReturn
<1> QED BY <1>2, <1>3, <1>4, <1>6, <1>7, <1>8, StepVisit DEF Inner

LEMMA CallFlagsGood ==
  ASSUME NEW g, Grammar(g), PInv(g), CallFlags PROVE GoodNext(g)
<1>1. /\ In({"call"}, "flags") /\ TakeFlag(Consumed) /\ UNCHANGED <<list, errors, crashed>>
      /\ IF Consumed \in {"RES_ERROR", "RES_RETURN"} THEN Done ELSE Continue(To("body"))
  BY DEF CallFlags
<1>2. Inner(g, {"call"}, "flags")
  BY <1>1, InnerIs
<1>3. /\ ~errors /\ ~crashed /\ Kind[Fr.node] = "call" /\ Fr.base \in Nat
      /\ Kids[Fr.node] # <<>>
  BY <1>2 DEF PInv, Inner, InnerFrame
<1>4. /\ NoReturn(frames, Len(frames)) /\ Unmarked(frames, Len(frames) - 1)
      /\ \/ helper = Clear /\ Unmarked(frames, Len(frames)) /\ Len(list) = Fr.base
            /\ ~MustReturn(Fr, g)
         \/ helper = Only("is_return") /\ Len(list) = Fr.base + 1
  <2>1. Loops # {"call"}
    BY DEF Loops
  <2> QED BY <1>2, <2>1, Caught
<1>5. CASE helper = Clear /\ Unmarked(frames, Len(frames)) /\ Len(list) = Fr.base
           /\ ~MustReturn(Fr, g)
  <2>1. Consumed = "RES_OK" /\ helper' = Clear
    BY <1>1, <1>3, <1>5, FlagsTaken
  <2>2. /\ Same(To("body"), Fr) /\ To("body").phase = "body" /\ To("body").base = Fr.base
        /\ To("body").i = Fr.i
    BY <1>2, TopFrame DEF Inner, Phases
  <2>3. Fr.i <= Len(Body[Fr.node])
    <3>1. ~(Fr.i > Len(Body[Fr.node]))
      BY <1>2, <1>3, <1>5 DEF MustReturn, Catches, Inner
    <3>2. Fr.i \in Nat /\ Len(Body[Fr.node]) \in Nat
      BY <1>2, KidsAre DEF Inner
    <3> QED BY <3>1, <3>2
  <2>4. /\ InnerFrame(To("body")) /\ ~IsReturn(To("body")) /\ ~MustReturn(To("body"), g)
        /\ To("body").phase # "print" /\ Have(To("body")) = 0
    BY <1>3, <2>2, <2>3
       DEF InnerFrame, PhasesOf, Kinds, Leaves, IsReturn, MustReturn, EndedIf, Catches, Have,
           WantsValue, Same, Computing
  <2>5. Len(list') = Fr.base + Have(To("body"))
    BY <1>1, <1>3, <1>5, <2>4
  <2> QED BY <1>1, <1>2, <1>3, <1>4, <1>5, <2>1, <2>2, <2>4, <2>5, GoesOn
<1>6. CASE helper = Only("is_return") /\ Len(list) = Fr.base + 1
  <2>1. Consumed = "RES_RETURN" /\ helper' = Clear
    BY <1>1, <1>3, <1>6, FlagsTaken
  <2>2. /\ Len(frames) \in Nat \ {0} /\ Fr = frames[Len(frames)] /\ frames # <<>>
        /\ Linked(frames, Len(frames), g) /\ Based(frames, Len(frames)) /\ Len(frames) > 1
    BY <1>2, Present DEF Inner
  <2>3. /\ Linked(frames, Len(frames) - 1, g)
        /\ Mode(frames, Len(frames) - 1, Fr.base + 1, Clear, g)
    BY <1>3, <1>4, <2>2, PopExpression DEF IsExpression, Computing
  <2>4. Good(Front(frames), Fr.base + 1, Clear, g)
    BY <2>2, <2>3, PopNext
  <2>5. Done
    BY <1>1, <2>1
  <2> QED BY <1>1, <1>3, <1>6, <2>1, <2>4, <2>5 DEF GoodNext, Done
<1> QED BY <1>4, <1>5, <1>6

LEMMA StartGood ==
  ASSUME NEW g, PInv(g), NEW n \in Lines, StartLine(n) PROVE GoodNext(g)
<1> DEFINE fr == [node |-> n, phase |-> "line", i |-> 1, base |-> 0, cause |-> "none"]
<1>1. frames = <<>> /\ frames' = <<fr>> /\ UNCHANGED <<list, helper, errors, crashed>>
  BY DEF StartLine
<1>2. fr \in Frame /\ LineFrame(fr) /\ fr.phase = "line" /\ fr.base = 0 /\ fr.cause = "none"
  BY TraverseAssumption DEF Frame, Phases, LineFrame
<1> HIDE DEF fr
<1>3. frames' \in Seq(Frame) /\ Len(frames') = 1 /\ frames'[1] = fr
  BY <1>1, <1>2
<1>4. helper = Clear /\ Len(list) = 0 /\ ~errors /\ ~crashed
  BY <1>1 DEF PInv, Good
<1>5. Linked(frames', 1, g)
  BY <1>2, <1>3 DEF Linked, Link, Proper
<1>6. ~IsReturn(fr) /\ ~MustReturn(fr, g) /\ Stacked(fr, 0)
  BY <1>2 DEF IsReturn, MustReturn, EndedIf, Catches, Stacked, Have, WantsValue
<1>7. NoReturn(frames', 1) /\ Unmarked(frames', 1)
  BY <1>2, <1>3, <1>6 DEF NoReturn, Unmarked
<1>8. Mode(frames', 1, 0, Clear, g)
  BY <1>3, <1>6, <1>7 DEF Mode, Calm
<1>9. Good(frames', 0, Clear, g)
  <2>1. frames' # <<>>
    BY <1>3, EmptySeq
  <2> QED BY <1>3, <1>5, <1>8, <2>1 DEF Good
<1> QED BY <1>1, <1>4, <1>9 DEF GoodNext


-----------------------------------------------------------------------------
(* The invariant holds at the start and every step keeps it. *)
LEMMA PInvInit == ASSUME NEW g, Init PROVE PInv(g)
<1>1. Typed(errors)
  BY InitTyped
<1>2. frames = <<>> /\ list = <<>> /\ helper = Clear /\ ~errors /\ ~crashed
  BY DEF Init, Clear
<1>3. Len(list) = 0
  BY <1>2
<1> QED BY <1>1, <1>2, <1>3 DEF PInv, Good

LEMMA PInvNext ==
  ASSUME NEW g, Grammar(g), Faults = {}, PInv(g), [Next]_vars
  PROVE  PInv(g)'
<1>1. Typed(errors)'
  BY NextStops DEF PInv, Stops, Typed
<1>2. GoodNext(g)
  <2>1. CASE UNCHANGED vars
    BY <2>1 DEF vars, PInv, GoodNext
  <2>2. CASE \E n \in Lines : StartLine(n)
    BY <2>2, StartGood
  <2>3. CASE Handle
    <3>1. CASE Call
      BY <3>1, ArgumentsGood, BindGood, CallBodyGood, CallFlagsGood DEF Call
    <3>2. CASE Indexed
      BY <3>2, ElementsGood, ElementGood, FinishGood DEF Indexed
    <3> QED BY <2>3, <3>1, <3>2, RunLineGood, PrintGood, OpGood, AssignGood, IfGood, LoopGood,
               ReturnGood DEF Handle
  <2> QED BY <2>1, <2>2, <2>3 DEF Next
<1> QED BY <1>1, <1>2 DEF PInv, GoodNext

(* A handler about to pop finds what it has asked for. *)
LEMMA PInvPops == ASSUME NEW g, PInv(g) PROVE PopsOwn
<1> SUFFICES ASSUME frames # <<>>, Fr.phase \in DOMAIN Pops
             PROVE  Len(list) = Fr.base + Pops[Fr.phase]
  BY DEF PopsOwn
<1>1. Fr.phase \in {"branch", "check", "store", "apply", "bind", "elem"}
  BY DEF Pops
<1>2. Resting(Fr) /\ Fr.phase # "print" /\ Have(Fr) = Pops[Fr.phase]
  BY <1>1 DEF Resting, EndedIf, Catches, Have, WantsValue, Below, Pops
<1>3. Stacked(Fr, Len(list))
  BY <1>2, Present, NoLeap
<1> QED BY <1>2, <1>3 DEF Stacked

LEMMA PInvFlags == ASSUME NEW g, PInv(g) PROVE FlagsClearAtPrompt
<1> SUFFICES ASSUME frames = <<>>, NEW f \in Flags PROVE helper[f] = 0
  BY DEF FlagsClearAtPrompt
<1>1. helper = Clear
  BY DEF PInv, Good
<1> QED BY <1>1, Counters

(* The step after a jump: the handler at the top ends, or is the loop of a
   continue. *)
LEMMA PInvJumps ==
  ASSUME NEW g, PInv(g), [Next]_vars, NEW i \in DOMAIN frames, frames[i].cause # "none"
  PROVE  /\ Len(frames') <= Len(frames)
         /\ list' = list
         /\ \A f \in Flags : helper'[f] <= helper[f]
<1>1. /\ frames \in Seq(Frame) /\ helper \in [Flags -> 0..MaxFlag] /\ TypeOK /\ ~errors
  BY DEF PInv, Typed, TypeOK
<1>2. frames # <<>> /\ i \in 1..Len(frames) /\ Len(frames) \in Nat
  BY <1>1, LenProperties, EmptySeq
<1>3. /\ Len(frames) \in Nat \ {0} /\ Fr = frames[Len(frames)]
      /\ Mode(frames, Len(frames), Len(list), helper, g) /\ Fr \in Frame
  BY <1>2, Present
<1>4. ~Unmarked(frames, Len(frames))
  BY <1>2 DEF Unmarked
<1>5. PICK kinds \in {Loops, {"call"}} : Leaping(frames, Len(frames), kinds)
  BY <1>3, <1>4 DEF Mode, Calm, Giving
<1>6. helper \in {Only("is_break"), Only("is_continue"), Only("is_return")}
  BY <1>3, <1>4 DEF Mode, Calm
<1>7. EndedIf(Fr) \/ Catches(Fr, kinds)
  <2>1. PICK c \in 1..Len(frames) : LeadsTo(frames, Len(frames), c, kinds)
    BY <1>5 DEF Leaping
  <2> QED BY <1>3, <2>1, LeapingTop
<1>8. /\ Front(frames) \in Seq(Frame) /\ Len(Front(frames)) = Len(frames) - 1
      /\ Len(frames) - 1 <= Len(frames)
  BY <1>1, <1>2, FrontProperties
<1>9. MaxFlag \in Nat /\ \A f \in Flags : helper[f] \in Nat /\ helper[f] <= helper[f]
  BY <1>1, TraverseAssumption
<1>10. ASSUME helper' = Clear \/ helper' = helper, NEW f \in Flags
       PROVE  helper'[f] <= helper[f]
  <2>1. Clear[f] = 0
    BY Counters
  <2> QED BY <1>9, <1>10, <2>1
<1>11. CASE UNCHANGED vars
  BY <1>2, <1>9, <1>11 DEF vars
<1>12. ASSUME NEW n \in Lines, StartLine(n) PROVE FALSE
  BY <1>2, <1>12 DEF StartLine
<1>13. CASE EndedIf(Fr) /\ Handle
  <2>1. Kind[Fr.node] = "if" /\ Fr.phase \in {"then", "else"}
    BY <1>13 DEF EndedIf
  <2>2. Block("then", Body[Fr.node]) \/ Block("else", Else[Fr.node])
    BY <1>13, <2>1
       DEF Handle, RunLine, PrintResult, Op, Apply, Assign, Store, If, Branch, Loop, Test, Check,
           LoopBody, LoopFlags, ReturnNode, RaiseReturn, LeaveReturn, Call, Arguments, Bind,
           CallBody, CallFlags, Indexed, Elements, Element, Finish, In, Loops
  <2>3. Done /\ UNCHANGED <<list, helper>>
    BY <1>13, <2>2 DEF Block, EndedIf, In
  <2> QED BY <1>8, <1>10, <2>3 DEF Done
<1>14. CASE Catches(Fr, kinds) /\ Handle
  <2>1. Kind[Fr.node] \in Loops \cup {"call"} /\ Fr.phase = "flags"
    BY <1>14 DEF Catches
  <2>2. LoopFlags \/ CallFlags
    BY <1>14, <2>1
       DEF Handle, RunLine, PrintResult, Op, Apply, Assign, Store, If, Branch, Block, Loop, Test,
           Check, LoopBody, ReturnNode, RaiseReturn, LeaveReturn, Call, Arguments, Bind,
           CallBody, Indexed, Elements, Element, Finish, In, Loops
  <2>3. TakeFlag(Consumed) /\ list' = list
    BY <2>2 DEF LoopFlags, CallFlags
  <2>4. helper' = Clear
    BY <1>1, <1>6, <2>3, FlagsTaken
  <2>5. Done \/ \E p \in {"test", "body"} : Continue(To(p))
    BY <2>2 DEF LoopFlags, CallFlags
  <2>6. ASSUME NEW p \in {"test", "body"}, Continue(To(p)) PROVE Len(frames') = Len(frames)
    <3>1. To(p) \in Frame
      BY <1>1, <1>2, TopFrame DEF Phases, Same
    <3> QED BY <1>2, <2>6, <3>1, PutNext
  <2>7. Len(frames') <= Len(frames)
    BY <1>2, <1>8, <2>5, <2>6 DEF Done
  <2> QED BY <1>10, <2>3, <2>4, <2>7
<1> QED BY <1>7, <1>11, <1>12, <1>13, <1>14 DEF Next

-----------------------------------------------------------------------------
(* The programs of a grammar that run without errors. *)

(* A handler pops the values of its own expressions, never one that another
   handler waits for: the operands of op, the condition of if, while and for, the
   value of an assignment, the arguments of a call, the elements of a literal, the
   indices of an element. *)
THEOREM PlainPopsOwn ==
  ASSUME NEW CONSTANT g, Grammar(g), Faults = {}
  PROVE  Spec => []PopsOwn
<1>1. Init => PInv(g)
  BY PInvInit
<1>2. PInv(g) /\ [Next]_vars => PInv(g)'
  BY PInvNext
<1>3. PInv(g) => PopsOwn
  BY PInvPops
<1> QED BY <1>1, <1>2, <1>3, PTL DEF Spec

(* No handler follows a null pointer: pop() has a value for every condition,
   element and index, and every node is there that a handler traverses. *)
THEOREM PlainNoCrash ==
  ASSUME NEW CONSTANT g, Grammar(g), Faults = {}
  PROVE  Spec => []NoCrash
<1>1. Init => PInv(g)
  BY PInvInit
<1>2. PInv(g) /\ [Next]_vars => PInv(g)'
  BY PInvNext
<1>3. PInv(g) => NoCrash
  BY DEF PInv, NoCrash
<1> QED BY <1>1, <1>2, <1>3, PTL DEF Spec

(* Every counter that break, continue or return raised is taken back before the
   prompt returns. *)
THEOREM PlainFlagsClear ==
  ASSUME NEW CONSTANT g, Grammar(g), Faults = {}
  PROVE  Spec => []FlagsClearAtPrompt
<1>1. Init => PInv(g)
  BY PInvInit
<1>2. PInv(g) /\ [Next]_vars => PInv(g)'
  BY PInvNext
<1>3. PInv(g) => FlagsClearAtPrompt
  BY PInvFlags
<1> QED BY <1>1, <1>2, <1>3, PTL DEF Spec

(* break ends the innermost loop and return the innermost function: until that
   handler has returned nothing is begun, popped, pushed or raised. *)
THEOREM PlainJumpsObeyed ==
  ASSUME NEW CONSTANT g, Grammar(g), Faults = {}
  PROVE  Spec => JumpsObeyed
<1>1. Init => PInv(g)
  BY PInvInit
<1>2. PInv(g) /\ [Next]_vars => PInv(g)'
  BY PInvNext
<1>3. PInv(g) /\ [Next]_vars =>
        [(\E i \in DOMAIN frames : frames[i].cause # "none") =>
           /\ Len(frames') <= Len(frames)
           /\ list' = list
           /\ \A f \in Flags : helper'[f] <= helper[f]]_vars
  BY PInvJumps
<1> QED BY <1>1, <1>2, <1>3, PTL DEF Spec, JumpsObeyed

==============================================================================
