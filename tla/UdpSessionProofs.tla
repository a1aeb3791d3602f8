--------------------------- MODULE UdpSessionProofs ---------------------------
(***************************************************************************)
(* Proofs about the reassembly of images, for any number of images and     *)
(* fragments and any behaviour of the network.                             *)
(***************************************************************************)
EXTENDS UdpSession, FiniteSetTheorems, TLAPS

\* As long as there are no more images than frame numbers, the frame number
\* identifies the image.
LEMMA FrameInjective ==
  ASSUME NEW i \in Images, NEW j \in Images, FrameOf(i) = FrameOf(j)
  PROVE  i = j
<1> DEFINE x == FirstFrame + i - 1
           y == FirstFrame + j - 1
<1>1. /\ FrameMod \in Nat /\ FrameMod > 0 /\ FirstFrame \in 0..(FrameMod - 1)
      /\ i \in 1..FrameMod /\ j \in 1..FrameMod
  BY UdpAssumption DEF Images, Frames
<1>2. \A n \in 0..(FrameMod - 1) : n % FrameMod = n
  BY <1>1
<1>3. \A n \in FrameMod..(2 * FrameMod - 1) : n % FrameMod = n - FrameMod
  BY <1>1
<1> QED
  BY <1>1, <1>2, <1>3 DEF FrameOf

-------------------------------------------------------------------------------
(* The inductive invariant *)

\* Everything in fragments_ has the current frame number and a place in its image.
OneFrame ==
  \A s \in DOMAIN fragments_ :
    FrameOf(fragments_[s]) = current_frame_ /\ s \in 0..Last[fragments_[s]]

UdpInv == TypeOK /\ OneFrame /\ WholeImages

\* The construction of a session establishes the invariant.
LEMMA UdpInit == Init => UdpInv
<1> SUFFICES ASSUME Init PROVE UdpInv
  OBVIOUS
<1>1. handshakeDone \in BOOLEAN /\ hung \in BOOLEAN
  BY Zenon DEF Init
<1>2. /\ expired \in Seq(Frames) /\ control \in Seq(Messages)
      /\ images \in Seq(Deliverables) /\ fragments_ = <<>> /\ DOMAIN fragments_ = {}
      /\ images = <<>>
  BY DEF Init, Empty
<1>3. /\ current_frame_ \in Frames /\ expected_max_seq_ \in Seqs
      /\ expected_meta_ \in 0..NumImages /\ timer \in Frames \union {NoFrame}
  BY UdpAssumption DEF Init, Frames, Seqs, NoFrame
<1>4. received \in [Images -> [Seqs -> 0..MaxCopies]]
  BY UdpAssumption DEF Init
<1>5. TypeOK
  BY <1>1, <1>2, <1>3, <1>4 DEF TypeOK
<1> QED
  BY <1>2, <1>5 DEF UdpInv, OneFrame, WholeImages

\* What a fragment leaves in the map, if it is not the last one.
LEMMA StoreFacts ==
  ASSUME UdpInv, NEW img \in Images, NEW seq \in 0..Last[img]
  PROVE  LET stored == Store(Base(img), seq, img) IN
         /\ \A s \in DOMAIN Base(img) : Base(img)[s] = img /\ s \in 0..Last[img]
         /\ \A s \in DOMAIN stored : stored[s] = img /\ s \in 0..Last[img]
         /\ Complete(stored, img) => DOMAIN stored = 0..Last[img]
         /\ 0..Last[img] \subseteq Seqs /\ FrameOf(img) \in Frames
<1> DEFINE stored == Store(Base(img), seq, img)
<1>1. /\ Last[img] \in Nat /\ 0..Last[img] \subseteq Seqs
      /\ FrameOf(img) \in Frames
  BY UdpAssumption DEF Seqs, Images, Frames, FrameOf
<1>2. \A s \in DOMAIN Base(img) : Base(img)[s] = img /\ s \in 0..Last[img]
  <2>1. CASE FrameOf(img) # current_frame_
    <3>1. DOMAIN Base(img) = {}
      BY <2>1 DEF Base, Empty
    <3> QED
      BY <3>1
  <2>2. CASE FrameOf(img) = current_frame_
    <3>1. Base(img) = fragments_
      BY <2>2 DEF Base
    <3>2. \A s \in DOMAIN fragments_ : fragments_[s] \in Images /\ fragments_[s] = img
      BY <2>2, FrameInjective DEF UdpInv, TypeOK, OneFrame
    <3> QED
      BY <3>1, <3>2 DEF UdpInv, OneFrame
  <2> QED
    BY <2>1, <2>2
<1>3. \A s \in DOMAIN stored : stored[s] = img /\ s \in 0..Last[img]
  BY <1>2 DEF Store
<1>4. ASSUME Complete(stored, img) PROVE DOMAIN stored = 0..Last[img]
  <2>1. IsFiniteSet(0..Last[img]) /\ Cardinality(0..Last[img]) = Last[img] + 1
    <3> DEFINE m == Last[img]
    <3>1. m \in Nat
      BY <1>1
    <3> HIDE DEF m
    <3>2. IsFiniteSet(0..m) /\ Cardinality(0..m) = m + 1
      BY <3>1, FS_Interval
    <3> QED
      BY <3>2 DEF m
  <2>2. DOMAIN stored \subseteq 0..Last[img]
    BY <1>3
  <2>3. Cardinality(DOMAIN stored) = Last[img] + 1
    BY <1>4 DEF Complete
  <2> HIDE DEF stored
  <2> QED
    BY <2>1, <2>2, <2>3, FS_Subset
<1> QED
  BY <1>1, <1>2, <1>3, <1>4

\* A fragment, whatever its image, keeps the invariant.
LEMMA FragmentStep ==
  ASSUME UdpInv, NEW img \in Images, NEW seq \in 0..Last[img], HandlePacket(img, seq)
  PROVE  UdpInv'
<1> DEFINE stored == Store(Base(img), seq, img)
           item == [img |-> img, meta |-> expected_meta_, pieces |-> Concatenate(stored, img)]
<1>1. /\ \A s \in DOMAIN Base(img) : Base(img)[s] = img /\ s \in 0..Last[img]
      /\ \A s \in DOMAIN stored : stored[s] = img /\ s \in 0..Last[img]
      /\ Complete(stored, img) => DOMAIN stored = 0..Last[img]
      /\ 0..Last[img] \subseteq Seqs /\ FrameOf(img) \in Frames
  BY StoreFacts
<1>2. /\ current_frame_' = FrameOf(img) /\ expected_max_seq_' \in Seqs
      /\ timer' \in Frames \union {NoFrame}
      /\ received' \in [Images -> [Seqs -> 0..MaxCopies]]
  <2>1. /\ current_frame_' = FrameOf(img)
        /\ expected_max_seq_' \in {Last[img], expected_max_seq_}
        /\ timer' \in {NoFrame, FrameOf(img), timer}
    BY DEF HandlePacket, handleImageFragment, Armed
  <2>2. Last[img] \in Seqs
    BY UdpAssumption
  <2>3. received' \in [Images -> [Seqs -> 0..MaxCopies]]
    BY UdpAssumption, <1>1 DEF HandlePacket, UdpInv, TypeOK
  <2> QED
    BY <1>1, <2>1, <2>2, <2>3 DEF UdpInv, TypeOK
<1>3. UNCHANGED <<expected_meta_, handshakeDone, expired, hung>>
  BY DEF HandlePacket
<1>4. fragments_' \in {Empty, Base(img), stored}
  BY DEF HandlePacket, handleImageFragment
<1>5. \A s \in DOMAIN fragments_' : fragments_'[s] = img /\ s \in 0..Last[img]
  BY <1>1, <1>4 DEF Empty
<1>6. \/ UNCHANGED <<images, control>>
      \/ /\ Complete(stored, img) /\ images' = Append(images, item)
         /\ control' = Append(control, Ack)
  BY DEF HandlePacket, handleImageFragment
<1>7. ASSUME Complete(stored, img)
      PROVE  /\ Concatenate(stored, img) \in [0..Last[img] -> {img}]
             /\ item \in Deliverables
  <2>1. Concatenate(stored, img) \in [0..Last[img] -> {img}]
    BY <1>1, <1>7 DEF Concatenate
  <2>2. Concatenate(stored, img) \in [0..Last[img] -> Images \union {NoPiece}]
    BY <2>1
  <2> HIDE DEF stored
  <2> QED
    BY <2>1, <2>2 DEF Deliverables, UdpInv, TypeOK
<1> HIDE DEF stored, item
<1>8. TypeOK'
  <2>1. images' \in Seq(Deliverables) /\ control' \in Seq(Messages)
    <3>1. Ack \in Messages
      BY DEF Messages
    <3>2. images \in Seq(Deliverables) /\ control \in Seq(Messages)
      BY DEF UdpInv, TypeOK
    <3>3. CASE UNCHANGED <<images, control>>
      BY <3>2, <3>3
    <3>4. CASE /\ Complete(stored, img) /\ images' = Append(images, item)
               /\ control' = Append(control, Ack)
      BY <1>7, <3>1, <3>2, <3>4
    <3> QED
      BY <1>6, <3>3, <3>4
  <2>2. handshakeDone' \in BOOLEAN /\ hung' \in BOOLEAN
    BY <1>3, Zenon DEF UdpInv, TypeOK
  <2>3. expected_meta_' \in 0..NumImages /\ expired' \in Seq(Frames)
    BY <1>3 DEF UdpInv, TypeOK
  <2>4. DOMAIN fragments_' \subseteq Seqs /\ \A s \in DOMAIN fragments_' : fragments_'[s] \in Images
    BY <1>1, <1>5
  <2>5. current_frame_' \in Frames
    BY <1>1, <1>2
  <2> QED
    BY <1>2, <2>1, <2>2, <2>3, <2>4, <2>5 DEF TypeOK
<1>9. OneFrame'
  BY <1>2, <1>5 DEF OneFrame
<1>10. WholeImages'
  <2>1. CASE UNCHANGED <<images, control>>
    BY <2>1 DEF UdpInv, WholeImages
  <2>2. CASE Complete(stored, img) /\ images' = Append(images, item)
    <3>1. ASSUME NEW n \in DOMAIN images' PROVE (n \in DOMAIN images /\ images'[n] = images[n]) \/ images'[n] = item
      BY <2>2 DEF UdpInv, TypeOK
    <3>2. /\ item.img = img /\ item.pieces \in [0..Last[img] -> {img}]
      BY <1>7, <2>2 DEF item
    <3> QED
      BY <3>1, <3>2 DEF UdpInv, WholeImages
  <2> QED
    BY <1>6, <2>1, <2>2
<1> QED
  BY <1>8, <1>9, <1>10 DEF UdpInv

\* Every other handler leaves the fragments and the finished images alone.
LEMMA UdpStep == UdpInv /\ [Next]_vars => UdpInv'
<1> SUFFICES ASSUME UdpInv, [Next]_vars PROVE UdpInv'
  OBVIOUS
<1>1. ASSUME NEW img \in Images, NEW seq \in 0..Last[img], HandlePacket(img, seq)
      PROVE UdpInv'
  BY <1>1, FragmentStep
<1>2. ASSUME NEW m \in Images, setExpectedMeta(m) PROVE UdpInv'
  BY <1>2 DEF setExpectedMeta, UdpInv, TypeOK, OneFrame, WholeImages, Images
<1>3. CASE Handshake
  BY <1>3 DEF Handshake, UdpInv, TypeOK, OneFrame, WholeImages
<1>4. CASE TimerExpires
  <2>1. timer \in Frames /\ timer' = NoFrame /\ expired' = Append(expired, timer)
    BY <1>4 DEF TimerExpires, UdpInv, TypeOK
  <2>2. UNCHANGED <<current_frame_, expected_max_seq_, fragments_, expected_meta_,
                    handshakeDone, received, control, images, hung>>
    BY <1>4 DEF TimerExpires
  <2>3. TypeOK'
    BY <2>1, <2>2 DEF UdpInv, TypeOK
  <2> QED
    BY <2>2, <2>3 DEF UdpInv, OneFrame, WholeImages
<1>5. CASE TimerHandler
  <2>1. /\ expired' \in Seq(Frames)
        /\ UNCHANGED <<current_frame_, expected_max_seq_, fragments_, expected_meta_,
                       handshakeDone, received, images>>
    BY <1>5 DEF TimerHandler, UdpInv, TypeOK
  <2>2. hung' \in BOOLEAN
    BY <1>5, Zenon DEF TimerHandler, checkMissingFragments, UdpInv, TypeOK
  <2>3. timer' \in {timer, current_frame_} /\ control' \in {control, Append(control, Request(current_frame_, Missing))}
    BY <1>5 DEF TimerHandler, checkMissingFragments
  <2>4. Request(current_frame_, Missing) \in Messages
    <3>1. Missing \subseteq Seqs
      BY UdpAssumption DEF Missing, UdpInv, TypeOK, Seqs
    <3> QED
      BY <3>1 DEF Request, Messages, UdpInv, TypeOK
  <2>5. control' \in Seq(Messages) /\ timer' \in Frames \union {NoFrame}
    <3> DEFINE q == Request(current_frame_, Missing)
    <3>1. q \in Messages /\ control' \in {control, Append(control, q)}
      BY <2>3, <2>4
    <3>2. control \in Seq(Messages) /\ timer' \in Frames \union {NoFrame}
      BY <2>3 DEF UdpInv, TypeOK
    <3> HIDE DEF q
    <3> QED
      BY <3>1, <3>2
  <2>6. TypeOK'
    BY <2>1, <2>2, <2>5 DEF UdpInv, TypeOK
  <2> QED
    BY <2>1, <2>6 DEF UdpInv, OneFrame, WholeImages
<1>6. CASE ControlSent
  BY <1>6 DEF ControlSent, UdpInv, TypeOK, OneFrame, WholeImages
<1>7. CASE UNCHANGED vars
  BY <1>7 DEF vars, UdpInv, TypeOK, OneFrame, WholeImages
<1> QED
  BY <1>1, <1>2, <1>3, <1>4, <1>5, <1>6, <1>7 DEF Next, DropPacket, Spin

\* The type invariant of a session, whatever the network does.
THEOREM UdpTypeCorrect == Spec => []TypeOK
<1>1. UdpInv => TypeOK
  BY DEF UdpInv
<1> QED
  BY <1>1, UdpInit, UdpStep, PTL DEF Spec

\* onComplete_ only ever sees whole images made of their own fragments.
THEOREM ImagesAreWhole == Spec => []WholeImages
<1>1. UdpInv => WholeImages
  BY DEF UdpInv
<1> QED
  BY <1>1, UdpInit, UdpStep, PTL DEF Spec

-------------------------------------------------------------------------------
(* Counting deliveries *)

\* The deliveries of an image can be counted.
LEMMA DeliveriesFinite ==
  ASSUME TypeOK, NEW i \in Images
  PROVE  /\ IsFiniteSet({n \in DOMAIN images : images[n].img = i})
         /\ Deliveries(i) \in Nat
<1> DEFINE A == {n \in DOMAIN images : images[n].img = i}
           k == Len(images)
<1>1. k \in Nat /\ A \subseteq 1..k
  BY DEF TypeOK
<1> HIDE DEF A, k
<1>2. IsFiniteSet(1..k)
  BY <1>1, FS_Interval
<1>3. IsFiniteSet(A)
  BY <1>1, <1>2, FS_Subset
<1>4. Cardinality(A) \in Nat
  BY <1>3, FS_CardinalityType
<1> QED
  BY <1>3, <1>4 DEF A, Deliveries

\* onComplete_ adds one delivery to the image it is called with.
LEMMA DeliveriesAppend ==
  ASSUME TypeOK, NEW x \in Deliverables, images' = Append(images, x), NEW i \in Images
  PROVE  Deliveries(i)' = IF x.img = i THEN Deliveries(i) + 1 ELSE Deliveries(i)
<1> DEFINE A == {n \in DOMAIN images : images[n].img = i}
           B == {n \in DOMAIN images' : images'[n].img = i}
           k == Len(images)
<1>1. /\ k \in Nat /\ images \in Seq(Deliverables)
      /\ DOMAIN images = 1..k /\ DOMAIN images' = 1..(k + 1)
      /\ \A n \in 1..k : images'[n] = images[n]
      /\ images'[k + 1] = x
  BY DEF TypeOK
<1>2. B = (IF x.img = i THEN A \union {k + 1} ELSE A) /\ k + 1 \notin A
  BY <1>1
<1>3. IsFiniteSet(A)
  BY DeliveriesFinite
<1> HIDE DEF A, B, k
<1>4. Cardinality(A \union {k + 1}) = Cardinality(A) + 1
  BY <1>2, <1>3, FS_AddElement
<1>5. Cardinality(B) = IF x.img = i THEN Cardinality(A) + 1 ELSE Cardinality(A)
  BY <1>2, <1>4
<1> QED
  BY <1>5 DEF A, B, Deliveries

-------------------------------------------------------------------------------
(* Deliveries against copies *)

\* Each delivery of an image, and the reassembly under way, has used a copy of
\* its own of every fragment it holds.
Held(i, s) == IF s \in DOMAIN fragments_ /\ fragments_[s] = i THEN 1 ELSE 0

CopiesSpent ==
  \A i \in Images : \A s \in 0..Last[i] : Deliveries(i) + Held(i, s) <= received[i][s]

\* The frame being reassembled was begun by one of its fragments, which also gave
\* the maximum; it is not complete, and if nothing is held it has been delivered.
\* The frame number a session starts with, 255 in the code, was begun by nobody.
FrameBegun ==
  current_frame_ # FrameMod - 1 =>
    \E i \in Images :
      /\ FrameOf(i) = current_frame_ /\ expected_max_seq_ = Last[i]
      /\ ~(0..Last[i] \subseteq DOMAIN fragments_)
      /\ fragments_ = Empty => Deliveries(i) > 0

\* LossIsNoticed for every other frame number.
NoticedElsewhere == current_frame_ # FrameMod - 1 => LossIsNoticed

LossInv == UdpInv /\ CopiesSpent /\ FrameBegun /\ NoticedElsewhere

\* A new session has delivered and received nothing.
LEMMA LossInit == Init => LossInv
<1> SUFFICES ASSUME Init PROVE LossInv
  OBVIOUS
<1>1. UdpInv /\ TypeOK
  BY UdpInit DEF UdpInv
<1>2. current_frame_ = FrameMod - 1
  BY DEF Init
<1>3. \A i \in Images : Deliveries(i) = 0
  <2> SUFFICES ASSUME NEW i \in Images PROVE Deliveries(i) = 0
    OBVIOUS
  <2>1. {n \in DOMAIN images : images[n].img = i} = {}
    BY DEF Init
  <2> QED
    BY <2>1, FS_EmptySet DEF Deliveries
<1>4. CopiesSpent
  <2> SUFFICES ASSUME NEW i \in Images, NEW s \in 0..Last[i]
               PROVE  Deliveries(i) + Held(i, s) <= received[i][s]
    BY DEF CopiesSpent
  <2>1. s \in Seqs
    BY UdpAssumption DEF Seqs
  <2>2. received[i][s] = 0 /\ DOMAIN fragments_ = {}
    BY <2>1 DEF Init, Empty
  <2> QED
    BY <1>3, <2>2 DEF Held
<1> QED
  BY <1>1, <1>2, <1>4 DEF LossInv, FrameBegun, NoticedElsewhere

\* The three outcomes of a fragment, with what they do to the counters.
LEMMA FragmentOutcome ==
  ASSUME LossInv, NEW img \in Images, NEW seq \in 0..Last[img], HandlePacket(img, seq)
  PROVE  LET base == Base(img)
             stored == Store(base, seq, img)
         IN  /\ \A i \in Images : Deliveries(i) \in Nat /\ Deliveries(i)' \in Nat
             /\ \/ /\ seq \in DOMAIN base /\ fragments_' = base /\ timer' = Armed(img)
                   /\ \A i \in Images : Deliveries(i)' = Deliveries(i)
                \/ /\ seq \notin DOMAIN base /\ fragments_' = stored /\ timer' = Armed(img)
                   /\ ~(0..Last[img] \subseteq DOMAIN stored)
                   /\ \A i \in Images : Deliveries(i)' = Deliveries(i)
                \/ /\ seq \notin DOMAIN base /\ fragments_' = Empty
                   /\ DOMAIN stored = 0..Last[img]
                   /\ \A i \in Images :
                        Deliveries(i)' = IF i = img THEN Deliveries(i) + 1 ELSE Deliveries(i)
<1> DEFINE base == Base(img)
           stored == Store(base, seq, img)
           item == [img |-> img, meta |-> expected_meta_, pieces |-> Concatenate(stored, img)]
<1>1. TypeOK /\ TypeOK'
  BY FragmentStep DEF LossInv, UdpInv
<1>2. \A i \in Images : Deliveries(i) \in Nat
  BY <1>1, DeliveriesFinite
<1>3. /\ \A s \in DOMAIN stored : stored[s] = img /\ s \in 0..Last[img]
      /\ Complete(stored, img) => DOMAIN stored = 0..Last[img]
      /\ Last[img] \in Nat
  BY StoreFacts, UdpAssumption DEF LossInv, Seqs
<1>4. ASSUME UNCHANGED images PROVE \A i \in Images : Deliveries(i)' = Deliveries(i)
  BY <1>4 DEF Deliveries
<1>5. CASE /\ seq \in DOMAIN base /\ fragments_' = base /\ timer' = Armed(img)
           /\ UNCHANGED <<images, control>>
  BY <1>2, <1>4, <1>5
<1>6. CASE /\ seq \notin DOMAIN base /\ ~Complete(stored, img)
           /\ fragments_' = stored /\ timer' = Armed(img)
           /\ UNCHANGED <<images, control>>
  <2>1. ~(0..Last[img] \subseteq DOMAIN stored)
    <3>1. SUFFICES ASSUME 0..Last[img] \subseteq DOMAIN stored PROVE FALSE
      OBVIOUS
    <3>2. DOMAIN stored = 0..Last[img]
      BY <1>3, <3>1
    <3> DEFINE m == Last[img]
    <3>3. m \in Nat
      BY <1>3
    <3> HIDE DEF m, stored
    <3>4. Cardinality(0..m) = m + 1
      BY <3>3, FS_Interval
    <3> QED
      BY <1>6, <3>2, <3>4 DEF m, Complete
  <2> QED
    BY <1>2, <1>4, <1>6, <2>1
<1>7. CASE /\ seq \notin DOMAIN base /\ Complete(stored, img) /\ fragments_' = Empty
           /\ images' = Append(images, item)
  <2>1. item \in Deliverables
    <3>1. images' \in Seq(Deliverables) /\ images \in Seq(Deliverables)
      BY <1>1 DEF TypeOK
    <3>2. Concatenate(stored, img) \in [0..Last[img] -> {img}]
      BY <1>3, <1>7 DEF Concatenate
    <3>3. Concatenate(stored, img) \in [0..Last[img] -> Images \union {NoPiece}]
      BY <3>2
    <3> HIDE DEF stored
    <3> QED
      BY <1>1, <3>3 DEF Deliverables, TypeOK
  <2>2. item.img = img
    OBVIOUS
  <2> HIDE DEF item, stored
  <2>3. \A i \in Images :
          Deliveries(i)' = IF img = i THEN Deliveries(i) + 1 ELSE Deliveries(i)
    BY <1>1, <1>7, <2>1, <2>2, DeliveriesAppend
  <2>4. \A i \in Images : Deliveries(i)' \in Nat
    BY <1>2, <2>3
  <2>5. DOMAIN stored = 0..Last[img]
    BY <1>3, <1>7
  <2> QED
    BY <1>2, <1>7, <2>3, <2>4, <2>5 DEF stored
<1> QED
  BY <1>5, <1>6, <1>7 DEF HandlePacket, handleImageFragment

\* A fragment spends a copy on what it adds, and completion turns the copies held
\* into a delivery.
LEMMA CopiesStep ==
  ASSUME LossInv, NEW img \in Images, NEW seq \in 0..Last[img], HandlePacket(img, seq)
  PROVE  CopiesSpent'
<1> DEFINE base == Base(img)
           stored == Store(base, seq, img)
<1>1. \A i \in Images : \A s \in 0..Last[i] :
        /\ received'[i][s] = IF i = img /\ s = seq THEN received[i][s] + 1 ELSE received[i][s]
        /\ received[i][s] \in Nat
  <2>1. received \in [Images -> [Seqs -> 0..MaxCopies]] /\ MaxCopies \in Nat
    BY UdpAssumption DEF LossInv, UdpInv, TypeOK
  <2>2. \A i \in Images : 0..Last[i] \subseteq Seqs
    BY UdpAssumption DEF Seqs
  <2>3. received' = [received EXCEPT ![img][seq] = @ + 1]
    BY DEF HandlePacket
  <2> QED
    BY <2>1, <2>2, <2>3
<1>2. \A i \in Images : \A s \in 0..Last[i] :
        s \in DOMAIN base /\ base[s] = i => Held(i, s) = 1 /\ i = img
  <2>1. CASE FrameOf(img) # current_frame_
    BY <2>1 DEF Base, Empty
  <2>2. CASE FrameOf(img) = current_frame_
    BY <2>2, StoreFacts DEF Base, Held, LossInv
  <2> QED
    BY <2>1, <2>2
<1>3. /\ \A s \in DOMAIN base : base[s] = img
      /\ DOMAIN stored = DOMAIN base \union {seq}
      /\ \A s \in DOMAIN stored : stored[s] = img
  BY StoreFacts DEF LossInv, Store
<1>4. \A i \in Images : \A s \in 0..Last[i] :
        Deliveries(i) \in Nat /\ Deliveries(i) <= received[i][s]
        /\ Held(i, s) \in {0, 1} /\ Deliveries(i) + Held(i, s) <= received[i][s]
  <2>1. \A i \in Images : Deliveries(i) \in Nat
    BY FragmentOutcome
  <2> QED
    BY <1>1, <2>1 DEF LossInv, CopiesSpent, Held
<1> SUFFICES ASSUME NEW i \in Images, NEW s \in 0..Last[i]
             PROVE  Deliveries(i)' + Held(i, s)' <= received'[i][s]
  BY DEF CopiesSpent
<1>5. Held(i, s)' = IF s \in DOMAIN fragments_' /\ fragments_'[s] = i THEN 1 ELSE 0
  BY DEF Held
<1>6. CASE seq \in DOMAIN base /\ fragments_' = base /\ Deliveries(i)' = Deliveries(i)
  BY <1>1, <1>2, <1>4, <1>5, <1>6
<1>7. CASE seq \notin DOMAIN base /\ fragments_' = stored /\ Deliveries(i)' = Deliveries(i)
  <2>1. CASE i = img /\ s = seq
    BY <1>1, <1>4, <1>5, <2>1, <1>7
  <2>2. CASE ~(i = img /\ s = seq)
    <3>1. s \in DOMAIN stored /\ stored[s] = i => s \in DOMAIN base /\ base[s] = i
      BY <1>3, <2>2
    <3> HIDE DEF stored, base
    <3> QED
      BY <1>1, <1>2, <1>4, <1>5, <1>7, <2>2, <3>1
  <2> QED
    BY <2>1, <2>2
<1>8. CASE /\ seq \notin DOMAIN base /\ fragments_' = Empty /\ DOMAIN stored = 0..Last[img]
           /\ Deliveries(i)' = IF i = img THEN Deliveries(i) + 1 ELSE Deliveries(i)
  <2>1. Held(i, s)' = 0
    BY <1>5, <1>8 DEF Empty
  <2>2. CASE i = img /\ s # seq
    <3>1. Held(i, s) = 1
      BY <1>2, <1>3, <1>8, <2>2
    <3> QED
      BY <1>1, <1>4, <1>8, <2>1, <2>2, <3>1
  <2>3. CASE ~(i = img /\ s # seq)
    BY <1>1, <1>4, <1>8, <2>1, <2>3
  <2> QED
    BY <2>2, <2>3
<1> QED
  BY <1>6, <1>7, <1>8, FragmentOutcome

\* A fragment leaves its own image as the one being reassembled.
LEMMA BegunStep ==
  ASSUME LossInv, NEW img \in Images, NEW seq \in 0..Last[img], HandlePacket(img, seq)
  PROVE  FrameBegun'
<1> DEFINE base == Base(img)
           stored == Store(base, seq, img)
<1> SUFFICES ASSUME current_frame_' # FrameMod - 1
             PROVE  /\ FrameOf(img) = current_frame_' /\ expected_max_seq_' = Last[img]
                    /\ ~(0..Last[img] \subseteq DOMAIN fragments_')
                    /\ fragments_' = Empty => Deliveries(img)' > 0
  BY DEF FrameBegun
<1>1. /\ current_frame_' = FrameOf(img)
      /\ expected_max_seq_' = IF FrameOf(img) # current_frame_ THEN Last[img] ELSE expected_max_seq_
  BY DEF HandlePacket, handleImageFragment
<1>2. Last[img] \in Nat
  BY UdpAssumption DEF Seqs
<1>3. ASSUME FrameOf(img) = current_frame_
      PROVE  /\ base = fragments_ /\ expected_max_seq_ = Last[img]
             /\ ~(0..Last[img] \subseteq DOMAIN fragments_)
             /\ fragments_ = Empty => Deliveries(img) > 0
  <2>1. PICK i \in Images :
          /\ FrameOf(i) = current_frame_ /\ expected_max_seq_ = Last[i]
          /\ ~(0..Last[i] \subseteq DOMAIN fragments_)
          /\ fragments_ = Empty => Deliveries(i) > 0
    BY <1>1, <1>3 DEF LossInv, FrameBegun
  <2>2. i = img
    BY <1>3, <2>1, FrameInjective
  <2> QED
    BY <1>3, <2>1, <2>2 DEF Base
<1>4. FrameOf(img) # current_frame_ => DOMAIN base = {}
  BY DEF Base, Empty
<1>5. expected_max_seq_' = Last[img]
  BY <1>1, <1>3
<1>6. Deliveries(img) \in Nat /\ seq \in DOMAIN stored
  BY FragmentOutcome DEF Store
<1>7. CASE seq \in DOMAIN base /\ fragments_' = base /\ Deliveries(img)' = Deliveries(img)
  BY <1>1, <1>3, <1>4, <1>5, <1>7
<1>8. CASE /\ seq \notin DOMAIN base /\ fragments_' = stored
           /\ ~(0..Last[img] \subseteq DOMAIN stored)
  <2>1. fragments_' # Empty
    BY <1>6, <1>8 DEF Empty
  <2> QED
    BY <1>1, <1>5, <1>8, <2>1
<1>9. CASE fragments_' = Empty /\ Deliveries(img)' = Deliveries(img) + 1
  <2>1. 0 \in 0..Last[img] /\ 0 \notin DOMAIN fragments_'
    BY <1>2, <1>9 DEF Empty
  <2> QED
    BY <1>1, <1>5, <1>6, <1>9, <2>1
<1> QED
  BY <1>7, <1>8, <1>9, FragmentOutcome

\* A fragment that begins a frame starts the wait; one that does not leaves it.
LEMMA NoticedStep ==
  ASSUME LossInv, NEW img \in Images, NEW seq \in 0..Last[img], HandlePacket(img, seq)
  PROVE  NoticedElsewhere'
<1> SUFFICES ASSUME current_frame_' # FrameMod - 1, NEW i \in Images, Assembling(i)'
             PROVE  \/ timer' = current_frame_' \/ hung'
                    \/ \E n \in DOMAIN expired' : expired'[n] = current_frame_'
  BY DEF NoticedElsewhere, LossIsNoticed
<1>1. current_frame_' = FrameOf(img) /\ UNCHANGED <<expired, hung>>
  BY DEF HandlePacket, handleImageFragment
<1>2. i = img /\ fragments_' # Empty /\ Deliveries(img)' = 0
  BY <1>1, FrameInjective DEF Assembling
<1>3. Deliveries(img) = 0 /\ timer' = Armed(img)
  BY <1>2, FragmentOutcome
<1>4. CASE FrameOf(img) # current_frame_
  BY <1>1, <1>3, <1>4 DEF Armed
<1>5. CASE FrameOf(img) = current_frame_
  <2>1. fragments_ # Empty
    <3>1. PICK j \in Images :
            FrameOf(j) = current_frame_ /\ (fragments_ = Empty => Deliveries(j) > 0)
      BY <1>1, <1>5 DEF LossInv, FrameBegun
    <3>2. j = img
      BY <1>5, <3>1, FrameInjective
    <3> QED
      BY <1>3, <3>1, <3>2
  <2>2. Assembling(img)
    BY <1>3, <1>5, <2>1 DEF Assembling
  <2>3. timer' = timer /\ current_frame_' = current_frame_
    BY <1>1, <1>3, <1>5 DEF Armed
  <2>4. \/ timer = current_frame_ \/ hung
        \/ \E n \in DOMAIN expired : expired[n] = current_frame_
    BY <1>1, <1>5, <2>2 DEF LossInv, NoticedElsewhere, LossIsNoticed
  <2> QED
    BY <1>1, <2>3, <2>4, Zenon
<1> QED
  BY <1>4, <1>5

\* Handlers that leave the reassembly alone disturb neither counts nor frame.
LEMMA ReassemblyKept ==
  ASSUME LossInv, UNCHANGED <<current_frame_, expected_max_seq_, fragments_, received, images>>
  PROVE  /\ CopiesSpent' /\ FrameBegun'
         /\ \A i \in Images : Assembling(i)' <=> Assembling(i)
BY DEF LossInv, CopiesSpent, FrameBegun, Deliveries, Held, Assembling

\* The handler of a wait that has run out either starts another wait, or its frame
\* is not the one being reassembled.
LEMMA TimerStep ==
  ASSUME LossInv, TimerHandler
  PROVE  NoticedElsewhere'
<1> SUFFICES ASSUME current_frame_ # FrameMod - 1, NEW i \in Images, Assembling(i)
             PROVE  \/ timer' = current_frame_ \/ hung'
                    \/ \E n \in DOMAIN expired' : expired'[n] = current_frame_
  BY ReassemblyKept DEF TimerHandler, NoticedElsewhere, LossIsNoticed
<1>1. /\ expired \in Seq(Frames) /\ expired # <<>> /\ expired' = Tail(expired)
      /\ expected_max_seq_ \in Seqs /\ ~hung
  BY DEF TimerHandler, LossInv, UdpInv, TypeOK
<1>2. CASE Head(expired) = current_frame_ /\ fragments_ # Empty /\ checkMissingFragments
  <2>1. Missing # {}
    <3>1. PICK j \in Images :
            /\ expected_max_seq_ = Last[j] /\ ~(0..Last[j] \subseteq DOMAIN fragments_)
      BY DEF LossInv, FrameBegun
    <3> QED
      BY <3>1 DEF Missing
  <2> QED
    BY <1>2, <2>1, Zenon DEF checkMissingFragments
<1>3. CASE (Head(expired) # current_frame_ \/ fragments_ = Empty) /\ UNCHANGED <<timer, hung>>
  <2>1. Head(expired) # current_frame_
    BY <1>3 DEF Assembling
  <2>2. \/ timer = current_frame_
        \/ \E n \in DOMAIN expired : expired[n] = current_frame_
    BY <1>1 DEF LossInv, NoticedElsewhere, LossIsNoticed
  <2>3. ASSUME NEW n \in DOMAIN expired, expired[n] = current_frame_
        PROVE  n - 1 \in DOMAIN expired' /\ expired'[n - 1] = current_frame_
    <3>1. n # 1
      BY <1>1, <2>1, <2>3
    <3> QED
      BY <1>1, <2>3, <3>1
  <2> QED
    BY <1>3, <2>2, <2>3
<1> QED
  BY <1>2, <1>3 DEF TimerHandler

\* Every step preserves the invariant.
LEMMA LossStep == LossInv /\ [Next]_vars => LossInv'
<1> SUFFICES ASSUME LossInv, [Next]_vars PROVE LossInv'
  OBVIOUS
<1>0. UdpInv' /\ TypeOK
  BY UdpStep DEF LossInv, UdpInv
<1>1. ASSUME NEW img \in Images, NEW seq \in 0..Last[img], HandlePacket(img, seq)
      PROVE LossInv'
  BY <1>0, <1>1, CopiesStep, BegunStep, NoticedStep DEF LossInv
<1>2. CASE TimerHandler
  BY <1>0, <1>2, TimerStep, ReassemblyKept DEF LossInv, TimerHandler
<1>3. CASE TimerExpires
  <2>1. /\ timer' = NoFrame /\ expired' = Append(expired, timer) /\ timer \in Frames
        /\ expired \in Seq(Frames)
        /\ UNCHANGED <<current_frame_, expected_max_seq_, fragments_, received, images, hung>>
    BY <1>0, <1>3 DEF TimerExpires, TypeOK
  <2>2. /\ Len(expired) + 1 \in DOMAIN expired' /\ expired'[Len(expired) + 1] = timer
        /\ \A n \in DOMAIN expired : n \in DOMAIN expired' /\ expired'[n] = expired[n]
    BY <2>1
  <2>3. NoticedElsewhere'
    BY <2>1, <2>2, ReassemblyKept DEF LossInv, NoticedElsewhere, LossIsNoticed
  <2> QED
    BY <1>0, <2>1, <2>3, ReassemblyKept DEF LossInv
<1>4. ASSUME UNCHANGED <<current_frame_, expected_max_seq_, fragments_, received, images,
                         timer, expired, hung>>
      PROVE  LossInv'
  <2>1. NoticedElsewhere'
    BY <1>4, ReassemblyKept DEF LossInv, NoticedElsewhere, LossIsNoticed
  <2> QED
    BY <1>0, <1>4, <2>1, ReassemblyKept DEF LossInv
<1> QED
  BY <1>1, <1>2, <1>3, <1>4
  DEF Next, DropPacket, Spin, Handshake, setExpectedMeta, ControlSent, vars

\* LossInv holds in every reachable state.
LEMMA LossInvariant == Spec => []LossInv
BY LossInit, LossStep, PTL DEF Spec

\* However often fragments are repeated, an image is delivered no more often than
\* each of its fragments was received.
THEOREM RedeliveryIsPaidFor == Spec => []RedeliveryNeedsWholeCopy
<1>1. LossInv => RedeliveryNeedsWholeCopy
  <2> SUFFICES ASSUME LossInv, NEW i \in Images, NEW s \in 0..Last[i]
               PROVE  Deliveries(i) <= received[i][s]
    BY DEF RedeliveryNeedsWholeCopy
  <2>1. Deliveries(i) \in Nat /\ Held(i, s) \in {0, 1}
    BY DeliveriesFinite DEF LossInv, UdpInv, Held
  <2>2. received[i][s] \in Nat
    BY UdpAssumption DEF LossInv, UdpInv, TypeOK, Seqs
  <2>3. Deliveries(i) + Held(i, s) <= received[i][s]
    BY DEF LossInv, CopiesSpent
  <2> QED
    BY <2>1, <2>2, <2>3
<1> QED
  BY <1>1, LossInvariant, PTL

\* As long as no image has the frame number a session starts with, a fragment that
\* is lost while its image is first put together is going to be noticed: the wait
\* is running, or its handler is queued.  The hypothesis is needed, see the run
\* with FirstFrame = FrameMod - 1.
THEOREM LossesAreNoticed ==
  ASSUME \A i \in Images : FrameOf(i) # FrameMod - 1
  PROVE  Spec => []LossIsNoticed
<1>1. LossInv => LossIsNoticed
  BY DEF LossInv, NoticedElsewhere, LossIsNoticed, Assembling
<1> QED
  BY <1>1, LossInvariant, PTL

===============================================================================
