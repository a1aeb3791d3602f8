------------------------------ MODULE UdpSession ------------------------------
(***************************************************************************)
(* Src/Network/UdpSession.hpp: reassembly of images that arrive as DTLS    *)
(* protected UDP fragments, and the requests for the fragments that do not *)
(* arrive.  All handlers run on the one thread of the io_context, so a     *)
(* handler is a step.  The network is left open here: any record may be    *)
(* received at any time, in any order, or never.                           *)
(*                                                                         *)
(* A frame number stands for an image as long as fewer images than frame   *)
(* numbers are about (uint8_t FrameNumber), which FrameOf assumes.         *)
(***************************************************************************)
EXTENDS Integers, Sequences, FiniteSets

CONSTANTS NumImages,   \* images the server sends, numbered from 1
          Last,        \* Last[i]: MaxSequenceNumber of image i
          FirstFrame,  \* frame number of image 1
          FrameMod,    \* 2^8: FrameNumber is a uint8_t
          SeqMod,      \* 2^8: SequenceNumber is a uint8_t
          MaxCopies,   \* bound: how often the server sends a fragment
          ControlCap   \* bound: control messages waiting for the TCP session

Images == 1..NumImages
FrameOf(i) == (FirstFrame + i - 1) % FrameMod
Frames == 0..(FrameMod - 1)
NoFrame == -1
Seqs == 0..(SeqMod - 1)

ASSUME UdpAssumption ==
  /\ NumImages \in Nat /\ FrameMod \in Nat \ {0} /\ SeqMod \in Nat \ {0}
  /\ NumImages <= FrameMod
  /\ FirstFrame \in Frames
  /\ Last \in [Images -> Seqs]
  /\ MaxCopies \in Nat /\ ControlCap \in Nat

VARIABLES current_frame_, expected_max_seq_,
          fragments_,      \* sequence number -> the image the bytes belong to
          expected_meta_,  \* image the last IMAGE meta announced, 0 if none
          handshakeDone,   \* dtlsSession_->isHandshakeDone()
          received,        \* history: records of a fragment DTLS accepted
          timer,           \* frame reassembly_timer_ waits for, or NoFrame
          expired,         \* handlers of waits that ran out, still to be run
          control,         \* messages given to sendControl_
          images,          \* history: what onComplete_ was called with
          hung             \* the io thread is inside a loop that never ends

vars == <<current_frame_, expected_max_seq_, fragments_, expected_meta_,
          handshakeDone, received, timer, expired, control, images, hung>>

Empty == <<>>
NoPiece == 0

Request(f, m) == [kind |-> "request", frame |-> f, missing |-> m]
Ack == [kind |-> "receive"]
Messages == [kind : {"request"}, frame : Frames, missing : SUBSET Seqs] \union {Ack}

Deliverables ==
  [img : Images, meta : 0..NumImages,
   pieces : UNION {[0..Last[i] -> Images \union {NoPiece}] : i \in Images}]

\* Members at construction; the frame number before the first image is 255.
Init ==
  /\ current_frame_ = FrameMod - 1 /\ expected_max_seq_ = 0
  /\ fragments_ = Empty /\ expected_meta_ = 0
  /\ handshakeDone = FALSE /\ received = [i \in Images |-> [s \in Seqs |-> 0]]
  /\ timer = NoFrame /\ expired = <<>>
  /\ control = <<>> /\ images = <<>> /\ hung = FALSE

-------------------------------------------------------------------------------

MutStore(frags, seq, img) ==
  [s \in DOMAIN frags \union {seq + 1} |-> IF s = seq + 1 THEN img ELSE frags[s]]

Store(frags, seq, img) ==
  [s \in DOMAIN frags \union {seq} |-> IF s = seq THEN img ELSE frags[s]]

\* fragments_.size() == maxSeqNo + 1: a count, with the packet's own maximum.
Complete(frags, img) == Cardinality(DOMAIN frags) = Last[img] + 1

\* fragments_[0] .. fragments_[max] one after the other.
Concatenate(frags, img) ==
  [s \in 0..Last[img] |-> IF s \in DOMAIN frags THEN frags[s] ELSE NoPiece]

MutBase(img) == fragments_

\* A frame number other than the current one starts an empty reassembly.
Base(img) == IF FrameOf(img) # current_frame_ THEN Empty ELSE fragments_

MutArmed(img) ==
  IF FrameOf(img) # current_frame_ /\ timer = NoFrame THEN FrameOf(img) ELSE timer

\* ... and sets the 50 ms timer for it, cancelling the wait for another frame.
Armed(img) == IF FrameOf(img) # current_frame_ THEN FrameOf(img) ELSE timer

\* A fragment is written over what is there, and the map is emptied only when
\* the next frame starts.
MutFragment(img, seq) ==
  LET stored == Store(Base(img), seq, img)
      done   == Complete(stored, img)
  IN  /\ current_frame_' = FrameOf(img)
      /\ expected_max_seq_' =
           IF FrameOf(img) # current_frame_ THEN Last[img] ELSE expected_max_seq_
      /\ fragments_' = stored
      /\ timer' = IF done THEN NoFrame ELSE Armed(img)
      /\ images' = IF done
                   THEN Append(images, [img |-> img, meta |-> expected_meta_,
                                        pieces |-> Concatenate(stored, img)])
                   ELSE images
      /\ control' = IF done THEN Append(control, Ack) ELSE control

handleImageFragment(img, seq) ==
  LET stored == Store(Base(img), seq, img)
  IN  /\ current_frame_' = FrameOf(img)
      /\ expected_max_seq_' =
           IF FrameOf(img) # current_frame_ THEN Last[img] ELSE expected_max_seq_
      /\ \/ /\ seq \in DOMAIN Base(img)
            /\ fragments_' = Base(img) /\ timer' = Armed(img)
            /\ UNCHANGED <<images, control>>
         \/ /\ seq \notin DOMAIN Base(img) /\ ~Complete(stored, img)
            /\ fragments_' = stored /\ timer' = Armed(img)
            /\ UNCHANGED <<images, control>>
         \/ /\ seq \notin DOMAIN Base(img) /\ Complete(stored, img)
            /\ fragments_' = Empty /\ timer' = NoFrame
            /\ images' = Append(images, [img |-> img, meta |-> expected_meta_,
                                         pieces |-> Concatenate(stored, img)])
            /\ control' = Append(control, Ack)

\* An IMAGE datagram: dropped before the handshake is done or when decrypt
\* returns nothing, as it does for a record that is damaged or replayed.
HandlePacket(img, seq) ==
  /\ ~hung /\ Len(control) < ControlCap
  /\ handshakeDone /\ received[img][seq] < MaxCopies
  /\ received' = [received EXCEPT ![img][seq] = @ + 1]
  /\ handleImageFragment(img, seq)
  /\ UNCHANGED <<expected_meta_, handshakeDone, expired, hung>>

DropPacket == ~hung /\ UNCHANGED vars

\* A handshake datagram, bare or wrapped in a PacketHeader: the last flight
\* finishes the handshake.
Handshake ==
  /\ ~hung /\ ~handshakeDone
  /\ handshakeDone' = TRUE
  /\ UNCHANGED <<current_frame_, expected_max_seq_, fragments_, expected_meta_,
                 received, timer, expired, control, images, hung>>

setExpectedMeta(m) ==
  /\ ~hung
  /\ expected_meta_' = m
  /\ UNCHANGED <<current_frame_, expected_max_seq_, fragments_, handshakeDone,
                 received, timer, expired, control, images, hung>>

-------------------------------------------------------------------------------
(* The reassembly timer *)

\* The wait runs out: its handler is queued and can no longer be cancelled.
TimerExpires ==
  /\ ~hung /\ timer # NoFrame
  /\ timer' = NoFrame /\ expired' = Append(expired, timer)
  /\ UNCHANGED <<current_frame_, expected_max_seq_, fragments_, expected_meta_,
                 handshakeDone, received, control, images, hung>>

Missing == 0..expected_max_seq_ \ DOMAIN fragments_

MutCheckMissing ==
  /\ control' = IF Missing = {} THEN control
                ELSE Append(control, Request(current_frame_, Missing))
  /\ UNCHANGED <<timer, hung>>

\* for (uint8_t i = 0; i <= expected_max_seq_; ++i) does not end at 255.
checkMissingFragments ==
  \/ /\ expected_max_seq_ = SeqMod - 1
     /\ hung' = TRUE
     /\ UNCHANGED <<control, timer>>
  \/ /\ expected_max_seq_ < SeqMod - 1
     /\ IF Missing = {} THEN UNCHANGED <<control, timer>>
        ELSE /\ control' = Append(control, Request(current_frame_, Missing))
             /\ timer' = current_frame_
     /\ UNCHANGED hung

\* The handler tests that its frame is still the one being reassembled.
TimerHandler ==
  /\ ~hung /\ expired # <<>> /\ Len(control) < ControlCap
  /\ expired' = Tail(expired)
  /\ \/ /\ Head(expired) = current_frame_ /\ fragments_ # Empty
        /\ checkMissingFragments
     \/ /\ Head(expired) # current_frame_ \/ fragments_ = Empty
        /\ UNCHANGED <<control, timer, hung>>
  /\ UNCHANGED <<current_frame_, expected_max_seq_, fragments_, expected_meta_,
                 handshakeDone, received, images>>

-------------------------------------------------------------------------------
(* The open system: records and metas come from anywhere. *)

\* The TCP session takes a control message away.
ControlSent ==
  /\ control # <<>>
  /\ control' = Tail(control)
  /\ UNCHANGED <<current_frame_, expected_max_seq_, fragments_, expected_meta_,
                 handshakeDone, received, timer, expired, images, hung>>

\* The loop over the missing fragments goes round and round.
Spin == hung /\ UNCHANGED vars

Next ==
  \/ \E img \in Images : \E seq \in 0..Last[img] : HandlePacket(img, seq)
  \/ DropPacket
  \/ \E m \in Images : setExpectedMeta(m)
  \/ Handshake \/ TimerExpires \/ TimerHandler \/ ControlSent \/ Spin

Spec == Init /\ [][Next]_vars

\* The io thread runs what is ready, timers run out, and the TCP session takes
\* messages away; the network owes nothing.
Fairness == WF_vars(TimerExpires) /\ WF_vars(TimerHandler) /\ WF_vars(ControlSent)

FairSpec == Spec /\ Fairness

-------------------------------------------------------------------------------
(* Properties *)

TypeOK ==
  /\ current_frame_ \in Frames /\ expected_max_seq_ \in Seqs
  /\ DOMAIN fragments_ \subseteq Seqs
  /\ \A s \in DOMAIN fragments_ : fragments_[s] \in Images
  /\ expected_meta_ \in 0..NumImages
  /\ handshakeDone \in BOOLEAN /\ hung \in BOOLEAN
  /\ received \in [Images -> [Seqs -> 0..MaxCopies]]
  /\ timer \in Frames \union {NoFrame}
  /\ expired \in Seq(Frames)
  /\ control \in Seq(Messages) /\ images \in Seq(Deliverables)

\* What onComplete_ gets is one whole image: every position from 0 to the
\* maximum is filled, with the bytes of that image and of no other, however the
\* fragments of several images were interleaved, repeated or delayed.
WholeImages ==
  \A n \in DOMAIN images :
    /\ DOMAIN images[n].pieces = 0..Last[images[n].img]
    /\ \A s \in DOMAIN images[n].pieces : images[n].pieces[s] = images[n].img

Deliveries(i) == Cardinality({n \in DOMAIN images : images[n].img = i})

\* An image is handed on once more only for a whole further set of fragments:
\* stray copies that arrive after completion never bring it back by themselves.
RedeliveryNeedsWholeCopy ==
  \A i \in Images : \A s \in 0..Last[i] : Deliveries(i) <= received[i][s]

Assembling(i) ==
  FrameOf(i) = current_frame_ /\ fragments_ # Empty /\ Deliveries(i) = 0

\* While the first reassembly of an image is under way, a wait for its frame is
\* pending or has run out, so the loss of a fragment is going to be noticed.
LossIsNoticed ==
  \A i \in Images : Assembling(i) =>
    \/ timer = current_frame_ \/ hung
    \/ \E n \in DOMAIN expired : expired[n] = current_frame_

Requested(i) ==
  \E n \in DOMAIN control :
    control[n].kind = "request" /\ control[n].frame = FrameOf(i)

\* An image that stays incomplete is asked for: unless another frame replaces
\* it or its fragments arrive after all, a request for the rest goes out, as long
\* as the io thread has not been caught in checkMissingFragments.
LossIsRequested ==
  \A i \in Images : Assembling(i) ~> (Requested(i) \/ ~Assembling(i) \/ hung)

\* README.md:70: the client requests the frame and sequence numbers that were
\* lost, whatever the length of the image.
EveryLossIsRequested ==
  \A i \in Images : Assembling(i) ~> (Requested(i) \/ ~Assembling(i))

===============================================================================
