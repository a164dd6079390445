-------------------- MODULE CoreAudioPlayback_proofs --------------------
(* Proofs about CoreAudioPlayback, for any number of buffers and pieces.   *)
EXTENDS CoreAudioPlayback, TLAPS

-----------------------------------------------------------------------------
(* Sequences of pieces. *)

LEMMA HeadAndTail ==
  ASSUME NEW s \in Seq(Nat), s # <<>>
  PROVE  /\ Head(s) \in Nat /\ Tail(s) \in Seq(Nat)
         /\ Pieces(s) = Pieces(Tail(s)) \cup ({Head(s)} \ {Silence})
         /\ Pieces(s) \subseteq Nat
<1>1. Len(s) \in Nat /\ Len(s) >= 1
  OBVIOUS
<1>2. Head(s) = s[1] /\ Len(Tail(s)) = Len(s) - 1 /\ \A i \in 1..(Len(s) - 1) : Tail(s)[i] = s[i + 1]
  BY <1>1
<1>3. Head(s) \in Nat /\ Tail(s) \in Seq(Nat)
  BY <1>1
<1>4. Pieces(s) \subseteq Pieces(Tail(s)) \cup ({Head(s)} \ {Silence})
  <2> SUFFICES ASSUME NEW i \in DOMAIN s, s[i] # Silence, s[i] # Head(s)
               PROVE  s[i] \in Pieces(Tail(s))
    BY DEF Pieces
  <2>1. i - 1 \in 1..(Len(s) - 1) /\ (i - 1) + 1 = i
    BY <1>1, <1>2
  <2>2. Tail(s)[i - 1] = s[i] /\ i - 1 \in DOMAIN Tail(s)
    BY <2>1, <1>2, <1>3
  <2> QED BY <2>2 DEF Pieces
<1>5. Pieces(Tail(s)) \subseteq Pieces(s)
  <2> SUFFICES ASSUME NEW i \in DOMAIN Tail(s), Tail(s)[i] # Silence
               PROVE  Tail(s)[i] \in Pieces(s)
    BY DEF Pieces
  <2>1. i \in 1..(Len(s) - 1)
    BY <1>2, <1>3
  <2>2. Tail(s)[i] = s[i + 1] /\ i + 1 \in DOMAIN s
    BY <2>1, <1>1, <1>2
  <2> QED BY <2>2 DEF Pieces
<1>6. {Head(s)} \ {Silence} \subseteq Pieces(s)
  BY <1>1, <1>2 DEF Pieces
<1>7. Pieces(s) \subseteq Nat
  BY DEF Pieces
<1> QED BY <1>3, <1>4, <1>5, <1>6, <1>7

LEMMA HeadIsFirst ==
  ASSUME NEW s \in Seq(Nat), s # <<>>, Ascending(s)
  PROVE  Ascending(Tail(s)) /\ Before({Head(s)} \ {Silence}, Pieces(Tail(s)))
<1>1. Len(s) \in Nat /\ Len(s) >= 1 /\ DOMAIN s = 1..Len(s)
  OBVIOUS
<1>2. /\ Head(s) = s[1] /\ DOMAIN Tail(s) = 1..(Len(s) - 1)
      /\ \A i \in 1..(Len(s) - 1) : Tail(s)[i] = s[i + 1]
  BY <1>1
<1>3. Ascending(Tail(s))
  <2> SUFFICES ASSUME NEW i \in DOMAIN Tail(s), NEW j \in DOMAIN Tail(s), i < j,
                      Tail(s)[i] # Silence, Tail(s)[j] # Silence
               PROVE  Tail(s)[i] < Tail(s)[j]
    BY DEF Ascending
  <2>1. i + 1 \in DOMAIN s /\ j + 1 \in DOMAIN s /\ i + 1 < j + 1
    BY <1>1, <1>2
  <2>2. Tail(s)[i] = s[i + 1] /\ Tail(s)[j] = s[j + 1]
    BY <1>2
  <2> QED BY <2>1, <2>2 DEF Ascending
<1>4. Before({Head(s)} \ {Silence}, Pieces(Tail(s)))
  <2> SUFFICES ASSUME NEW j \in DOMAIN Tail(s), Tail(s)[j] # Silence, Head(s) # Silence
               PROVE  Head(s) < Tail(s)[j]
    BY DEF Before, Pieces
  <2>1. j + 1 \in DOMAIN s /\ 1 \in DOMAIN s /\ 1 < j + 1
    BY <1>1, <1>2
  <2>2. Tail(s)[j] = s[j + 1] /\ Head(s) = s[1]
    BY <1>2
  <2> QED BY <2>1, <2>2 DEF Ascending
<1> QED BY <1>3, <1>4

LEMMA AppendPiece ==
  ASSUME NEW s \in Seq(Nat), NEW x \in Nat
  PROVE  /\ Append(s, x) \in Seq(Nat)
         /\ Pieces(Append(s, x)) = Pieces(s) \cup ({x} \ {Silence})
         /\ (Ascending(s) /\ Before(Pieces(s), {x} \ {Silence})) => Ascending(Append(s, x))
<1>1. /\ Len(s) \in Nat /\ DOMAIN s = 1..Len(s) /\ DOMAIN Append(s, x) = 1..(Len(s) + 1)
      /\ \A i \in 1..Len(s) : Append(s, x)[i] = s[i]
      /\ Append(s, x)[Len(s) + 1] = x
  OBVIOUS
<1>2. Append(s, x) \in Seq(Nat)
  OBVIOUS
<1>3. Pieces(Append(s, x)) \subseteq Pieces(s) \cup ({x} \ {Silence})
  <2> SUFFICES ASSUME NEW i \in 1..(Len(s) + 1), Append(s, x)[i] # Silence
               PROVE  Append(s, x)[i] \in Pieces(s) \cup ({x} \ {Silence})
    BY <1>1 DEF Pieces
  <2>1. CASE i = Len(s) + 1
    BY <2>1, <1>1
  <2>2. CASE i \in 1..Len(s)
    BY <2>2, <1>1 DEF Pieces
  <2> QED BY <2>1, <2>2, <1>1
<1>4. Pieces(s) \subseteq Pieces(Append(s, x))
  <2> SUFFICES ASSUME NEW i \in 1..Len(s), s[i] # Silence
               PROVE  s[i] \in Pieces(Append(s, x))
    BY <1>1 DEF Pieces
  <2>1. i \in DOMAIN Append(s, x) /\ Append(s, x)[i] = s[i]
    BY <1>1
  <2> QED BY <2>1 DEF Pieces
<1>5. {x} \ {Silence} \subseteq Pieces(Append(s, x))
  BY <1>1 DEF Pieces
<1>6. ASSUME Ascending(s), Before(Pieces(s), {x} \ {Silence})
      PROVE  Ascending(Append(s, x))
  <2> SUFFICES ASSUME NEW i \in 1..(Len(s) + 1), NEW j \in 1..(Len(s) + 1), i < j,
                      Append(s, x)[i] # Silence, Append(s, x)[j] # Silence
               PROVE  Append(s, x)[i] < Append(s, x)[j]
    BY <1>1 DEF Ascending
  <2>1. i \in 1..Len(s) /\ Append(s, x)[i] = s[i] /\ s[i] \in Pieces(s)
    BY <1>1 DEF Pieces
  <2>2. CASE j = Len(s) + 1
    BY <2>1, <2>2, <1>1, <1>6 DEF Before
  <2>3. CASE j \in 1..Len(s)
    BY <2>1, <2>3, <1>1, <1>6 DEF Ascending
  <2> QED BY <2>2, <2>3, <1>1
<1> QED BY <1>2, <1>3, <1>4, <1>5, <1>6

LEMMA WritePieces ==
  ASSUME NEW s \in Seq(Nat), NEW n \in Nat, NEW w \in Nat,
         Pieces(s) \subseteq 1..w, Ascending(s),
         NEW t, t = s \o [i \in 1..n |-> w + i]
  PROVE  t \in Seq(Nat) /\ Pieces(t) = Pieces(s) \cup (w + 1)..(w + n) /\ Ascending(t)
<1>1. [i \in 1..n |-> w + i] \in Seq(Nat) /\ Len([i \in 1..n |-> w + i]) = n
  OBVIOUS
<1>2. /\ t \in Seq(Nat) /\ Len(s) \in Nat
      /\ DOMAIN s = 1..Len(s) /\ DOMAIN t = 1..(Len(s) + n)
      /\ \A i \in 1..Len(s) : t[i] = s[i]
  BY <1>1
<1>3. \A i \in (Len(s) + 1)..(Len(s) + n) : t[i] = w + (i - Len(s))
  BY <1>1, <1>2
<1>4. Pieces(t) \subseteq Pieces(s) \cup (w + 1)..(w + n)
  <2> SUFFICES ASSUME NEW i \in 1..(Len(s) + n), t[i] # Silence
               PROVE  t[i] \in Pieces(s) \cup (w + 1)..(w + n)
    BY <1>2 DEF Pieces
  <2>1. CASE i \in 1..Len(s)
    BY <2>1, <1>2 DEF Pieces
  <2>2. CASE i \in (Len(s) + 1)..(Len(s) + n)
    BY <2>2, <1>2, <1>3
  <2> QED BY <2>1, <2>2, <1>2
<1>5. Pieces(s) \subseteq Pieces(t)
  <2> SUFFICES ASSUME NEW i \in 1..Len(s), s[i] # Silence
               PROVE  s[i] \in Pieces(t)
    BY <1>2 DEF Pieces
  <2>1. i \in DOMAIN t /\ t[i] = s[i]
    BY <1>2
  <2> QED BY <2>1 DEF Pieces
<1>6. (w + 1)..(w + n) \subseteq Pieces(t)
  <2> SUFFICES ASSUME NEW x \in (w + 1)..(w + n)
               PROVE  x \in Pieces(t)
    OBVIOUS
  <2>1. Len(s) + (x - w) \in (Len(s) + 1)..(Len(s) + n)
    BY <1>2
  <2>2. t[Len(s) + (x - w)] = x /\ Len(s) + (x - w) \in DOMAIN t /\ x # 0
    BY <2>1, <1>2, <1>3
  <2> QED BY <2>2 DEF Pieces, Silence
<1>7. Ascending(t)
  <2> SUFFICES ASSUME NEW i \in 1..(Len(s) + n), NEW j \in 1..(Len(s) + n), i < j,
                      t[i] # Silence, t[j] # Silence
               PROVE  t[i] < t[j]
    BY <1>2 DEF Ascending
  <2>1. CASE j \in 1..Len(s)
    <3>1. i \in 1..Len(s) /\ t[i] = s[i] /\ t[j] = s[j]
      BY <2>1, <1>2
    <3> QED BY <2>1, <3>1, <1>2 DEF Ascending
  <2>2. CASE i \in (Len(s) + 1)..(Len(s) + n)
    BY <2>2, <1>2, <1>3
  <2>3. CASE i \in 1..Len(s) /\ j \in (Len(s) + 1)..(Len(s) + n)
    <3>1. t[i] \in 1..w
      BY <2>3, <1>2 DEF Pieces
    <3>2. t[j] = w + (j - Len(s)) /\ j - Len(s) >= 1
      BY <2>3, <1>2, <1>3
    <3> QED BY <3>1, <3>2, <1>2
  <2> QED BY <2>1, <2>2, <2>3, <1>2
<1> QED BY <1>2, <1>4, <1>5, <1>6, <1>7

-----------------------------------------------------------------------------
(* Where the pieces are. *)

\* Steps that move no piece.
LEMMA PiecesStay ==
  ASSUME PiecesAccounted, UNCHANGED <<data_queue_, enqueued, written, played, losses>>
  PROVE  PiecesAccounted'
BY DEF PiecesAccounted, Everywhere, Pieces, Ascending, Before, losses

LEMMA WriteAccounted ==
  ASSUME TypeOK, PiecesAccounted, NEW n \in 1..(MaxPieces - written), Write(n)
  PROVE  PiecesAccounted' /\ data_queue_' \in Seq(Nat) /\ written' \in Nat
<1> USE DEF Write
<1>1. n \in Nat /\ written \in Nat /\ data_queue_ \in Seq(Nat) /\ written' = written + n
  BY PlaybackAssumption DEF TypeOK
<1>2. Pieces(data_queue_) \subseteq 1..written /\ Ascending(data_queue_)
  BY DEF PiecesAccounted, Everywhere
<1>3. /\ data_queue_' \in Seq(Nat)
      /\ Pieces(data_queue_') = Pieces(data_queue_) \cup (written + 1)..(written + n)
      /\ Ascending(data_queue_')
  BY <1>1, <1>2, WritePieces
<1>4. UNCHANGED <<enqueued, played, lost, cut>>
  BY DEF deviceVars, losses
<1>5. Ascending(played') /\ Ascending(enqueued') /\ Before(Pieces(played'), Pieces(enqueued'))
  BY <1>4 DEF PiecesAccounted
<1>6. \A x \in Everywhere, y \in (written + 1)..(written + n) : x < y
  BY <1>1 DEF PiecesAccounted
<1>7. Before(Pieces(played') \cup Pieces(enqueued'), Pieces(data_queue_'))
  BY <1>3, <1>4, <1>6 DEF PiecesAccounted, Before, Everywhere
<1>8. Before(lost', Pieces(data_queue_'))
  BY <1>3, <1>4, <1>6 DEF PiecesAccounted, Before, Everywhere
<1>9. Everywhere' = Everywhere \cup (written + 1)..(written + n)
  BY <1>3, <1>4 DEF Everywhere
<1>10. Everywhere' \subseteq 1..written' /\ (~cut' => 1..written' \subseteq Everywhere')
  BY <1>1, <1>4, <1>9 DEF PiecesAccounted
<1> QED BY <1>1, <1>3, <1>5, <1>7, <1>8, <1>10 DEF PiecesAccounted

LEMMA NoPieces ==
  ASSUME NEW s, NEW n \in Nat, s = <<>> \/ s = [b \in 1..n |-> Silence]
  PROVE  s \in Seq(Nat) /\ Pieces(s) = {} /\ Ascending(s)
<1>1. CASE s = <<>>
  BY <1>1 DEF Pieces, Ascending
<1>2. CASE s = [b \in 1..n |-> Silence]
  <2>1. s \in Seq(Nat) /\ DOMAIN s = 1..n
    BY <1>2 DEF Silence
  <2>2. \A i \in DOMAIN s : s[i] = Silence
    BY <1>2
  <2> QED BY <2>1, <2>2 DEF Pieces, Ascending
<1> QED BY <1>1, <1>2

\* Nothing is queued when the playback starts: the buffers are primed with silence.
LEMMA StartAccounted ==
  ASSUME PlaybackInv, Start
  PROVE  /\ PiecesAccounted'
         /\ enqueued' \in Seq(Nat) /\ data_queue_' = <<>>
<1>1. data_queue_ = <<>> /\ device = "none" /\ enqueued = <<>>
  BY DEF HandleAgrees, Live, PlaybackInv, Start
<1>2. enqueued' = [b \in 1..BufferCount |-> Silence] /\ data_queue_' = <<>>
  BY <1>1, PlaybackAssumption DEF Start
<1>3. UNCHANGED <<written, played, lost, cut>> /\ PiecesAccounted
  BY DEF Start, PlaybackInv
<1>4. /\ Pieces(enqueued') = {} /\ Pieces(data_queue_') = {}
      /\ Pieces(enqueued) = {} /\ Pieces(data_queue_) = {}
      /\ Ascending(enqueued') /\ Ascending(data_queue_') /\ enqueued' \in Seq(Nat)
  BY <1>1, <1>2, NoPieces, PlaybackAssumption
<1>5. Everywhere' = Everywhere
  BY <1>3, <1>4 DEF Everywhere
<1>6. /\ Ascending(played') /\ Before(Pieces(played'), Pieces(enqueued'))
      /\ Before(Pieces(played') \cup Pieces(enqueued'), Pieces(data_queue_'))
      /\ Before(lost', Pieces(data_queue_'))
  BY <1>3, <1>4 DEF PiecesAccounted, Before
<1> QED BY <1>2, <1>3, <1>4, <1>5, <1>6 DEF PiecesAccounted

\* The piece in front of the device's buffers is the next one to be heard.
LEMMA PlaysAccounted ==
  ASSUME TypeOK, PiecesAccounted, DevicePlays
  PROVE  PiecesAccounted' /\ enqueued' \in Seq(Nat) /\ played' \in Seq(Nat)
<1> USE DEF DevicePlays, losses
<1> DEFINE x == Head(enqueued)
<1>1. enqueued \in Seq(Nat) /\ enqueued # <<>> /\ played \in Seq(Nat)
  BY DEF TypeOK
<1>2. /\ x \in Nat /\ enqueued' = Tail(enqueued) /\ enqueued' \in Seq(Nat)
      /\ Pieces(enqueued) = Pieces(enqueued') \cup ({x} \ {Silence})
  BY <1>1, HeadAndTail
<1>3. Ascending(enqueued') /\ Before({x} \ {Silence}, Pieces(enqueued'))
  BY <1>1, HeadIsFirst DEF PiecesAccounted
<1>4. /\ played' \in Seq(Nat) /\ Ascending(played')
      /\ Pieces(played') = Pieces(played) \cup ({x} \ {Silence})
  <2>1. Before(Pieces(played), {x} \ {Silence})
    BY <1>2 DEF PiecesAccounted, Before
  <2>2. CASE x = Silence
    BY <1>1, <2>2 DEF PiecesAccounted
  <2>3. CASE x # Silence
    BY <1>1, <1>2, <2>1, <2>3, AppendPiece DEF PiecesAccounted
  <2> QED BY <2>2, <2>3
<1>5. UNCHANGED <<data_queue_, written, lost, cut>>
  OBVIOUS
<1>6. Before(Pieces(played'), Pieces(enqueued'))
  BY <1>2, <1>3, <1>4 DEF PiecesAccounted, Before
<1>7. Before(Pieces(played') \cup Pieces(enqueued'), Pieces(data_queue_'))
  BY <1>2, <1>4, <1>5 DEF PiecesAccounted, Before
<1>8. Everywhere' = Everywhere
  BY <1>2, <1>4, <1>5 DEF Everywhere
<1> QED BY <1>2, <1>3, <1>4, <1>5, <1>6, <1>7, <1>8 DEF PiecesAccounted

\* The oldest piece of the queue goes behind all that the device holds, or is lost.
LEMMA FillAccounted ==
  ASSUME TypeOK, PiecesAccounted, FillAndEnqueue, UNCHANGED <<written, played>>
  PROVE  /\ PiecesAccounted'
         /\ enqueued' \in Seq(Nat) /\ data_queue_' \in Seq(Nat)
         /\ lost' \subseteq Nat /\ lostBuffers' \in 0..MaxLost
<1> DEFINE x == IF data_queue_ = <<>> THEN Silence ELSE Head(data_queue_)
<1>1. /\ enqueued \in Seq(Nat) /\ data_queue_ \in Seq(Nat) /\ lost \subseteq Nat
      /\ lostBuffers \in 0..MaxLost
  BY DEF TypeOK
<1>2. /\ x \in Nat /\ data_queue_' \in Seq(Nat) /\ Ascending(data_queue_')
      /\ Pieces(data_queue_) = Pieces(data_queue_') \cup ({x} \ {Silence})
      /\ Before({x} \ {Silence}, Pieces(data_queue_'))
  <2>1. CASE data_queue_ = <<>>
    <3>1. x = Silence /\ data_queue_' = <<>>
      BY <2>1 DEF FillAndEnqueue
    <3> QED BY <2>1, <3>1, <1>1 DEF Silence, Before, PiecesAccounted
  <2>2. CASE data_queue_ # <<>>
    <3>1. x = Head(data_queue_) /\ data_queue_' = Tail(data_queue_)
      BY <2>2 DEF FillAndEnqueue
    <3> QED BY <2>2, <3>1, <1>1, HeadAndTail, HeadIsFirst DEF PiecesAccounted
  <2> QED BY <2>1, <2>2
<1>3. Before(Pieces(played) \cup Pieces(enqueued), {x} \ {Silence})
  BY <1>2 DEF PiecesAccounted, Before
<1>4. CASE enqueued' = Append(enqueued, x) /\ UNCHANGED losses
  <2>1. UNCHANGED <<lost, lostBuffers, cut>>
    BY <1>4 DEF losses
  <2>2. /\ enqueued' \in Seq(Nat) /\ Ascending(enqueued')
        /\ Pieces(enqueued') = Pieces(enqueued) \cup ({x} \ {Silence})
    BY <1>1, <1>2, <1>3, <1>4, AppendPiece DEF PiecesAccounted, Before
  <2>3. /\ Before(Pieces(played'), Pieces(enqueued'))
        /\ Before(Pieces(played') \cup Pieces(enqueued'), Pieces(data_queue_'))
        /\ Before(lost', Pieces(data_queue_'))
    BY <1>2, <1>3, <2>1, <2>2 DEF PiecesAccounted, Before
  <2>4. Everywhere' = Everywhere
    BY <1>2, <2>1, <2>2 DEF Everywhere
  <2> QED BY <1>1, <1>2, <2>1, <2>2, <2>3, <2>4 DEF PiecesAccounted
<1>5. CASE /\ lostBuffers < MaxLost
           /\ lostBuffers' = lostBuffers + 1
           /\ lost' = lost \cup ({x} \ {Silence})
           /\ UNCHANGED <<enqueued, cut>>
  <2>1. lost' \subseteq Nat /\ lostBuffers' \in 0..MaxLost
    <3>1. lostBuffers' \in 0..MaxLost
      BY <1>1, <1>5, PlaybackAssumption
    <3> HIDE DEF x
    <3>2. lost' \subseteq Nat
      BY <1>1, <1>2, <1>5
    <3> QED BY <3>1, <3>2
  <2>2. /\ Before(Pieces(played'), Pieces(enqueued'))
        /\ Before(Pieces(played') \cup Pieces(enqueued'), Pieces(data_queue_'))
        /\ Before(lost', Pieces(data_queue_'))
    BY <1>2, <1>3, <1>5 DEF PiecesAccounted, Before
  <2>3. Everywhere' = Everywhere
    BY <1>2, <1>5 DEF Everywhere
  <2> QED BY <1>1, <1>2, <1>5, <2>1, <2>2, <2>3 DEF PiecesAccounted
<1> QED BY <1>4, <1>5 DEF FillAndEnqueue

\* What the device still holds is dropped; if it still played, that is a cut.
LEMMA DisposeAccounted ==
  ASSUME PlaybackInv, StopDisposes
  PROVE  PiecesAccounted' /\ enqueued' = <<>>
<1>1. /\ enqueued' = <<>> /\ UNCHANGED <<written, played, lost, data_queue_>>
      /\ cut' = (cut \/ device \in Live)
  BY DEF StopDisposes
<1>2. Pieces(enqueued') = {} /\ Ascending(enqueued')
  BY <1>1, NoPieces
<1>3. PiecesAccounted
  BY DEF PlaybackInv
<1>4. /\ Before(Pieces(played'), Pieces(enqueued'))
      /\ Before(Pieces(played') \cup Pieces(enqueued'), Pieces(data_queue_'))
      /\ Before(lost', Pieces(data_queue_'))
  BY <1>1, <1>2, <1>3 DEF PiecesAccounted, Before
<1>5. Everywhere' \subseteq Everywhere
  BY <1>1, <1>2 DEF Everywhere
<1>6. ASSUME ~cut'
      PROVE  1..written' \subseteq Everywhere'
  <2>1. ~cut /\ device \notin Live
    BY <1>1, <1>6
  <2>2. enqueued = <<>>
    BY <2>1 DEF PlaybackInv, HandleAgrees
  <2>3. Everywhere' = Everywhere
    BY <1>1, <2>2 DEF Everywhere
  <2> QED BY <1>1, <1>3, <2>1, <2>3 DEF PiecesAccounted
<1> QED BY <1>1, <1>2, <1>3, <1>4, <1>5, <1>6 DEF PiecesAccounted

-----------------------------------------------------------------------------
(* The inductive invariant. *)

\* The initial states satisfy it.
LEMMA InitInv == Init => PlaybackInv
<1> SUFFICES ASSUME Init PROVE PlaybackInv
  OBVIOUS
<1>1. TypeOK
  <2>1. lostBuffers \in 0..MaxLost /\ written \in Nat
    BY PlaybackAssumption DEF Init
  <2>2. data_queue_ \in Seq(Nat) /\ enqueued \in Seq(Nat) /\ played \in Seq(Nat)
    BY DEF Init
  <2> QED BY <2>1, <2>2 DEF Init, TypeOK
<1>2. PiecesAccounted
  <2>1. \A s : s = <<>> => Pieces(s) = {} /\ Ascending(s)
    BY NoPieces
  <2>2. Pieces(played) = {} /\ Pieces(enqueued) = {} /\ Pieces(data_queue_) = {}
        /\ Ascending(played) /\ Ascending(enqueued) /\ Ascending(data_queue_)
        /\ lost = {} /\ written = 0
    BY <2>1 DEF Init
  <2> QED BY <2>2 DEF PiecesAccounted, Everywhere, Before
<1>3. HandleAgrees
  BY DEF Init, HandleAgrees, Live
<1> QED BY <1>1, <1>2, <1>3 DEF PlaybackInv

\* The steps of the program that leave the pieces where they are.
LEMMA ProgramKeeps ==
  ASSUME PlaybackInv,
         \/ StartFailsEarly \/ StartFailsLate \/ Input \/ InputEnds
         \/ StopBegins \/ StopDrained \/ StopUnhooks \/ StopDevice
         \/ StopPoll \/ StopPollFails \/ StopEnds \/ Wait
  PROVE  PlaybackInv'
<1> USE DEF CallStop, program, flags, deviceVars, losses, StopSteps, Live, PlaybackInv
<1>1. PiecesAccounted'
  <2>1. UNCHANGED <<data_queue_, enqueued, written, played, losses>>
    BY DEF StartFailsEarly, StartFailsLate, Input, InputEnds, StopBegins, StopDrained,
           StopUnhooks, StopDevice, StopPoll, StopPollFails, StopEnds, Wait
  <2> QED BY <2>1, PiecesStay
<1>2. ASSUME StartFailsEarly PROVE TypeOK' /\ HandleAgrees'
  BY <1>2 DEF StartFailsEarly, TypeOK, HandleAgrees
<1>3. ASSUME StartFailsLate PROVE TypeOK' /\ HandleAgrees'
  BY <1>3 DEF StartFailsLate, TypeOK, HandleAgrees
<1>4. ASSUME Input PROVE TypeOK' /\ HandleAgrees'
  BY <1>4 DEF Input, TypeOK, HandleAgrees
<1>5. ASSUME InputEnds PROVE TypeOK' /\ HandleAgrees'
  BY <1>5 DEF InputEnds, TypeOK, HandleAgrees
<1>6. ASSUME StopBegins PROVE TypeOK' /\ HandleAgrees'
  BY <1>6 DEF StopBegins, TypeOK, HandleAgrees
<1>7. ASSUME StopDrained PROVE TypeOK' /\ HandleAgrees'
  BY <1>7 DEF StopDrained, TypeOK, HandleAgrees
<1>8. ASSUME StopUnhooks PROVE TypeOK' /\ HandleAgrees'
  BY <1>8 DEF StopUnhooks, TypeOK, HandleAgrees
<1>9. ASSUME StopDevice PROVE TypeOK' /\ HandleAgrees'
  BY <1>9 DEF StopDevice, TypeOK, HandleAgrees
<1>10. ASSUME StopPoll PROVE TypeOK' /\ HandleAgrees'
  BY <1>10 DEF StopPoll, TypeOK, HandleAgrees
<1>11. ASSUME StopPollFails PROVE TypeOK' /\ HandleAgrees'
  BY <1>11 DEF StopPollFails, TypeOK, HandleAgrees
<1>12. ASSUME StopEnds PROVE TypeOK' /\ HandleAgrees'
  BY <1>12 DEF StopEnds, TypeOK, HandleAgrees
<1>13. ASSUME Wait PROVE TypeOK' /\ HandleAgrees'
  BY <1>13 DEF Wait, TypeOK, HandleAgrees
<1> QED BY <1>1, <1>2, <1>3, <1>4, <1>5, <1>6, <1>7, <1>8, <1>9, <1>10, <1>11, <1>12, <1>13

\* The steps of the program that move pieces.
LEMMA StartKeeps ==
  ASSUME PlaybackInv, Start
  PROVE  PlaybackInv'
<1> USE DEF program, flags, deviceVars, losses, StopSteps, Live, PlaybackInv
<1>1. PiecesAccounted' /\ enqueued' \in Seq(Nat) /\ data_queue_' = <<>>
  BY StartAccounted
<1>2. TypeOK'
  <2>1. lostBuffers' \in 0..MaxLost
    BY PlaybackAssumption DEF Start
  <2>2. data_queue_' \in Seq(Nat)
    BY <1>1
  <2>3. /\ pc' \in {"write", "input"} /\ device' = "running"
        /\ {queue_', running_', done_', drained_', stopped_'} \subseteq BOOLEAN
    BY DEF Start
  <2>4. UNCHANGED <<after, restarted, returning, written, played, lost, cut>>
    BY DEF Start
  <2> QED BY <1>1, <2>1, <2>2, <2>3, <2>4 DEF TypeOK
<1>3. HandleAgrees'
  BY <1>1 DEF Start, HandleAgrees, TypeOK
<1> QED BY <1>1, <1>2, <1>3

LEMMA WriteKeeps ==
  ASSUME PlaybackInv, NEW n \in 1..(MaxPieces - written), Write(n)
  PROVE  PlaybackInv'
<1> USE DEF program, flags, deviceVars, losses, StopSteps, Live, PlaybackInv
<1>1. PiecesAccounted' /\ data_queue_' \in Seq(Nat) /\ written' \in Nat
  BY WriteAccounted
<1>2. TypeOK'
  BY <1>1 DEF Write, TypeOK
<1>3. HandleAgrees'
  <2>1. UNCHANGED <<pc, queue_, running_, done_, drained_, stopped_, device, enqueued, returning>>
        /\ queue_ /\ ~done_ /\ ~stopped_ /\ ~drained_
    BY DEF Write, HandleAgrees, TypeOK
  <2> QED BY <2>1 DEF HandleAgrees
<1> QED BY <1>1, <1>2, <1>3

LEMMA DisposeKeeps ==
  ASSUME PlaybackInv, StopDisposes
  PROVE  PlaybackInv'
<1> USE DEF program, flags, deviceVars, losses, StopSteps, Live, PlaybackInv
<1>1. PiecesAccounted' /\ enqueued' = <<>>
  BY DisposeAccounted
<1>2. TypeOK'
  BY <1>1 DEF StopDisposes, TypeOK
<1>3. HandleAgrees'
  BY <1>1 DEF StopDisposes, HandleAgrees, TypeOK
<1> QED BY <1>1, <1>2, <1>3

\* The steps of the device.
LEMMA DeviceKeeps ==
  ASSUME PlaybackInv, DevicePlays \/ DeviceStops
  PROVE  PlaybackInv'
<1> USE DEF program, flags, deviceVars, losses, StopSteps, Live, PlaybackInv
<1>1. CASE DevicePlays
  <2>1. PiecesAccounted' /\ enqueued' \in Seq(Nat) /\ played' \in Seq(Nat)
    BY <1>1, PlaysAccounted
  <2>2. TypeOK'
    BY <1>1, <2>1 DEF DevicePlays, TypeOK
  <2>3. HandleAgrees'
    BY <1>1, <2>1 DEF DevicePlays, HandleAgrees, TypeOK
  <2> QED BY <2>1, <2>2, <2>3
<1>2. CASE DeviceStops
  <2>1. PiecesAccounted'
    BY <1>2, PiecesStay DEF DeviceStops
  <2>2. TypeOK' /\ HandleAgrees'
    BY <1>2 DEF DeviceStops, HandleAgrees, TypeOK
  <2> QED BY <2>1, <2>2
<1> QED BY <1>1, <1>2

LEMMA CallbackKeeps ==
  ASSUME PlaybackInv, Callback
  PROVE  PlaybackInv'
<1> USE DEF program, flags, deviceVars, losses, StopSteps, Live, PlaybackInv
<1>1. /\ returning /\ ~returning'
      /\ UNCHANGED <<pc, after, restarted, queue_, done_, stopped_, device, written, played>>
      /\ returning' \in BOOLEAN
  BY DEF Callback
<1>2. /\ PiecesAccounted'
      /\ enqueued' \in Seq(Nat) /\ data_queue_' \in Seq(Nat)
      /\ lost' \subseteq Nat /\ lostBuffers' \in 0..MaxLost
      /\ cut' = cut
      /\ data_queue_ = <<>> => data_queue_' = <<>>
      /\ enqueued' # enqueued => queue_
  <2>1. CASE running_ /\ queue_ /\ ~drained_
    <3>1. FillAndEnqueue
      BY <2>1 DEF Callback
    <3>2. cut' = cut /\ (data_queue_ = <<>> => data_queue_' = <<>>)
      BY <3>1 DEF FillAndEnqueue
    <3> QED BY <1>1, <2>1, <3>1, <3>2, FillAccounted
  <2>2. CASE ~(running_ /\ queue_ /\ ~drained_)
    <3>1. UNCHANGED <<data_queue_, enqueued, losses>>
      BY <2>2 DEF Callback
    <3> QED BY <1>1, <3>1, PiecesStay DEF TypeOK
  <2> QED BY <2>1, <2>2
<1>3. \/ done_ /\ data_queue_' = <<>> /\ drained_' = TRUE /\ running_' = FALSE
      \/ UNCHANGED <<drained_, running_>>
  BY DEF Callback, SignalDrained
<1>4. {drained_', running_'} \subseteq BOOLEAN
  BY <1>3 DEF TypeOK
<1>5. TypeOK'
  BY <1>1, <1>2, <1>4 DEF TypeOK
<1>6. HandleAgrees'
  <2>1. device # "none" /\ ~stopped_
    BY <1>1 DEF HandleAgrees
  <2>2. drained_' => done_' /\ data_queue_' = <<>>
    BY <1>1, <1>2, <1>3 DEF HandleAgrees
  <2>3. device' \notin Live => enqueued' = <<>>
    BY <1>1, <1>2 DEF HandleAgrees
  <2>4. (queue_' /\ ~drained_' => running_') /\ (drained_ => drained_')
    BY <1>1, <1>3 DEF HandleAgrees
  <2> QED BY <1>1, <2>1, <2>2, <2>3, <2>4 DEF HandleAgrees
<1> QED BY <1>2, <1>5, <1>6

LEMMA StepInv == PlaybackInv /\ [Next]_vars => PlaybackInv'
<1> SUFFICES ASSUME PlaybackInv, [Next]_vars PROVE PlaybackInv'
  OBVIOUS
<1>1. ASSUME UNCHANGED vars PROVE PlaybackInv'
  <2>1. TypeOK' /\ HandleAgrees'
    BY <1>1 DEF PlaybackInv, TypeOK, HandleAgrees, vars, program, flags, deviceVars, losses
  <2>2. PiecesAccounted'
    BY <1>1, PiecesStay DEF PlaybackInv, vars, deviceVars
  <2> QED BY <2>1, <2>2 DEF PlaybackInv
<1>2. ASSUME Writes PROVE PlaybackInv'
  BY <1>2, WriteKeeps DEF Writes
<1> QED BY <1>1, <1>2, ProgramKeeps, StartKeeps, DisposeKeeps, DeviceKeeps, CallbackKeeps
        DEF Next, Program, Stop, Device

\* For any number of buffers and of pieces: the pieces are heard in the order
\* they were written, each once, and the device's handle is never used once
\* the device is gone.
THEOREM PlaybackHolds == Spec => []PlaybackInv
<1> QED BY InitInv, StepInv, PTL DEF Spec

\* When stop() has returned, every piece was heard or was refused by the device,
\* unless a failing call made stop() dispose of a device that still played.
THEOREM AllPlayed == Spec => []AllPlayedWhenStopped
<1>1. PlaybackInv => AllPlayedWhenStopped
  <2> SUFFICES ASSUME PlaybackInv, pc \in {"wait", "exit"}, ~cut
               PROVE  Pieces(played) \cup lost = 1..written
    BY DEF AllPlayedWhenStopped
  <2>1. data_queue_ = <<>> /\ enqueued = <<>>
    BY DEF PlaybackInv, HandleAgrees, Live
  <2>2. Pieces(data_queue_) = {} /\ Pieces(enqueued) = {}
    BY <2>1, NoPieces
  <2>3. Everywhere = Pieces(played) \cup lost
    BY <2>2 DEF Everywhere
  <2> QED BY <2>3 DEF PlaybackInv, PiecesAccounted
<1> QED BY <1>1, PlaybackHolds, PTL
=============================================================================
