------------------------- MODULE DashRenderer_proofs -------------------------
(***************************************************************************)
(* Proofs about DashRenderer, for any number of buffers and any number of     *)
(* calls and failures.  The inductive invariant IInv says what each flag of it  *)
(* stands for: a pending drain for one posted message and a queue to drain,    *)
(* mFlushing for one flush on its way, and, of the messages still queued,      *)
(* which come before the pause, the sink change and the end of the audio       *)
(* that they make harmless.  TwoTracks to RepliesCount are about the helpers;   *)
(* the lemmas named ...Keeps take the actions one by one.                     *)
(***************************************************************************)
EXTENDS DashRenderer, SequenceLemmas

LEMMA TwoTracks == AV = {Audio, Video} /\ Audio # Video
  BY DEF AV, Audio, Video

-----------------------------------------------------------------------------
(*                        What is always so of r                            *)

(* A drain that is pending is posted once, for a queue that has something, and   *)
(* not while the queues are synchronised.                                    *)
Drawn(k) ==
    /\ \A t \in AV : /\ k.posted[t] = IF t \in k.pending THEN 1 ELSE 0
                     /\ t \in k.pending => k.queue[t] # <<>>
    /\ k.sync => k.pending = {}

(* A queue that has something is going to be drained, unless the drain has given up. *)
Driven(k, t) ==
    k.queue[t] # <<>> /\ ~k.paused /\ ~k.sync => t \in k.pending \/ (t = Audio /\ k.mute)

(* A frame that waits without audio waits by a new anchor, but for one that is to   *)
(* be flushed.                                                              *)
Timed(k) ==
    /\ k.anchor = "old" => k.wasPaused
    /\ Video \notin k.flushing =>
        /\ (\E i \in 1 .. Len(k.queue[Video]) : k.queue[Video][i] = "buffer") => Video \in k.has
        /\ Video \in k.pending /\ Head(k.queue[Video]) = "buffer" /\ Audio \notin k.has
            => k.anchor # "old"

Sound(k) == k \in Renderer /\ Drawn(k) /\ Timed(k)

LEMMA RendererFields ==
    ASSUME NEW k \in Renderer
    PROVE  /\ k.queue \in [AV -> Seq(Entry)] /\ k.begun \in BOOLEAN /\ k.pending \in SUBSET AV
           /\ k.posted \in [AV -> Nat] /\ k.stale \in [AV -> Nat]
           /\ k.flushing \in SUBSET AV /\ k.has \in SUBSET AV
           /\ k.sync \in BOOLEAN /\ k.paused \in BOOLEAN /\ k.wasPaused \in BOOLEAN
           /\ k.anchor \in {"none", "new", "old"}
           /\ k.mute \in BOOLEAN
           /\ k.failed \in {"none", "onPause", "onAudioSinkChanged", "audioSink"}
  BY DEF Renderer

LEMMA AnchoredDoes ==
    ASSUME NEW k \in Renderer
    PROVE  /\ Anchored(k) \in Renderer
           /\ Anchored(k) = [k EXCEPT !.anchor = Anchored(k).anchor, !.wasPaused = Anchored(k).wasPaused]
           /\ Anchored(k).anchor = "old" => k.anchor = "old"
           /\ \/ Anchored(k) = k
              \/ Anchored(k).anchor = "new"
           /\ Head(k.queue[Video]) = "buffer" /\ Audio \notin k.has /\ Video \in k.has /\ k.wasPaused
                => Anchored(k).anchor # "old"
  BY DEF Anchored, Renderer

LEMMA PostDrainDoes ==
    ASSUME NEW k \in Renderer, NEW t \in AV
    PROVE  /\ PostDrain(k, t) \in Renderer
           /\ PostDrain(k, t).queue = k.queue
           /\ PostDrain(k, t).begun = k.begun
           /\ PostDrain(k, t).stale = k.stale
           /\ PostDrain(k, t).flushing = k.flushing
           /\ PostDrain(k, t).has = k.has
           /\ PostDrain(k, t).sync = k.sync
           /\ PostDrain(k, t).paused = k.paused
           /\ PostDrain(k, t).failed = k.failed
           /\ \/ /\ PostDrain(k, t) = k
                 /\ t \in k.pending \/ k.sync \/ k.paused \/ k.queue[t] = <<>>
              \/ /\ t \notin k.pending /\ ~k.sync /\ ~k.paused /\ k.queue[t] # <<>>
                 /\ PostDrain(k, t).pending = k.pending \cup {t}
                 /\ PostDrain(k, t).posted = [k.posted EXCEPT ![t] = @ + 1]
                 /\ PostDrain(k, t).mute = (k.mute /\ t # Audio)
                 /\ \/ t # Video /\ PostDrain(k, t).anchor = k.anchor /\ PostDrain(k, t).wasPaused = k.wasPaused
                    \/ /\ t = Video
                       /\ PostDrain(k, t).anchor = Anchored(k).anchor
                       /\ PostDrain(k, t).wasPaused = Anchored(k).wasPaused
<1> DEFINE same == t \in k.pending \/ k.sync \/ k.paused \/ k.queue[t] = <<>>
<1>1. CASE same
  BY <1>1 DEF PostDrain
<1>2. CASE ~same
  <2> DEFINE a == IF t = Video THEN Anchored(k) ELSE k
  <2>1. PostDrain(k, t) = [a EXCEPT !.pending = @ \cup {t}, !.posted[t] = @ + 1, !.mute = @ /\ t # Audio]
    BY <1>2 DEF PostDrain
  <2>2. a \in Renderer
    BY AnchoredDoes
  <2>3. a = [k EXCEPT !.anchor = a.anchor, !.wasPaused = a.wasPaused]
    <3>1. CASE t = Video
      BY <3>1, AnchoredDoes
    <3>2. CASE t # Video
      BY <3>2 DEF Renderer
    <3> QED
      BY <3>1, <3>2
  <2>4. \/ t # Video /\ a.anchor = k.anchor /\ a.wasPaused = k.wasPaused
        \/ t = Video /\ a.anchor = Anchored(k).anchor /\ a.wasPaused = Anchored(k).wasPaused
    OBVIOUS
  <2> HIDE DEF a
  <2>5. /\ a.queue = k.queue /\ a.begun = k.begun /\ a.stale = k.stale /\ a.flushing = k.flushing
        /\ a.has = k.has /\ a.sync = k.sync /\ a.paused = k.paused /\ a.failed = k.failed
        /\ a.pending = k.pending /\ a.posted = k.posted /\ a.mute = k.mute
    BY <2>3 DEF Renderer
  <2> DEFINE pending == a.pending \cup {t}
             posted  == [a.posted EXCEPT ![t] = @ + 1]
             mute    == a.mute /\ t # Audio
  <2>6. PostDrain(k, t) = [a EXCEPT !.pending = pending, !.posted = posted, !.mute = mute]
    BY <2>1
  <2>7. pending \in SUBSET AV /\ posted \in [AV -> Nat] /\ mute \in BOOLEAN
    BY <2>2, RendererFields
  <2>8. pending = k.pending \cup {t} /\ posted = [k.posted EXCEPT ![t] = @ + 1] /\ mute = (k.mute /\ t # Audio)
    BY <2>5
  <2> HIDE DEF pending, posted, mute
  <2> DEFINE p == PostDrain(k, t)
  <2>9. p \in Renderer
    BY <2>2, <2>6, <2>7 DEF Renderer
  <2>10. /\ p.queue = a.queue /\ p.begun = a.begun /\ p.stale = a.stale /\ p.flushing = a.flushing
         /\ p.has = a.has /\ p.sync = a.sync /\ p.paused = a.paused /\ p.failed = a.failed
         /\ p.anchor = a.anchor /\ p.wasPaused = a.wasPaused
         /\ p.pending = pending /\ p.posted = posted /\ p.mute = mute
    BY <2>2, <2>6 DEF Renderer
  <2> QED
    BY <1>2, <2>4, <2>5, <2>8, <2>9, <2>10
<1> QED
  BY <1>1, <1>2

(* p is k with drains posted.                                                *)
Posts(k, p) ==
    /\ p.queue = k.queue /\ p.begun = k.begun /\ p.stale = k.stale /\ p.flushing = k.flushing
    /\ p.has = k.has /\ p.paused = k.paused /\ p.failed = k.failed
    /\ \A t \in AV : Driven(k, t) => Driven(p, t)

LEMMA PostDrainKeeps ==
    ASSUME NEW k, Sound(k), NEW t \in AV
    PROVE  /\ Sound(PostDrain(k, t)) /\ Posts(k, PostDrain(k, t)) /\ PostDrain(k, t).sync = k.sync
           /\ Driven(PostDrain(k, t), t)
<1> DEFINE p == PostDrain(k, t)
<1> SUFFICES Sound(p) /\ Posts(k, p) /\ p.sync = k.sync /\ Driven(p, t)
  OBVIOUS
<1>0. k \in Renderer /\ Drawn(k) /\ Timed(k)
  BY DEF Sound
<1>1. /\ p \in Renderer
      /\ p.queue = k.queue /\ p.begun = k.begun /\ p.stale = k.stale /\ p.flushing = k.flushing
      /\ p.has = k.has /\ p.sync = k.sync /\ p.paused = k.paused /\ p.failed = k.failed
  BY <1>0, PostDrainDoes
<1>2. CASE p = k /\ (t \in k.pending \/ k.sync \/ k.paused \/ k.queue[t] = <<>>)
  <2> HIDE DEF p
  <2> QED
    BY <1>0, <1>2 DEF Sound, Driven, Posts
<1>3. CASE /\ t \notin k.pending /\ ~k.sync /\ ~k.paused /\ k.queue[t] # <<>>
           /\ p.pending = k.pending \cup {t}
           /\ p.posted = [k.posted EXCEPT ![t] = @ + 1]
           /\ p.mute = (k.mute /\ t # Audio)
           /\ \/ t # Video /\ p.anchor = k.anchor /\ p.wasPaused = k.wasPaused
              \/ /\ t = Video
                 /\ p.anchor = Anchored(k).anchor
                 /\ p.wasPaused = Anchored(k).wasPaused
  <2> HIDE DEF p
  <2>1. k.posted \in [AV -> Nat] /\ k.pending \in SUBSET AV /\ k.queue \in [AV -> Seq(Entry)]
    BY <1>0, RendererFields
  <2>2. Drawn(p)
    BY <1>0, <1>1, <1>3, <2>1 DEF Drawn
  <2>3. Driven(p, t) /\ \A u \in AV : Driven(k, u) => Driven(p, u)
    BY <1>1, <1>3 DEF Driven
  <2>4. CASE t # Video /\ p.anchor = k.anchor /\ p.wasPaused = k.wasPaused
    <3>1. Video \in p.pending => Video \in k.pending
      BY <1>3, <2>4
    <3>2. Timed(p)
      BY <1>0, <1>1, <2>4, <3>1 DEF Timed
    <3> QED
      BY <1>1, <2>2, <2>3, <3>2 DEF Sound, Posts
  <2>5. CASE /\ t = Video
             /\ p.anchor = Anchored(k).anchor
             /\ p.wasPaused = Anchored(k).wasPaused
    <3> DEFINE a == Anchored(k)
    <3>1. /\ a \in Renderer
          /\ a.anchor = "old" => k.anchor = "old"
          /\ a = k \/ a.anchor = "new"
          /\ Head(k.queue[Video]) = "buffer" /\ Audio \notin k.has /\ Video \in k.has /\ k.wasPaused
                => a.anchor # "old"
      BY <1>0, AnchoredDoes
    <3> HIDE DEF a
    <3>2. a.anchor = "old" => a.wasPaused
      BY <1>0, <3>1 DEF Timed
    <3>3. ASSUME Video \notin p.flushing
          PROVE  /\ (\E i \in 1 .. Len(p.queue[Video]) : p.queue[Video][i] = "buffer") => Video \in p.has
                 /\ Video \in p.pending /\ Head(p.queue[Video]) = "buffer" /\ Audio \notin p.has
                      => p.anchor # "old"
      <4>1. (\E i \in 1 .. Len(p.queue[Video]) : p.queue[Video][i] = "buffer") => Video \in p.has
        BY <1>0, <1>1, <3>3 DEF Timed
      <4>2. ASSUME Head(p.queue[Video]) = "buffer", Audio \notin p.has PROVE p.anchor # "old"
        <5>1. p.queue[Video] # <<>> /\ p.queue[Video] \in Seq(Entry)
          BY <1>1, <1>3, <2>1, <2>5
        <5>2. 1 \in 1 .. Len(p.queue[Video]) /\ p.queue[Video][1] = "buffer"
          BY <4>2, <5>1, HeadTailProperties
        <5>3. Video \in k.has
          BY <1>1, <4>1, <5>2
        <5>4. p.anchor = a.anchor
          BY <2>5 DEF a
        <5>5. a.anchor = "old" => k.wasPaused
          BY <1>0, <3>1 DEF Timed
        <5> QED
          BY <1>1, <3>1, <4>2, <5>3, <5>4, <5>5
      <4> QED
        BY <4>1, <4>2
    <3>4. p.anchor = a.anchor /\ p.wasPaused = a.wasPaused
      BY <2>5 DEF a
    <3>5. Timed(p)
      BY <3>2, <3>3, <3>4 DEF Timed
    <3> QED
      BY <1>1, <2>2, <2>3, <3>5 DEF Sound, Posts
  <2> QED
    BY <1>3, <2>4, <2>5
<1> QED
  BY <1>0, <1>2, <1>3, PostDrainDoes

(* A drain for each track, where there is something to drain.                    *)
LEMMA BothPosted ==
    ASSUME NEW k, Sound(k)
    PROVE  LET p == PostDrain(PostDrain(k, Audio), Video)
           IN  Sound(p) /\ Posts(k, p) /\ p.sync = k.sync /\ \A t \in AV : Driven(p, t)
<1> DEFINE a == PostDrain(k, Audio)
           p == PostDrain(a, Video)
<1>1. Sound(a) /\ Posts(k, a) /\ a.sync = k.sync /\ Driven(a, Audio)
  BY TwoTracks, PostDrainKeeps
<1> HIDE DEF a
<1>2. Sound(p) /\ Posts(a, p) /\ p.sync = a.sync /\ Driven(p, Video)
  BY <1>1, TwoTracks, PostDrainKeeps
<1> HIDE DEF p
<1>3. Posts(k, p) /\ p.sync = k.sync
  BY <1>1, <1>2 DEF Posts
<1>4. Driven(p, Audio)
  BY <1>1, <1>2, TwoTracks DEF Posts
<1>5. Sound(p) /\ Posts(k, p) /\ p.sync = k.sync /\ \A t \in AV : Driven(p, t)
  BY <1>2, <1>3, <1>4, TwoTracks
<1> QED
  BY <1>5 DEF p, a

LEMMA SyncQueuesDoneKeeps ==
    ASSUME NEW k, Sound(k)
    PROVE  /\ Sound(SyncQueuesDone(k)) /\ Posts(k, SyncQueuesDone(k)) /\ ~SyncQueuesDone(k).sync
<1>1. CASE ~k.sync
  BY <1>1 DEF SyncQueuesDone, Posts
<1>2. CASE k.sync
  <2> DEFINE s == [k EXCEPT !.sync = FALSE]
  <2>1. k \in Renderer /\ Drawn(k) /\ Timed(k)
    BY DEF Sound
  <2>2. /\ s \in Renderer /\ ~s.sync /\ s.queue = k.queue /\ s.begun = k.begun /\ s.stale = k.stale
        /\ s.flushing = k.flushing /\ s.has = k.has /\ s.paused = k.paused /\ s.failed = k.failed
        /\ s.pending = k.pending /\ s.posted = k.posted /\ s.anchor = k.anchor
        /\ s.wasPaused = k.wasPaused
    BY <2>1 DEF Renderer
  <2> HIDE DEF s
  <2>3. Sound(s)
    BY <2>1, <2>2 DEF Sound, Drawn, Timed
  <2> DEFINE p == PostDrain(PostDrain(s, Audio), Video)
  <2>4. Sound(p) /\ Posts(s, p) /\ p.sync = s.sync /\ \A t \in AV : Driven(p, t)
    BY <2>3, BothPosted
  <2>5. SyncQueuesDone(k) = p
    BY <1>2 DEF SyncQueuesDone, s
  <2> HIDE DEF p
  <2> QED
    BY <2>2, <2>4, <2>5 DEF Posts
<1> QED
  BY <1>1, <1>2

-----------------------------------------------------------------------------
(*                          Messages and buffers                            *)

AnyMessage == [to : Handlers, what : Whats, trk : AV \cup {"-"}, arg : Args]

(* What is posted to the player's looper: calls of the renderer, and what it replies. *)
Note == {m \in AnyMessage : \/ m.to = "codec" /\ m = Consumed(Audio)
                            \/ m.to = "player" /\ m.what = "RendererEOS"}

Call ==
    {m \in AnyMessage :
        /\ m.to = "renderer"
        /\ \/ m.what \in {"QueueBuffer", "Flush"} /\ m.trk \in AV
           \/ m.what = "QueueEOS" /\ m.trk \in AV /\ m.arg = "eos"
           \/ m.what \in {"Pause", "Resume", "AudioSinkChanged"}}

MainMessage == Call \cup Note

Of(what, t) == {m \in AnyMessage : m.what = what /\ m.trk = t}

LEMMA HowManyIsHits ==
    ASSUME NEW q \in Seq(AnyMessage), NEW what, NEW t
    PROVE  HowMany(q, what, t) = Hits(q, Of(what, t))
<1>1. \A i \in 1 .. Len(q) : q[i] \in AnyMessage
  BY ElementOfSeq
<1>2. {i \in 1 .. Len(q) : q[i].what = what /\ q[i].trk = t} = {i \in 1 .. Len(q) : q[i] \in Of(what, t)}
  BY <1>1 DEF Of
<1> QED
  BY <1>2 DEF HowMany, Hits

LEMMA HowManyType ==
    ASSUME NEW q \in Seq(AnyMessage), NEW what, NEW t
    PROVE  HowMany(q, what, t) \in Nat
<1>1. Hits(q, Of(what, t)) \in Nat
  BY HitsType
<1> QED
  BY <1>1, HowManyIsHits

LEMMA HowManyJoins ==
    ASSUME NEW q \in Seq(AnyMessage), NEW s \in Seq(AnyMessage), NEW what, NEW t
    PROVE  /\ HowMany(q \o s, what, t) = HowMany(q, what, t) + HowMany(s, what, t)
           /\ HowMany(q, what, t) \in Nat /\ HowMany(s, what, t) \in Nat
<1>1. q \o s \in Seq(AnyMessage)
  BY ConcatProperties
<1>2. Hits(q \o s, Of(what, t)) = Hits(q, Of(what, t)) + Hits(s, Of(what, t))
  BY HitsConcat
<1> QED
  BY <1>1, <1>2, HowManyIsHits, HowManyType

LEMMA HowManyHead ==
    ASSUME NEW q \in Seq(AnyMessage), q # <<>>, NEW what, NEW t
    PROVE  /\ HowMany(q, what, t) =
                (IF Head(q).what = what /\ Head(q).trk = t THEN 1 ELSE 0) + HowMany(Tail(q), what, t)
           /\ HowMany(Tail(q), what, t) \in Nat
<1>1. Head(q) \in AnyMessage /\ Tail(q) \in Seq(AnyMessage)
  BY HeadTailProperties
<1>2. Hits(q, Of(what, t)) = (IF Head(q) \in Of(what, t) THEN 1 ELSE 0) + Hits(Tail(q), Of(what, t))
  BY HitsHead
<1>3. Head(q) \in Of(what, t) <=> Head(q).what = what /\ Head(q).trk = t
  BY <1>1 DEF Of
<1> QED
  BY <1>1, <1>2, <1>3, HowManyIsHits, HowManyType

LEMMA HowManyAppend ==
    ASSUME NEW q \in Seq(AnyMessage), NEW m \in AnyMessage, NEW what, NEW t
    PROVE  /\ HowMany(Append(q, m), what, t) =
                HowMany(q, what, t) + (IF m.what = what /\ m.trk = t THEN 1 ELSE 0)
           /\ HowMany(q, what, t) \in Nat
<1>1. Append(q, m) \in Seq(AnyMessage)
  BY AppendProperties
<1>2. Hits(Append(q, m), Of(what, t)) = Hits(q, Of(what, t)) + (IF m \in Of(what, t) THEN 1 ELSE 0)
  BY HitsAppend
<1>3. m \in Of(what, t) <=> m.what = what /\ m.trk = t
  BY DEF Of
<1> QED
  BY <1>1, <1>2, <1>3, HowManyIsHits, HowManyType

LEMMA HowManyEmpty == \A what, t : HowMany(<<>>, what, t) = 0
<1> SUFFICES ASSUME NEW what, NEW t PROVE HowMany(<<>>, what, t) = 0
  OBVIOUS
<1>1. <<>> \in Seq(AnyMessage)
  BY EmptySeq
<1> QED
  BY <1>1, HowManyIsHits, HitsEmpty

LEMMA BuffersIsHits == \A q : Buffers(q) = Hits(q, {"buffer"})
<1> SUFFICES ASSUME NEW q PROVE Buffers(q) = Hits(q, {"buffer"})
  OBVIOUS
<1>1. {i \in 1 .. Len(q) : q[i] = "buffer"} = {i \in 1 .. Len(q) : q[i] \in {"buffer"}}
  OBVIOUS
<1> QED
  BY <1>1 DEF Buffers, Hits

LEMMA BuffersType ==
    ASSUME NEW q \in Seq(Entry)
    PROVE  Buffers(q) \in Nat
  BY BuffersIsHits, HitsType

LEMMA BuffersAppend ==
    ASSUME NEW q \in Seq(Entry), NEW e \in Entry
    PROVE  /\ Buffers(Append(q, e)) = Buffers(q) + (IF e = "buffer" THEN 1 ELSE 0)
           /\ Buffers(q) \in Nat
<1>1. Hits(Append(q, e), {"buffer"}) = Hits(q, {"buffer"}) + (IF e \in {"buffer"} THEN 1 ELSE 0)
  BY HitsAppend
<1> QED
  BY <1>1, BuffersIsHits, BuffersType

LEMMA BuffersHead ==
    ASSUME NEW q \in Seq(Entry), q # <<>>
    PROVE  /\ Buffers(q) = (IF Head(q) = "buffer" THEN 1 ELSE 0) + Buffers(Tail(q))
           /\ Buffers(Tail(q)) \in Nat
<1>1. Hits(q, {"buffer"}) = (IF Head(q) \in {"buffer"} THEN 1 ELSE 0) + Hits(Tail(q), {"buffer"})
  BY HitsHead
<1>2. Tail(q) \in Seq(Entry)
  BY HeadTailProperties
<1> QED
  BY <1>1, <1>2, BuffersIsHits, BuffersType

LEMMA BuffersSplit ==
    ASSUME NEW q \in Seq(Entry), NEW n \in 0 .. Len(q)
    PROVE  /\ Buffers(q) = Buffers(SubSeq(q, 1, n)) + Buffers(SubSeq(q, n + 1, Len(q)))
           /\ SubSeq(q, 1, n) \in Seq(Entry) /\ SubSeq(q, n + 1, Len(q)) \in Seq(Entry)
           /\ Buffers(SubSeq(q, 1, n)) \in Nat /\ Buffers(SubSeq(q, n + 1, Len(q))) \in Nat
<1>1. Hits(q, {"buffer"}) = Hits(SubSeq(q, 1, n), {"buffer"}) + Hits(SubSeq(q, n + 1, Len(q)), {"buffer"})
  BY HitsSplit
<1>2. Len(q) \in Nat
  BY LenProperties
<1>3. SubSeq(q, 1, n) \in Seq(Entry) /\ SubSeq(q, n + 1, Len(q)) \in Seq(Entry)
  BY <1>2, SubSeqProperties
<1> QED
  BY <1>1, <1>3, BuffersIsHits, BuffersType

LEMMA BuffersOfFew ==
    /\ Buffers(<<>>) = 0 /\ Buffers(<<"buffer">>) = 1
    /\ <<>> \in Seq(Entry) /\ <<"buffer">> \in Seq(Entry)
<1>1. <<>> \in Seq(Entry) /\ "buffer" \in Entry /\ <<"buffer">> = Append(<<>>, "buffer")
  BY EmptySeq DEF Entry
<1>2. Buffers(<<>>) = 0
  BY BuffersIsHits, HitsEmpty
<1>3. Buffers(Append(<<>>, "buffer")) = Buffers(<<>>) + (IF "buffer" = "buffer" THEN 1 ELSE 0)
  BY <1>1, BuffersAppend
<1>4. <<"buffer">> \in Seq(Entry)
  BY <1>1
<1> QED
  BY <1>1, <1>2, <1>3, <1>4

LEMMA NoBuffers ==
    ASSUME NEW q \in Seq(Entry)
    PROVE  Buffers(q) = 0 <=> \A i \in 1 .. Len(q) : q[i] # "buffer"
  BY BuffersIsHits, HitsNone

(* A reply for each buffer, and nothing else.                                   *)
LEMMA RepliesCount ==
    ASSUME NEW t \in AV, NEW q \in Seq(Entry)
    PROVE  /\ Replies(t, q) \in Seq({Consumed(t)})
           /\ \A what \in Whats, u \in AV :
                HowMany(Replies(t, q), what, u) =
                    IF what = "OutputBufferDrained" /\ u = t THEN Buffers(q) ELSE 0
<1> DEFINE s == Replies(t, q)
<1>1. Buffers(q) \in Nat
  BY BuffersType
<1>2. s \in Seq({Consumed(t)}) /\ Len(s) = Buffers(q)
  BY <1>1, IsASeq DEF Replies
<1>3. Consumed(t).what = "OutputBufferDrained" /\ Consumed(t).trk = t /\ Consumed(t) \in AnyMessage
  BY DEF Consumed, Msg, AnyMessage, Handlers, Whats, Args
<1>4. s \in Seq(AnyMessage)
  BY <1>2, <1>3, SeqMonotonic
<1>5. \A i \in 1 .. Len(s) : s[i] = Consumed(t)
  BY <1>2, ElementOfSeq
<1> HIDE DEF s
<1>6. ASSUME NEW what \in Whats, NEW u \in AV
      PROVE  HowMany(s, what, u) = IF what = "OutputBufferDrained" /\ u = t THEN Buffers(q) ELSE 0
  <2>1. CASE what = "OutputBufferDrained" /\ u = t
    <3>1. \A i \in 1 .. Len(s) : s[i] \in Of(what, u)
      BY <1>3, <1>5, <2>1 DEF Of
    <3>2. Hits(s, Of(what, u)) = Len(s)
      BY <1>4, <3>1, HitsAll
    <3> QED
      BY <1>2, <1>4, <2>1, <3>2, HowManyIsHits
  <2>2. CASE ~(what = "OutputBufferDrained" /\ u = t)
    <3>1. \A i \in 1 .. Len(s) : s[i] \notin Of(what, u)
      BY <1>3, <1>5, <2>2 DEF Of
    <3>2. Hits(s, Of(what, u)) = 0
      BY <1>4, <3>1, HitsNone
    <3> QED
      BY <1>4, <2>2, <3>2, HowManyIsHits
  <2> QED
    BY <2>1, <2>2
<1> QED
  BY <1>2, <1>6 DEF s

-----------------------------------------------------------------------------
(*                        The inductive invariant                           *)

Typed ==
    /\ TypeOK
    /\ mainQ \in Seq(MainMessage)
    /\ videoQ \in Seq({Consumed(Video)})

Running(k) == Sound(k) /\ \A t \in AV : Driven(k, t)

(* A flag is up as long as its flush is on the way.                            *)
OneFlush == \A t \in AV : HowMany(mainQ, "Flush", t) = IF t \in r.flushing THEN 1 ELSE 0

Saying(whats)  == {m \in AnyMessage : m.what \in whats}
OfAudio(whats) == {m \in AnyMessage : m.what \in whats /\ m.trk = Audio}

(* Whoever asks for a pause knows that the one before is over, or will be by then. *)
Pauses(q, paused, rests) ==
    /\ SettledAtAll(q, paused, Saying({"Pause"}), Saying({"Resume"}), Saying({"Pause"}))
    /\ ~rests => SettledAtEnd(q, paused, Saying({"Pause"}), Saying({"Resume"}))

(* A sink is changed when the audio queue has been played to its end, or flushed.  *)
Sinks(q, entries) ==
    SettledAtAll(q, entries # <<>>, OfAudio({"QueueBuffer", "QueueEOS"}), OfAudio({"Flush"}),
                 Saying({"AudioSinkChanged"}))

HasEnd(entries) == \E i \in 1 .. Len(entries) : entries[i] # "buffer"

(* An end of the audio that the player has forgotten is going to be flushed.       *)
Ends(q, entries, over) ==
    Audio \notin over => SettledAtEnd(q, HasEnd(entries), OfAudio({"QueueEOS"}), OfAudio({"Flush"}))

(* What is always so, and what is so until a CHECK on the sink fails.              *)
Steady ==
    /\ Typed
    /\ Running(r)
    /\ BufferInOneHand /\ OneFlush
    /\ Pauses(mainQ, r.paused, resting)
    /\ Sinks(mainQ, r.queue[Audio])
    /\ Ends(mainQ, r.queue[Audio], ended)

Working == Steady /\ r.failed = "none"

IInv == Steady /\ r.failed \in {"none", "audioSink"}

LEMMA MessagesAreMessages ==
    /\ Seq(MainMessage) \subseteq Seq(AnyMessage)
    /\ Seq({Consumed(Video)}) \subseteq Seq(AnyMessage)
    /\ Seq(Note) \subseteq Seq(MainMessage)
    /\ Consumed(Audio) \in Note
    /\ \A m \in Note : m.what \in {"OutputBufferDrained", "RendererEOS"} /\ m.to # "renderer"
<1>1. MainMessage \subseteq AnyMessage /\ Note \subseteq MainMessage
  BY DEF MainMessage, Call, Note
<1>2. \A t \in AV : Consumed(t) \in AnyMessage
  BY DEF Consumed, Msg, AnyMessage, Handlers, Whats, Args
<1>3. \A m \in Note : m.what \in {"OutputBufferDrained", "RendererEOS"} /\ m.to # "renderer"
  BY DEF Note, Consumed, Msg
<1>4. Consumed(Audio) \in Note
  BY <1>2, TwoTracks DEF Note, Consumed, Msg
<1>5. {Consumed(Video)} \subseteq AnyMessage
  BY <1>2, TwoTracks DEF AV
<1> QED
  BY <1>1, <1>3, <1>4, <1>5, SeqMonotonic

LEMMA SettledLess ==
    ASSUME NEW q, NEW X, NEW Y, NEW Z, NEW b \in BOOLEAN, NEW c \in BOOLEAN, c => b
    PROVE  /\ SettledAtAll(q, b, X, Z, Y) => SettledAtAll(q, c, X, Z, Y)
           /\ SettledAtEnd(q, b, X, Z) => SettledAtEnd(q, c, X, Z)
  BY DEF SettledAtAll, SettledAtEnd, Settled

(* What is posted back says nothing of pauses, sinks and ends.                   *)
LEMMA NotesSettle ==
    ASSUME NEW q \in Seq(MainMessage), NEW s \in Seq(Note),
           NEW paused \in BOOLEAN, NEW rests \in BOOLEAN, NEW e \in Seq(Entry), NEW over,
           Pauses(q, paused, rests), Sinks(q, e), Ends(q, e, over)
    PROVE  Pauses(q \o s, paused, rests) /\ Sinks(q \o s, e) /\ Ends(q \o s, e, over)
<1>1. q \in Seq(AnyMessage) /\ s \in Seq(AnyMessage)
  BY MessagesAreMessages
<1>2. \A i \in 1 .. Len(s) : s[i].what \in {"OutputBufferDrained", "RendererEOS"}
  BY MessagesAreMessages, ElementOfSeq
<1>3. /\ \A i \in 1 .. Len(s) : s[i] \notin Saying({"Pause"}) /\ s[i] \notin Saying({"AudioSinkChanged"})
      /\ \A i \in 1 .. Len(s) : s[i] \notin OfAudio({"QueueEOS"})
  BY <1>2 DEF Saying, OfAudio
<1>4. Pauses(q \o s, paused, rests)
  <2> DEFINE P == Saying({"Pause"})
             R == Saying({"Resume"})
  <2>1. SettledAtAll(q, paused, P, R, P) /\ (~rests => SettledAtEnd(q, paused, P, R))
    BY DEF Pauses
  <2>2. \A i \in 1 .. Len(s) : s[i] \notin P
    BY <1>3
  <2> HIDE DEF P, R
  <2>3. SettledAtAll(q \o s, paused, P, R, P)
    BY <1>1, <2>1, <2>2, SettledAtAllJoins
  <2>4. ~rests => SettledAtEnd(q \o s, paused, P, R)
    BY <1>1, <2>1, <2>2, SettledAtEndJoins
  <2> QED
    BY <2>3, <2>4 DEF Pauses, P, R
<1>5. Sinks(q \o s, e)
  <2> DEFINE b == e # <<>>
             X == OfAudio({"QueueBuffer", "QueueEOS"})
             Z == OfAudio({"Flush"})
             Y == Saying({"AudioSinkChanged"})
  <2>1. SettledAtAll(q, b, X, Z, Y) /\ b \in BOOLEAN
    BY DEF Sinks
  <2>2. \A i \in 1 .. Len(s) : s[i] \notin Y
    BY <1>3
  <2> HIDE DEF b, X, Y, Z
  <2>3. SettledAtAll(q \o s, b, X, Z, Y)
    BY <1>1, <2>1, <2>2, SettledAtAllJoins
  <2> QED
    BY <2>3 DEF Sinks, b, X, Y, Z
<1>6. ASSUME Audio \notin over
      PROVE  SettledAtEnd(q \o s, HasEnd(e), OfAudio({"QueueEOS"}), OfAudio({"Flush"}))
  <2> DEFINE b == HasEnd(e)
             X == OfAudio({"QueueEOS"})
             Z == OfAudio({"Flush"})
  <2>1. SettledAtEnd(q, b, X, Z) /\ b \in BOOLEAN
    BY <1>6 DEF Ends, HasEnd
  <2>2. \A i \in 1 .. Len(s) : s[i] \notin X
    BY <1>3
  <2> HIDE DEF b, X, Z
  <2>3. SettledAtEnd(q \o s, b, X, Z)
    BY <1>1, <2>1, <2>2, SettledAtEndJoins
  <2> QED
    BY <2>3 DEF b, X, Z
<1> QED
  BY <1>4, <1>5, <1>6 DEF Ends

(* The renderer, or its codec or the player, takes the head of the queue.           *)
LEMMA TakingSettles ==
    ASSUME NEW q \in Seq(MainMessage), q # <<>>,
           NEW paused \in BOOLEAN, NEW paused2 \in BOOLEAN, NEW rests \in BOOLEAN,
           NEW e \in Seq(Entry), NEW e2 \in Seq(Entry), NEW over,
           Pauses(q, paused, rests), Sinks(q, e), Ends(q, e, over),
           paused2 => (paused /\ Head(q).what # "Resume") \/ Head(q).what = "Pause",
           e2 # <<>> => \/ e # <<>> /\ ~(Head(q).what = "Flush" /\ Head(q).trk = Audio)
                        \/ Head(q).what \in {"QueueBuffer", "QueueEOS"} /\ Head(q).trk = Audio,
           HasEnd(e2) => \/ HasEnd(e) /\ ~(Head(q).what = "Flush" /\ Head(q).trk = Audio)
                         \/ Head(q).what = "QueueEOS" /\ Head(q).trk = Audio
    PROVE  Pauses(Tail(q), paused2, rests) /\ Sinks(Tail(q), e2) /\ Ends(Tail(q), e2, over)
<1>1. q \in Seq(AnyMessage)
  BY MessagesAreMessages
<1>2. Head(q) \in AnyMessage
  BY <1>1, HeadTailProperties
<1>3. Pauses(Tail(q), paused2, rests)
  <2> DEFINE P == Saying({"Pause"})
             R == Saying({"Resume"})
  <2>1. SettledAtAll(q, paused, P, R, P) /\ (~rests => SettledAtEnd(q, paused, P, R))
    BY DEF Pauses
  <2>2. paused2 => (paused /\ Head(q) \notin R) \/ Head(q) \in P
    BY <1>2 DEF Saying
  <2> HIDE DEF P, R
  <2>3. SettledAtAll(Tail(q), paused2, P, R, P)
    BY <1>1, <2>1, <2>2, SettledAtAllTail
  <2>4. ~rests => SettledAtEnd(Tail(q), paused2, P, R)
    BY <1>1, <2>1, <2>2, SettledAtEndTail
  <2> QED
    BY <2>3, <2>4 DEF Pauses, P, R
<1>4. Sinks(Tail(q), e2)
  <2> DEFINE b == e # <<>>
             c == e2 # <<>>
             X == OfAudio({"QueueBuffer", "QueueEOS"})
             Z == OfAudio({"Flush"})
             Y == Saying({"AudioSinkChanged"})
  <2>1. SettledAtAll(q, b, X, Z, Y) /\ b \in BOOLEAN /\ c \in BOOLEAN
    BY DEF Sinks
  <2>2. c => (b /\ Head(q) \notin Z) \/ Head(q) \in X
    BY <1>2 DEF OfAudio
  <2> HIDE DEF b, c, X, Y, Z
  <2>3. SettledAtAll(Tail(q), c, X, Z, Y)
    BY <1>1, <2>1, <2>2, SettledAtAllTail
  <2> QED
    BY <2>3 DEF Sinks, c, X, Y, Z
<1>5. ASSUME Audio \notin over
      PROVE  SettledAtEnd(Tail(q), HasEnd(e2), OfAudio({"QueueEOS"}), OfAudio({"Flush"}))
  <2> DEFINE b == HasEnd(e)
             c == HasEnd(e2)
             X == OfAudio({"QueueEOS"})
             Z == OfAudio({"Flush"})
  <2>1. SettledAtEnd(q, b, X, Z) /\ b \in BOOLEAN /\ c \in BOOLEAN
    BY <1>5 DEF Ends, HasEnd
  <2>2. c => (b /\ Head(q) \notin Z) \/ Head(q) \in X
    BY <1>2 DEF OfAudio
  <2> HIDE DEF b, c, X, Z
  <2>3. SettledAtEnd(Tail(q), c, X, Z)
    BY <1>1, <2>1, <2>2, SettledAtEndTail
  <2> QED
    BY <2>3 DEF c, X, Z
<1> QED
  BY <1>3, <1>4, <1>5 DEF Ends

(* The player posts a call.                                                   *)
LEMMA CallSettlesPauses ==
    ASSUME NEW q \in Seq(MainMessage), NEW m \in Call,
           NEW paused \in BOOLEAN, NEW rests \in BOOLEAN, NEW rests2 \in BOOLEAN,
           Pauses(q, paused, rests),
           m.what = "Pause" => ~rests /\ rests2,
           m.what \notin {"Pause", "Resume"} => rests2 = rests
    PROVE  Pauses(Append(q, m), paused, rests2)
<1> DEFINE P == Saying({"Pause"})
           R == Saying({"Resume"})
<1>1. q \in Seq(AnyMessage) /\ m \in AnyMessage
  BY MessagesAreMessages DEF Call
<1>2. SettledAtAll(q, paused, P, R, P) /\ (~rests => SettledAtEnd(q, paused, P, R))
  BY DEF Pauses
<1>3. (m \in P <=> m.what = "Pause") /\ (m \in R <=> m.what = "Resume")
  BY <1>1 DEF Saying
<1>4. <<m>> \in Seq(AnyMessage) /\ Append(q, m) = q \o <<m>> /\ Len(<<m>>) = 1 /\ <<m>>[1] = m
  BY <1>1, AppendIsConcat
<1> HIDE DEF P, R
<1>5. CASE m.what = "Pause"
  <2>1. SettledAtAll(Append(q, m), paused, P, R, P)
    BY <1>1, <1>2, <1>5, SettledAtAllAppend
  <2> QED
    BY <1>5, <2>1 DEF Pauses, P, R
<1>6. CASE m.what = "Resume"
  <2>1. \A i \in 1 .. Len(<<m>>) : <<m>>[i] \notin P
    BY <1>3, <1>4, <1>6
  <2>2. SettledAtAll(q \o <<m>>, paused, P, R, P)
    BY <1>1, <1>2, <1>4, <2>1, SettledAtAllJoins
  <2>3. SettledAtEnd(Append(q, m), paused, P, R)
    BY <1>1, <1>3, <1>6, SettledAtEndAppend
  <2> QED
    BY <1>4, <2>2, <2>3 DEF Pauses, P, R
<1>7. CASE m.what \notin {"Pause", "Resume"}
  <2>1. \A i \in 1 .. Len(<<m>>) : <<m>>[i] \notin P
    BY <1>3, <1>4, <1>7
  <2>2. SettledAtAll(q \o <<m>>, paused, P, R, P)
    BY <1>1, <1>2, <1>4, <2>1, SettledAtAllJoins
  <2>3. ~rests2 => SettledAtEnd(q \o <<m>>, paused, P, R)
    BY <1>1, <1>2, <1>4, <1>7, <2>1, SettledAtEndJoins
  <2> QED
    BY <1>4, <2>2, <2>3 DEF Pauses, P, R
<1> QED
  BY <1>5, <1>6, <1>7

LEMMA CallSettlesSinks ==
    ASSUME NEW q \in Seq(MainMessage), NEW m \in Call, NEW e \in Seq(Entry),
           Sinks(q, e),
           m.what = "AudioSinkChanged" =>
               SettledAtEnd(q, e # <<>>, OfAudio({"QueueBuffer", "QueueEOS"}), OfAudio({"Flush"}))
    PROVE  Sinks(Append(q, m), e)
<1> DEFINE b == e # <<>>
           X == OfAudio({"QueueBuffer", "QueueEOS"})
           Z == OfAudio({"Flush"})
           Y == Saying({"AudioSinkChanged"})
<1>1. q \in Seq(AnyMessage) /\ m \in AnyMessage
  BY MessagesAreMessages DEF Call
<1>2. SettledAtAll(q, b, X, Z, Y) /\ b \in BOOLEAN
  BY DEF Sinks
<1>3. m \in Y <=> m.what = "AudioSinkChanged"
  BY <1>1 DEF Saying
<1>4. <<m>> \in Seq(AnyMessage) /\ Append(q, m) = q \o <<m>> /\ Len(<<m>>) = 1 /\ <<m>>[1] = m
  BY <1>1, AppendIsConcat
<1>5. m.what = "AudioSinkChanged" => SettledAtEnd(q, b, X, Z)
  OBVIOUS
<1> HIDE DEF b, X, Y, Z
<1>6. CASE m.what = "AudioSinkChanged"
  <2>1. SettledAtAll(Append(q, m), b, X, Z, Y)
    BY <1>1, <1>2, <1>5, <1>6, SettledAtAllAppend
  <2> QED
    BY <2>1 DEF Sinks, b, X, Y, Z
<1>7. CASE m.what # "AudioSinkChanged"
  <2>1. \A i \in 1 .. Len(<<m>>) : <<m>>[i] \notin Y
    BY <1>3, <1>4, <1>7
  <2>2. SettledAtAll(q \o <<m>>, b, X, Z, Y)
    BY <1>1, <1>2, <1>4, <2>1, SettledAtAllJoins
  <2> QED
    BY <1>4, <2>2 DEF Sinks, b, X, Y, Z
<1> QED
  BY <1>6, <1>7

LEMMA CallSettlesEnds ==
    ASSUME NEW q \in Seq(MainMessage), NEW m \in Call, NEW e \in Seq(Entry), NEW over, NEW over2,
           Ends(q, e, over),
           Audio \notin over2 => \/ Audio \notin over /\ ~(m.what = "QueueEOS" /\ m.trk = Audio)
                                 \/ m.what = "Flush" /\ m.trk = Audio
    PROVE  Ends(Append(q, m), e, over2)
<1> DEFINE b == HasEnd(e)
           X == OfAudio({"QueueEOS"})
           Z == OfAudio({"Flush"})
<1> SUFFICES ASSUME Audio \notin over2 PROVE SettledAtEnd(Append(q, m), b, X, Z)
  BY DEF Ends
<1>1. q \in Seq(AnyMessage) /\ m \in AnyMessage
  BY MessagesAreMessages DEF Call
<1>2. /\ m \in X <=> m.what = "QueueEOS" /\ m.trk = Audio
      /\ m \in Z <=> m.what = "Flush" /\ m.trk = Audio
  BY <1>1 DEF OfAudio
<1>3. <<m>> \in Seq(AnyMessage) /\ Append(q, m) = q \o <<m>> /\ Len(<<m>>) = 1 /\ <<m>>[1] = m
  BY <1>1, AppendIsConcat
<1>4. Audio \notin over => SettledAtEnd(q, b, X, Z)
  BY DEF Ends
<1>5. b \in BOOLEAN
  BY DEF HasEnd
<1> HIDE DEF b, X, Z
<1>6. CASE m.what = "Flush" /\ m.trk = Audio
  <2>1. m \in Z /\ m \notin X
    BY <1>2, <1>6
  <2> QED
    BY <1>1, <1>5, <2>1, SettledAtEndAppend
<1>7. CASE Audio \notin over /\ ~(m.what = "QueueEOS" /\ m.trk = Audio)
  <2>1. \A i \in 1 .. Len(<<m>>) : <<m>>[i] \notin X
    BY <1>2, <1>3, <1>7
  <2>2. SettledAtEnd(q \o <<m>>, b, X, Z)
    BY <1>1, <1>3, <1>4, <1>5, <1>7, <2>1, SettledAtEndJoins
  <2> QED
    BY <1>3, <2>2
<1> QED
  BY <1>6, <1>7

(* The queue of the audio gets shorter.                                       *)
LEMMA DrainingSettles ==
    ASSUME NEW q \in Seq(MainMessage), NEW e \in Seq(Entry), NEW e2 \in Seq(Entry), NEW over,
           Sinks(q, e), Ends(q, e, over), e2 # <<>> => e # <<>>, HasEnd(e2) => HasEnd(e)
    PROVE  Sinks(q, e2) /\ Ends(q, e2, over)
<1>1. Sinks(q, e2)
  <2> DEFINE b == e # <<>>
             c == e2 # <<>>
  <2>1. b \in BOOLEAN /\ c \in BOOLEAN /\ (c => b)
    OBVIOUS
  <2> HIDE DEF b, c
  <2>2. \A X, Y, Z : SettledAtAll(q, b, X, Z, Y) => SettledAtAll(q, c, X, Z, Y)
    BY <2>1, SettledLess
  <2> QED
    BY <2>2 DEF Sinks, b, c
<1>2. Ends(q, e2, over)
  <2> DEFINE b == HasEnd(e)
             c == HasEnd(e2)
  <2>1. b \in BOOLEAN /\ c \in BOOLEAN /\ (c => b)
    BY DEF HasEnd
  <2> HIDE DEF b, c
  <2>2. \A X, Z : SettledAtEnd(q, b, X, Z) => SettledAtEnd(q, c, X, Z)
    BY <2>1, SettledLess
  <2> QED
    BY <2>2 DEF Ends, b, c
<1> QED
  BY <1>1, <1>2

-----------------------------------------------------------------------------
(*                      What a step of the renderer keeps                   *)

LEMMA NotesCount ==
    ASSUME NEW s \in Seq(Note), NEW u
    PROVE  HowMany(s, "QueueBuffer", u) = 0 /\ HowMany(s, "Flush", u) = 0
<1>1. s \in Seq(AnyMessage)
  BY MessagesAreMessages
<1>2. \A i \in 1 .. Len(s) : s[i].what \in {"OutputBufferDrained", "RendererEOS"}
  BY MessagesAreMessages, ElementOfSeq
<1>3. \A i \in 1 .. Len(s) : s[i] \notin Of("QueueBuffer", u) /\ s[i] \notin Of("Flush", u)
  BY <1>2 DEF Of
<1>4. Hits(s, Of("QueueBuffer", u)) = 0 /\ Hits(s, Of("Flush", u)) = 0
  BY <1>1, <1>3, HitsNone
<1> QED
  BY <1>1, <1>4, HowManyIsHits

(* The renderer is k, and has posted mainPart and videoPart.                      *)
LEMMA PostsBack ==
    ASSUME Typed, NEW k, Sound(k), NEW rest \in Seq(MainMessage),
           NEW mainPart \in Seq(Note), NEW videoPart \in Seq({Consumed(Video)}),
           Becomes(k, rest, mainPart, videoPart)
    PROVE  /\ Typed'
           /\ \A u \in AV :
                /\ HowMany(mainQ', "QueueBuffer", u) = HowMany(rest, "QueueBuffer", u)
                /\ HowMany(mainQ', "Flush", u) = HowMany(rest, "Flush", u)
                /\ HowMany(mainQ', "OutputBufferDrained", u) =
                     HowMany(rest, "OutputBufferDrained", u) + HowMany(mainPart, "OutputBufferDrained", u)
                /\ HowMany(videoQ', "OutputBufferDrained", u) =
                     HowMany(videoQ, "OutputBufferDrained", u) + HowMany(videoPart, "OutputBufferDrained", u)
                /\ HowMany(rest, "QueueBuffer", u) \in Nat /\ HowMany(rest, "Flush", u) \in Nat
                /\ HowMany(rest, "OutputBufferDrained", u) \in Nat
                /\ HowMany(mainPart, "OutputBufferDrained", u) \in Nat
                /\ HowMany(videoQ, "OutputBufferDrained", u) \in Nat
                /\ HowMany(videoPart, "OutputBufferDrained", u) \in Nat
<1>1. /\ mainQ' = rest \o mainPart /\ videoQ' = videoQ \o videoPart /\ r' = k
      /\ hand' = hand /\ ended' = ended /\ resting' = resting /\ left' = left
  BY DEF Becomes
<1>2. /\ rest \in Seq(AnyMessage) /\ mainPart \in Seq(AnyMessage) /\ mainPart \in Seq(MainMessage)
      /\ videoQ \in Seq({Consumed(Video)}) /\ videoQ \in Seq(AnyMessage) /\ videoPart \in Seq(AnyMessage)
  BY MessagesAreMessages DEF Typed
<1>3. mainQ' \in Seq(MainMessage) /\ videoQ' \in Seq({Consumed(Video)})
  BY <1>1, <1>2, ConcatProperties
<1>4. Typed'
  BY <1>1, <1>3 DEF Typed, TypeOK, Sound
<1>5. ASSUME NEW u \in AV
      PROVE  /\ HowMany(mainQ', "QueueBuffer", u) = HowMany(rest, "QueueBuffer", u)
             /\ HowMany(mainQ', "Flush", u) = HowMany(rest, "Flush", u)
             /\ HowMany(mainQ', "OutputBufferDrained", u) =
                  HowMany(rest, "OutputBufferDrained", u) + HowMany(mainPart, "OutputBufferDrained", u)
             /\ HowMany(videoQ', "OutputBufferDrained", u) =
                  HowMany(videoQ, "OutputBufferDrained", u) + HowMany(videoPart, "OutputBufferDrained", u)
             /\ HowMany(rest, "QueueBuffer", u) \in Nat /\ HowMany(rest, "Flush", u) \in Nat
             /\ HowMany(rest, "OutputBufferDrained", u) \in Nat
             /\ HowMany(mainPart, "OutputBufferDrained", u) \in Nat
             /\ HowMany(videoQ, "OutputBufferDrained", u) \in Nat
             /\ HowMany(videoPart, "OutputBufferDrained", u) \in Nat
  <2>1. \A what : /\ HowMany(rest \o mainPart, what, u) = HowMany(rest, what, u) + HowMany(mainPart, what, u)
                  /\ HowMany(rest, what, u) \in Nat /\ HowMany(mainPart, what, u) \in Nat
    BY <1>2, HowManyJoins
  <2>2. /\ HowMany(videoQ \o videoPart, "OutputBufferDrained", u) =
             HowMany(videoQ, "OutputBufferDrained", u) + HowMany(videoPart, "OutputBufferDrained", u)
        /\ HowMany(videoQ, "OutputBufferDrained", u) \in Nat
        /\ HowMany(videoPart, "OutputBufferDrained", u) \in Nat
    BY <1>2, HowManyJoins
  <2>3. HowMany(mainPart, "QueueBuffer", u) = 0 /\ HowMany(mainPart, "Flush", u) = 0
    BY NotesCount
  <2> QED
    BY <1>1, <2>1, <2>2, <2>3
<1> QED
  BY <1>4, <1>5

LEMMA TypesOfState ==
    ASSUME Steady
    PROVE  /\ r \in Renderer /\ Sound(r) /\ \A t \in AV : Driven(r, t)
           /\ mainQ \in Seq(MainMessage) /\ mainQ \in Seq(AnyMessage)
           /\ videoQ \in Seq({Consumed(Video)}) /\ videoQ \in Seq(AnyMessage)
           /\ hand \in [AV -> Nat] /\ ended \subseteq AV /\ left \in [Calls -> Nat]
           /\ resting \in BOOLEAN
           /\ r.queue \in [AV -> Seq(Entry)] /\ r.queue[Audio] \in Seq(Entry) /\ r.queue[Video] \in Seq(Entry)
           /\ r.paused \in BOOLEAN /\ r.sync \in BOOLEAN
<1>1. TypeOK /\ mainQ \in Seq(MainMessage) /\ videoQ \in Seq({Consumed(Video)})
  BY DEF Steady, Typed
<1>2. r \in Renderer
  BY <1>1 DEF TypeOK
<1>3. r.queue \in [AV -> Seq(Entry)] /\ r.paused \in BOOLEAN /\ r.sync \in BOOLEAN
  BY <1>2, RendererFields
<1>4. r.queue[Audio] \in Seq(Entry) /\ r.queue[Video] \in Seq(Entry)
  BY <1>3, TwoTracks
<1> QED
  BY <1>1, <1>2, <1>3, <1>4, MessagesAreMessages DEF Steady, Running, TypeOK

LEMMA TypesOfParts ==
    ASSUME Working
    PROVE  /\ r \in Renderer /\ Sound(r) /\ \A t \in AV : Driven(r, t)
           /\ r.failed = "none"
           /\ mainQ \in Seq(MainMessage) /\ mainQ \in Seq(AnyMessage)
           /\ videoQ \in Seq({Consumed(Video)}) /\ videoQ \in Seq(AnyMessage)
           /\ hand \in [AV -> Nat] /\ ended \subseteq AV /\ left \in [Calls -> Nat]
           /\ resting \in BOOLEAN
           /\ r.queue \in [AV -> Seq(Entry)] /\ r.queue[Audio] \in Seq(Entry) /\ r.queue[Video] \in Seq(Entry)
           /\ r.paused \in BOOLEAN /\ r.sync \in BOOLEAN
  BY TypesOfState DEF Working

LEMMA StillBalance ==
    ASSUME NEW h \in Nat, NEW q \in Nat, NEW e \in Nat, NEW e2 \in Nat, NEW o \in Nat, NEW v \in Nat,
           NEW m \in Nat, NEW w \in Nat, NEW n \in Nat,
           h + q + e + o + v = n, e2 + m + w = e
    PROVE  h + q + e2 + (o + m) + (v + w) = n
  OBVIOUS

LEMMA Balance ==
    ASSUME NEW h \in Nat, NEW q \in Nat, NEW e \in Nat, NEW e2 \in Nat, NEW o \in Nat, NEW v \in Nat,
           NEW m \in Nat, NEW w \in Nat, NEW t \in Nat, NEW n \in Nat,
           h + (t + q) + e + o + v = n, e2 + m + w = e + t
    PROVE  h + q + e2 + (o + m) + (v + w) = n
  OBVIOUS

Taken(what, u) == IF Head(mainQ).what = what /\ Head(mainQ).trk = u THEN 1 ELSE 0

(* The renderer takes a call off the queue and becomes k.                        *)
LEMMA TakingKeeps ==
    ASSUME Working, mainQ # <<>>, Head(mainQ) \in Call,
           NEW k, Running(k), k.failed = "none",
           NEW mainPart \in Seq(Note), NEW videoPart \in Seq({Consumed(Video)}),
           Becomes(k, Tail(mainQ), mainPart, videoPart),
           \A u \in AV : Buffers(k.queue[u]) + HowMany(mainPart, "OutputBufferDrained", u)
                                             + HowMany(videoPart, "OutputBufferDrained", u)
                             = Buffers(r.queue[u]) + Taken("QueueBuffer", u),
           \A u \in AV : u \in k.flushing <=> u \in r.flushing /\ Taken("Flush", u) = 0,
           k.paused => (r.paused /\ Head(mainQ).what # "Resume") \/ Head(mainQ).what = "Pause",
           k.queue[Audio] # <<>> =>
               \/ r.queue[Audio] # <<>> /\ Taken("Flush", Audio) = 0
               \/ Taken("QueueBuffer", Audio) = 1 \/ Taken("QueueEOS", Audio) = 1,
           HasEnd(k.queue[Audio]) =>
               \/ HasEnd(r.queue[Audio]) /\ Taken("Flush", Audio) = 0
               \/ Taken("QueueEOS", Audio) = 1
    PROVE  Working'
<1>1. /\ r' = k /\ mainQ' = Tail(mainQ) \o mainPart /\ ended' = ended /\ resting' = resting /\ hand' = hand
  BY DEF Becomes
<1>2. /\ mainQ \in Seq(MainMessage) /\ mainQ \in Seq(AnyMessage) /\ Tail(mainQ) \in Seq(MainMessage)
      /\ hand \in [AV -> Nat] /\ resting \in BOOLEAN /\ r.paused \in BOOLEAN
      /\ r.queue \in [AV -> Seq(Entry)] /\ r.queue[Audio] \in Seq(Entry)
  BY TypesOfParts, HeadTailProperties
<1>3. k \in Renderer /\ Sound(k)
  BY DEF Running, Sound
<1>4. /\ k.paused \in BOOLEAN /\ k.queue \in [AV -> Seq(Entry)] /\ k.queue[Audio] \in Seq(Entry)
  BY <1>3, RendererFields, TwoTracks
<1>5. Typed
  BY DEF Working, Steady
<1> DEFINE QB(q, u) == HowMany(q, "QueueBuffer", u)
           OBD(q, u) == HowMany(q, "OutputBufferDrained", u)
<1>6. /\ Typed'
      /\ \A u \in AV :
           /\ QB(mainQ', u) = QB(Tail(mainQ), u)
           /\ HowMany(mainQ', "Flush", u) = HowMany(Tail(mainQ), "Flush", u)
           /\ OBD(mainQ', u) = OBD(Tail(mainQ), u) + OBD(mainPart, u)
           /\ OBD(videoQ', u) = OBD(videoQ, u) + OBD(videoPart, u)
           /\ QB(Tail(mainQ), u) \in Nat /\ HowMany(Tail(mainQ), "Flush", u) \in Nat
           /\ OBD(Tail(mainQ), u) \in Nat /\ OBD(mainPart, u) \in Nat
           /\ OBD(videoQ, u) \in Nat /\ OBD(videoPart, u) \in Nat
  <2> DEFINE rest == Tail(mainQ)
  <2>1. rest \in Seq(MainMessage) /\ Becomes(k, rest, mainPart, videoPart)
    BY <1>2
  <2> HIDE DEF rest
  <2>2. /\ Typed'
        /\ \A u \in AV :
             /\ QB(mainQ', u) = QB(rest, u)
             /\ HowMany(mainQ', "Flush", u) = HowMany(rest, "Flush", u)
             /\ OBD(mainQ', u) = OBD(rest, u) + OBD(mainPart, u)
             /\ OBD(videoQ', u) = OBD(videoQ, u) + OBD(videoPart, u)
             /\ QB(rest, u) \in Nat /\ HowMany(rest, "Flush", u) \in Nat
             /\ OBD(rest, u) \in Nat /\ OBD(mainPart, u) \in Nat
             /\ OBD(videoQ, u) \in Nat /\ OBD(videoPart, u) \in Nat
    BY ZenonT(60), <1>3, <1>5, <2>1, PostsBack
  <2> QED
    BY <2>2 DEF rest
<1>7. \A u \in AV : /\ QB(mainQ, u) = Taken("QueueBuffer", u) + QB(Tail(mainQ), u)
                     /\ HowMany(mainQ, "Flush", u) = Taken("Flush", u) + HowMany(Tail(mainQ), "Flush", u)
                     /\ OBD(mainQ, u) = OBD(Tail(mainQ), u)
  <2>1. Head(mainQ).what # "OutputBufferDrained"
    BY DEF Call
  <2>2. \A what, u : HowMany(mainQ, what, u) = Taken(what, u) + HowMany(Tail(mainQ), what, u)
    BY <1>2, HowManyHead DEF Taken
  <2>3. \A u : Taken("OutputBufferDrained", u) = 0
    BY <2>1 DEF Taken
  <2> QED
    BY <1>6, <2>2, <2>3
<1>8. \A what, u : Taken(what, u) \in {0, 1}
  BY DEF Taken
<1>9. BufferInOneHand'
  <2> SUFFICES ASSUME NEW u \in AV
               PROVE  hand[u] + QB(mainQ', u) + Buffers(k.queue[u]) + OBD(mainQ', u) + OBD(videoQ', u) = NumBuffers
    BY <1>1 DEF BufferInOneHand
  <2>1. hand[u] + QB(mainQ, u) + Buffers(r.queue[u]) + OBD(mainQ, u) + OBD(videoQ, u) = NumBuffers
    BY DEF Working, Steady, BufferInOneHand
  <2>2. hand[u] \in Nat /\ Buffers(r.queue[u]) \in Nat /\ Buffers(k.queue[u]) \in Nat
    BY <1>2, <1>4, BuffersType
  <2>3. Buffers(k.queue[u]) + OBD(mainPart, u) + OBD(videoPart, u) = Buffers(r.queue[u]) + Taken("QueueBuffer", u)
    OBVIOUS
  <2> DEFINE h == hand[u]            n == NumBuffers
             q == QB(mainQ, u)       q1 == QB(Tail(mainQ), u)   q2 == QB(mainQ', u)
             e == Buffers(r.queue[u]) e2 == Buffers(k.queue[u])
             o == OBD(mainQ, u)      o1 == OBD(Tail(mainQ), u)  o2 == OBD(mainQ', u)
             v == OBD(videoQ, u)     v2 == OBD(videoQ', u)
             m == OBD(mainPart, u)   w == OBD(videoPart, u)     t == Taken("QueueBuffer", u)
  <2>4. /\ q2 = q1 /\ q1 \in Nat /\ o2 = o1 + m /\ v2 = v + w
        /\ o1 \in Nat /\ m \in Nat /\ v \in Nat /\ w \in Nat
    BY <1>6
  <2>5. q = t + q1 /\ o = o1 /\ t \in Nat
    BY <1>7, <1>8
  <2>6. h \in Nat /\ e \in Nat /\ e2 \in Nat /\ n \in Nat
    BY <2>2, RendererAssumption
  <2>7. h + q + e + o + v = n /\ e2 + m + w = e + t
    BY <2>1, <2>3
  <2> HIDE DEF h, n, q, q1, q2, e, e2, o, o1, o2, v, v2, m, w, t
  <2>8. h + (t + q1) + e + o1 + v = n
    BY <2>5, <2>7
  <2>9. h + q1 + e2 + (o1 + m) + (v + w) = n
    BY <2>4, <2>5, <2>6, <2>7, <2>8, Balance
  <2>10. h + q2 + e2 + o2 + v2 = n
    BY <2>4, <2>9
  <2> QED
    BY <2>10 DEF h, n, q2, e2, o2, v2
<1>10. OneFlush'
  <2> SUFFICES ASSUME NEW u \in AV
               PROVE  HowMany(mainQ', "Flush", u) = IF u \in k.flushing THEN 1 ELSE 0
    BY <1>1 DEF OneFlush
  <2>1. HowMany(mainQ, "Flush", u) = IF u \in r.flushing THEN 1 ELSE 0
    BY DEF Working, Steady, OneFlush
  <2> QED
    BY <1>6, <1>7, <1>8, <2>1
<1>11. /\ Pauses(Tail(mainQ), k.paused, resting) /\ Sinks(Tail(mainQ), k.queue[Audio])
       /\ Ends(Tail(mainQ), k.queue[Audio], ended)
  <2>1. Pauses(mainQ, r.paused, resting) /\ Sinks(mainQ, r.queue[Audio]) /\ Ends(mainQ, r.queue[Audio], ended)
    BY DEF Working, Steady
  <2>2. k.queue[Audio] # <<>> =>
           \/ r.queue[Audio] # <<>> /\ ~(Head(mainQ).what = "Flush" /\ Head(mainQ).trk = Audio)
           \/ Head(mainQ).what \in {"QueueBuffer", "QueueEOS"} /\ Head(mainQ).trk = Audio
    BY DEF Taken
  <2>3. HasEnd(k.queue[Audio]) =>
           \/ HasEnd(r.queue[Audio]) /\ ~(Head(mainQ).what = "Flush" /\ Head(mainQ).trk = Audio)
           \/ Head(mainQ).what = "QueueEOS" /\ Head(mainQ).trk = Audio
    BY DEF Taken
  <2> QED
    BY <1>2, <1>4, <2>1, <2>2, <2>3, TakingSettles
<1>12. /\ Pauses(mainQ', k.paused, resting) /\ Sinks(mainQ', k.queue[Audio])
       /\ Ends(mainQ', k.queue[Audio], ended)
  BY <1>1, <1>2, <1>4, <1>11, NotesSettle
<1> QED
  BY <1>1, <1>6, <1>9, <1>10, <1>12 DEF Working, Steady

(* A timer of the renderer fires, and it becomes k.                              *)
LEMMA FiringKeeps ==
    ASSUME Working,
           NEW k, Running(k), k.failed = "none",
           NEW mainPart \in Seq(Note), NEW videoPart \in Seq({Consumed(Video)}),
           Becomes(k, mainQ, mainPart, videoPart),
           \A u \in AV : Buffers(k.queue[u]) + HowMany(mainPart, "OutputBufferDrained", u)
                                             + HowMany(videoPart, "OutputBufferDrained", u)
                             = Buffers(r.queue[u]),
           k.flushing = r.flushing, k.paused = r.paused,
           k.queue[Audio] # <<>> => r.queue[Audio] # <<>>,
           HasEnd(k.queue[Audio]) => HasEnd(r.queue[Audio])
    PROVE  Working'
<1>1. /\ r' = k /\ mainQ' = mainQ \o mainPart /\ ended' = ended /\ resting' = resting /\ hand' = hand
  BY DEF Becomes
<1>2. /\ mainQ \in Seq(MainMessage)
      /\ hand \in [AV -> Nat] /\ resting \in BOOLEAN /\ r.paused \in BOOLEAN
      /\ r.queue \in [AV -> Seq(Entry)] /\ r.queue[Audio] \in Seq(Entry)
  BY TypesOfParts
<1>3. k \in Renderer /\ Sound(k)
  BY DEF Running, Sound
<1>4. /\ k.queue \in [AV -> Seq(Entry)] /\ k.queue[Audio] \in Seq(Entry)
  BY <1>3, RendererFields, TwoTracks
<1>5. Typed
  BY DEF Working, Steady
<1> DEFINE QB(q, u) == HowMany(q, "QueueBuffer", u)
           OBD(q, u) == HowMany(q, "OutputBufferDrained", u)
<1>6. /\ Typed'
      /\ \A u \in AV :
           /\ QB(mainQ', u) = QB(mainQ, u)
           /\ HowMany(mainQ', "Flush", u) = HowMany(mainQ, "Flush", u)
           /\ OBD(mainQ', u) = OBD(mainQ, u) + OBD(mainPart, u)
           /\ OBD(videoQ', u) = OBD(videoQ, u) + OBD(videoPart, u)
           /\ QB(mainQ, u) \in Nat /\ OBD(mainQ, u) \in Nat /\ OBD(mainPart, u) \in Nat
           /\ OBD(videoQ, u) \in Nat /\ OBD(videoPart, u) \in Nat
  BY <1>2, <1>3, <1>5, PostsBack
<1>7. BufferInOneHand'
  <2> SUFFICES ASSUME NEW u \in AV
               PROVE  hand[u] + QB(mainQ', u) + Buffers(k.queue[u]) + OBD(mainQ', u) + OBD(videoQ', u) = NumBuffers
    BY <1>1 DEF BufferInOneHand
  <2>1. hand[u] + QB(mainQ, u) + Buffers(r.queue[u]) + OBD(mainQ, u) + OBD(videoQ, u) = NumBuffers
    BY DEF Working, Steady, BufferInOneHand
  <2>2. hand[u] \in Nat /\ Buffers(r.queue[u]) \in Nat /\ Buffers(k.queue[u]) \in Nat
    BY <1>2, <1>4, BuffersType
  <2>3. Buffers(k.queue[u]) + OBD(mainPart, u) + OBD(videoPart, u) = Buffers(r.queue[u])
    OBVIOUS
  <2> DEFINE h == hand[u]            n == NumBuffers
             q == QB(mainQ, u)       q2 == QB(mainQ', u)
             e == Buffers(r.queue[u]) e2 == Buffers(k.queue[u])
             o == OBD(mainQ, u)      o2 == OBD(mainQ', u)
             v == OBD(videoQ, u)     v2 == OBD(videoQ', u)
             m == OBD(mainPart, u)   w == OBD(videoPart, u)
  <2>4. /\ q2 = q /\ q \in Nat /\ o2 = o + m /\ v2 = v + w
        /\ o \in Nat /\ m \in Nat /\ v \in Nat /\ w \in Nat
    BY <1>6
  <2>5. h \in Nat /\ e \in Nat /\ e2 \in Nat /\ n \in Nat
    BY <2>2, RendererAssumption
  <2>6. h + q + e + o + v = n /\ e2 + m + w = e
    BY <2>1, <2>3
  <2> HIDE DEF h, n, q, q2, e, e2, o, o2, v, v2, m, w
  <2>8. h + q + e2 + (o + m) + (v + w) = n
    BY SMTT(60), <2>4, <2>5, <2>6, StillBalance
  <2>9. h + q2 + e2 + o2 + v2 = n
    BY <2>4, <2>8
  <2> QED
    BY <2>9 DEF h, n, q2, e2, o2, v2
<1>8. OneFlush'
  BY <1>1, <1>6 DEF OneFlush, Working, Steady
<1>9. /\ Pauses(mainQ, k.paused, resting) /\ Sinks(mainQ, k.queue[Audio])
      /\ Ends(mainQ, k.queue[Audio], ended)
  BY <1>2, <1>4, DrainingSettles DEF Working, Steady
<1>10. /\ Pauses(mainQ', k.paused, resting) /\ Sinks(mainQ', k.queue[Audio])
       /\ Ends(mainQ', k.queue[Audio], ended)
  BY <1>1, <1>2, <1>4, <1>9, NotesSettle
<1> QED
  BY <1>1, <1>6, <1>7, <1>8, <1>10 DEF Working, Steady

(* The buffers of track u among the entries q of track t.                        *)
Owed(q, t, u) == IF u = t THEN Buffers(q) ELSE 0

(* What is posted gives back the buffers among q, of track t.                     *)
Answers(mainPart, videoPart, t, q) ==
    \A u \in AV : \A b \in Nat :
        b + HowMany(mainPart, "OutputBufferDrained", u) + HowMany(videoPart, "OutputBufferDrained", u)
        = b + Owed(q, t, u)

LEMMA GivesPosts ==
    ASSUME NEW k, NEW rest, NEW t \in AV, NEW q \in Seq(Entry), Gives(k, rest, t, q)
    PROVE  \E mainPart \in Seq(Note), videoPart \in Seq({Consumed(Video)}) :
              Becomes(k, rest, mainPart, videoPart) /\ Answers(mainPart, videoPart, t, q)
<1>1. Buffers(q) \in Nat
  BY BuffersType
<1>2. "OutputBufferDrained" \in Whats
  BY DEF Whats
<1>3. <<>> \in Seq(Note) /\ <<>> \in Seq({Consumed(Video)})
  BY EmptySeq
<1>4. \A u : HowMany(<<>>, "OutputBufferDrained", u) = 0
  BY HowManyEmpty
<1>5. CASE t = Audio
  <2>1. Replies(t, q) \in Seq(Note)
    BY ZenonT(60), <1>5, RepliesCount, MessagesAreMessages, SeqMonotonic
  <2>2. Becomes(k, rest, Replies(t, q), <<>>)
    BY <1>5, TwoTracks DEF Gives
  <2>3. \A u \in AV : HowMany(Replies(t, q), "OutputBufferDrained", u) = IF u = t THEN Buffers(q) ELSE 0
    <3>1. \A what \in Whats, u \in AV :
            HowMany(Replies(t, q), what, u) =
                IF what = "OutputBufferDrained" /\ u = t THEN Buffers(q) ELSE 0
      BY RepliesCount
    <3> QED
      BY <1>2, <3>1
  <2>4. Answers(Replies(t, q), <<>>, t, q)
    BY <1>1, <1>4, <2>3 DEF Answers, Owed
  <2> QED
    BY <1>3, <2>1, <2>2, <2>4
<1>6. CASE t = Video
  <2>1. Replies(t, q) \in Seq({Consumed(Video)})
    BY <1>6, RepliesCount
  <2>2. Becomes(k, rest, <<>>, Replies(t, q))
    BY <1>6, TwoTracks DEF Gives
  <2>3. \A u \in AV : HowMany(Replies(t, q), "OutputBufferDrained", u) = IF u = t THEN Buffers(q) ELSE 0
    <3>1. \A what \in Whats, u \in AV :
            HowMany(Replies(t, q), what, u) =
                IF what = "OutputBufferDrained" /\ u = t THEN Buffers(q) ELSE 0
      BY RepliesCount
    <3> QED
      BY <1>2, <3>1
  <2>4. Answers(<<>>, Replies(t, q), t, q)
    BY <1>1, <1>4, <2>3 DEF Answers, Owed
  <2> QED
    BY <1>3, <2>1, <2>2, <2>4
<1> QED
  BY <1>5, <1>6, TwoTracks

-----------------------------------------------------------------------------
(*                              The messages                                *)

LEMMA DueIsCall ==
    ASSUME Working, NEW what, Due("renderer", what)
    PROVE  /\ mainQ # <<>> /\ Head(mainQ) \in Call /\ Head(mainQ).what = what
           /\ Tail(mainQ) \in Seq(MainMessage)
           /\ what \in {"QueueBuffer", "QueueEOS", "Flush"} => Head(mainQ).trk \in AV
           /\ what = "QueueEOS" => Head(mainQ).arg = "eos"
<1>1. mainQ # <<>> /\ Head(mainQ).to = "renderer" /\ Head(mainQ).what = what
  BY DEF Due
<1>2. Head(mainQ) \in MainMessage /\ Tail(mainQ) \in Seq(MainMessage)
  BY <1>1, TypesOfParts, HeadTailProperties
<1>3. Head(mainQ) \in Call
  BY <1>1, <1>2, MessagesAreMessages DEF MainMessage
<1> QED
  BY <1>1, <1>2, <1>3 DEF Call

LEMMA EndsOfParts ==
    ASSUME NEW q \in Seq(Entry)
    PROVE  /\ ~HasEnd(<<>>)
           /\ \A e \in Entry : /\ Append(q, e) # <<>>
                                /\ HasEnd(Append(q, e)) => HasEnd(q) \/ e # "buffer"
           /\ q # <<>> => (HasEnd(Tail(q)) => HasEnd(q))
           /\ \A n \in 0 .. Len(q) : /\ HasEnd(SubSeq(q, n + 1, Len(q))) => HasEnd(q)
                                     /\ SubSeq(q, n + 1, Len(q)) # <<>> => q # <<>>
<1>1. ~HasEnd(<<>>)
  BY DEF HasEnd
<1>2. ASSUME NEW e \in Entry
      PROVE  Append(q, e) # <<>> /\ (HasEnd(Append(q, e)) => HasEnd(q) \/ e # "buffer")
  BY AppendProperties, LenProperties DEF HasEnd
<1>3. ASSUME q # <<>>, HasEnd(Tail(q)) PROVE HasEnd(q)
  <2>1. PICK i \in 1 .. Len(Tail(q)) : Tail(q)[i] # "buffer"
    BY <1>3 DEF HasEnd
  <2>2. i + 1 \in 1 .. Len(q) /\ q[i + 1] # "buffer"
    BY <1>3, <2>1, HeadTailProperties, LenProperties
  <2> QED
    BY <2>2 DEF HasEnd
<1>4. ASSUME NEW n \in 0 .. Len(q)
      PROVE  /\ HasEnd(SubSeq(q, n + 1, Len(q))) => HasEnd(q)
             /\ SubSeq(q, n + 1, Len(q)) # <<>> => q # <<>>
  <2> DEFINE u == SubSeq(q, n + 1, Len(q))
  <2>1. /\ Len(q) \in Nat /\ Len(u) = Len(q) - n /\ u \in Seq(Entry)
        /\ \A i \in 1 .. Len(u) : u[i] = q[n + i]
    BY LenProperties, SubSeqProperties
  <2> HIDE DEF u
  <2>2. ASSUME HasEnd(u) PROVE HasEnd(q)
    <3>1. PICK i \in 1 .. Len(u) : u[i] # "buffer"
      BY <2>2 DEF HasEnd
    <3>2. n + i \in 1 .. Len(q)
      BY <2>1
    <3> QED
      BY <2>1, <3>1, <3>2 DEF HasEnd
  <2>3. q = <<>> => u = <<>>
    BY <2>1, EmptySeq
  <2> QED
    BY <2>2, <2>3 DEF u
<1> QED
  BY <1>1, <1>2, <1>3, <1>4

(* An entry more at the end of a queue.                                        *)
Queued(k, t, e) == [k EXCEPT !.queue[t] = Append(@, e)]

LEMMA EntryQueued ==
    ASSUME NEW k, Sound(k), NEW t \in AV, NEW e \in Entry, t = Video /\ e = "buffer" => Video \in k.has
    PROVE  /\ Sound(Queued(k, t, e)) /\ Queued(k, t, e).queue = [k.queue EXCEPT ![t] = Append(@, e)]
           /\ Queued(k, t, e).flushing = k.flushing /\ Queued(k, t, e).has = k.has
           /\ Queued(k, t, e).paused = k.paused /\ Queued(k, t, e).failed = k.failed
           /\ Queued(k, t, e).sync = k.sync
           /\ \A u \in AV : u # t /\ Driven(k, u) => Driven(Queued(k, t, e), u)
<1> DEFINE n == Queued(k, t, e)
           queue == [k.queue EXCEPT ![t] = Append(@, e)]
<1> SUFFICES /\ Sound(n) /\ n.queue = queue
             /\ n.flushing = k.flushing /\ n.has = k.has /\ n.paused = k.paused /\ n.failed = k.failed
             /\ n.sync = k.sync
             /\ \A u \in AV : u # t /\ Driven(k, u) => Driven(n, u)
  OBVIOUS
<1>1. k \in Renderer /\ Drawn(k) /\ Timed(k) /\ k.queue \in [AV -> Seq(Entry)]
  BY RendererFields DEF Sound
<1>2. n = [k EXCEPT !.queue = queue]
  BY <1>1 DEF Renderer, Queued
<1>3. queue \in [AV -> Seq(Entry)] /\ queue[t] = Append(k.queue[t], e)
      /\ \A u \in AV : u # t => queue[u] = k.queue[u]
  BY <1>1, AppendProperties
<1> HIDE DEF n, queue
<1>4. /\ n \in Renderer /\ n.queue = queue /\ n.pending = k.pending /\ n.posted = k.posted
      /\ n.flushing = k.flushing /\ n.has = k.has /\ n.paused = k.paused /\ n.failed = k.failed
      /\ n.sync = k.sync /\ n.anchor = k.anchor /\ n.wasPaused = k.wasPaused
      /\ n.mute = k.mute
  BY <1>1, <1>2, <1>3 DEF Renderer
<1>5. Append(k.queue[t], e) # <<>>
  BY <1>1, EndsOfParts
<1>6. Drawn(n)
  BY <1>1, <1>3, <1>4, <1>5 DEF Drawn
<1>7. Timed(n)
  <2>1. CASE t # Video
    <3>1. n.queue[Video] = k.queue[Video]
      BY <1>3, <1>4, <2>1, TwoTracks
    <3> QED
      BY <1>1, <1>4, <3>1 DEF Timed
  <2>2. CASE t = Video
    <3> DEFINE q == k.queue[Video]
    <3>1. q \in Seq(Entry) /\ n.queue[Video] = Append(q, e) /\ Len(q) \in Nat
      BY <1>1, <1>3, <1>4, <2>2, LenProperties
    <3>2. /\ Len(Append(q, e)) = Len(q) + 1 /\ Append(q, e)[Len(q) + 1] = e
          /\ \A i \in 1 .. Len(q) : Append(q, e)[i] = q[i]
      BY <3>1, AppendProperties
    <3>3. ASSUME NEW i \in 1 .. Len(Append(q, e)), Append(q, e)[i] = "buffer", Video \notin k.flushing
          PROVE  Video \in k.has
      <4>1. CASE i = Len(q) + 1
        BY <2>2, <3>2, <3>3, <4>1
      <4>2. CASE i # Len(q) + 1
        <5>1. i \in 1 .. Len(q) /\ q[i] = "buffer"
          BY <3>1, <3>2, <3>3, <4>2
        <5> QED
          BY <1>1, <3>3, <5>1 DEF Timed
      <4> QED
        BY <4>1, <4>2
    <3>4. Video \in k.pending => Head(Append(q, e)) = Head(q)
      <4>1. ASSUME Video \in k.pending PROVE Head(Append(q, e)) = Head(q)
        <5>1. q # <<>>
          BY <1>1, <4>1, TwoTracks DEF Drawn
        <5>2. 1 \in 1 .. Len(q)
          BY <3>1, <5>1, EmptySeq
        <5>3. Head(q) = q[1] /\ Head(Append(q, e)) = Append(q, e)[1]
          BY <3>1, <5>1, <1>5, <2>2, HeadTailProperties, AppendProperties
        <5> QED
          BY <3>2, <5>2, <5>3
      <4> QED
        BY <4>1
    <3> HIDE DEF q
    <3>5. Video \notin k.flushing /\ Video \in k.pending /\ Head(q) = "buffer" /\ Audio \notin k.has
            => k.anchor # "old"
      BY <1>1 DEF Timed, q
    <3> QED
      BY <1>1, <1>4, <3>1, <3>3, <3>4, <3>5 DEF Timed
  <2> QED
    BY <2>1, <2>2
<1>8. \A u \in AV : u # t /\ Driven(k, u) => Driven(n, u)
  BY <1>3, <1>4 DEF Driven
<1> QED
  BY <1>4, <1>6, <1>7, <1>8 DEF Sound

(* And a drain for it.                                                         *)
LEMMA QueuedAndDriven ==
    ASSUME NEW k, Running(k), NEW t \in AV, NEW e \in Entry, t = Video /\ e = "buffer" => Video \in k.has,
           NEW p, p = PostDrain(Queued(k, t, e), t)
    PROVE  /\ Running(p) /\ p.queue = [k.queue EXCEPT ![t] = Append(@, e)]
           /\ p.flushing = k.flushing /\ p.paused = k.paused /\ p.failed = k.failed /\ p.sync = k.sync
<1> DEFINE n == Queued(k, t, e)
<1>1. /\ Sound(n) /\ n.queue = [k.queue EXCEPT ![t] = Append(@, e)]
      /\ n.flushing = k.flushing /\ n.paused = k.paused /\ n.failed = k.failed /\ n.sync = k.sync
      /\ \A u \in AV : u # t => Driven(n, u)
  BY EntryQueued DEF Running
<1>0. p = PostDrain(n, t)
  OBVIOUS
<1> HIDE DEF n
<1>2. Sound(p) /\ Posts(n, p) /\ p.sync = n.sync /\ Driven(p, t)
  BY <1>0, <1>1, PostDrainKeeps
<1> QED
  BY <1>1, <1>2 DEF Running, Posts

(* A track more that the renderer knows of.                                     *)
Knowing(k, t) == [k EXCEPT !.has = @ \cup {t}]

LEMMA TrackKnown ==
    ASSUME NEW k, Running(k), NEW t \in AV
    PROVE  /\ Running(Knowing(k, t)) /\ Knowing(k, t).queue = k.queue
           /\ Knowing(k, t).flushing = k.flushing /\ Knowing(k, t).has = k.has \cup {t}
           /\ Knowing(k, t).paused = k.paused /\ Knowing(k, t).failed = k.failed
           /\ Knowing(k, t).sync = k.sync
<1> DEFINE has == k.has \cup {t}
           n == Knowing(k, t)
<1>1. k \in Renderer /\ Drawn(k) /\ Timed(k) /\ has \in SUBSET AV /\ \A u \in AV : Driven(k, u)
  BY RendererFields DEF Sound, Running
<1>2. n = [k EXCEPT !.has = has]
  BY <1>1 DEF Renderer, Knowing
<1> HIDE DEF n
<1>3. k.has \subseteq has
  OBVIOUS
<1> HIDE DEF has
<1>4. /\ n \in Renderer /\ n.queue = k.queue /\ n.pending = k.pending /\ n.posted = k.posted
      /\ n.flushing = k.flushing /\ n.has = has /\ n.paused = k.paused /\ n.failed = k.failed
      /\ n.sync = k.sync /\ n.anchor = k.anchor /\ n.wasPaused = k.wasPaused
      /\ n.mute = k.mute
  BY <1>1, <1>2 DEF Renderer
<1>5. Drawn(n) /\ Timed(n) /\ \A u \in AV : Driven(n, u)
  BY <1>1, <1>3, <1>4 DEF Drawn, Timed, Driven
<1> QED
  BY <1>4, <1>5 DEF Sound, Running, n, has

(* TakingKeeps, for a renderer that replies to the buffers among q.                *)
LEMMA GivingKeeps ==
    ASSUME Working, mainQ # <<>>, Head(mainQ) \in Call,
           NEW k, Running(k), k.failed = "none",
           NEW t \in AV, NEW q \in Seq(Entry), Gives(k, Tail(mainQ), t, q),
           \A u \in AV : Buffers(k.queue[u]) + Owed(q, t, u)
                             = Buffers(r.queue[u]) + Taken("QueueBuffer", u),
           \A u \in AV : u \in k.flushing <=> u \in r.flushing /\ Taken("Flush", u) = 0,
           k.paused => (r.paused /\ Head(mainQ).what # "Resume") \/ Head(mainQ).what = "Pause",
           k.queue[Audio] # <<>> =>
               \/ r.queue[Audio] # <<>> /\ Taken("Flush", Audio) = 0
               \/ Taken("QueueBuffer", Audio) = 1 \/ Taken("QueueEOS", Audio) = 1,
           HasEnd(k.queue[Audio]) =>
               \/ HasEnd(r.queue[Audio]) /\ Taken("Flush", Audio) = 0
               \/ Taken("QueueEOS", Audio) = 1
    PROVE  Working'
<1>1. PICK mainPart \in Seq(Note), videoPart \in Seq({Consumed(Video)}) :
        Becomes(k, Tail(mainQ), mainPart, videoPart) /\ Answers(mainPart, videoPart, t, q)
  BY GivesPosts
<1>2. \A u \in AV : Buffers(k.queue[u]) \in Nat
  BY RendererFields, BuffersType DEF Running, Sound
<1>3. \A u \in AV : Buffers(k.queue[u]) + HowMany(mainPart, "OutputBufferDrained", u)
                                        + HowMany(videoPart, "OutputBufferDrained", u)
                        = Buffers(r.queue[u]) + Taken("QueueBuffer", u)
  BY <1>1, <1>2 DEF Answers
<1> QED
  BY <1>1, <1>3, TakingKeeps

LEMMA OnQueueBufferKeeps == Working /\ OnQueueBuffer => Working'
<1> SUFFICES ASSUME Working, OnQueueBuffer PROVE Working'
  OBVIOUS
<1> DEFINE t == Head(mainQ).trk
           known == Knowing(r, t)
           queued == Queued(known, t, "buffer")
           k == PostDrain(queued, t)
           rest == Tail(mainQ)
<1>1. /\ mainQ # <<>> /\ Head(mainQ) \in Call /\ Head(mainQ).what = "QueueBuffer" /\ t \in AV
      /\ \/ t \in r.flushing /\ Gives(known, rest, t, <<"buffer">>)
         \/ t \notin r.flushing /\ InSync(k) /\ Gives(k, rest, t, <<>>)
         \/ t \notin r.flushing /\ ~InSync(k) /\ Gives(SyncQueuesDone(k), rest, t, <<>>)
         \/ /\ t \notin r.flushing /\ ~InSync(k) /\ Mismatch(k)
            /\ Gives([k EXCEPT !.queue[Audio] = Tail(@)], rest, Audio, <<"buffer">>)
  BY DueIsCall DEF OnQueueBuffer, Knowing, Queued
<1>2. /\ Taken("QueueBuffer", t) = 1 /\ \A u : u # t => Taken("QueueBuffer", u) = 0
      /\ \A u : Taken("Flush", u) = 0 /\ Taken("QueueEOS", u) = 0
      /\ Audio \in AV /\ Video \in AV
  <2>1. \A u : Taken("Flush", u) = 0 /\ Taken("QueueEOS", u) = 0
    BY <1>1 DEF Taken
  <2>2. Taken("QueueBuffer", t) = 1 /\ \A u : u # t => Taken("QueueBuffer", u) = 0
    BY <1>1 DEF Taken
  <2> QED
    BY <2>1, <2>2, TwoTracks
<1>3. /\ Running(r) /\ r.failed = "none" /\ r.queue \in [AV -> Seq(Entry)]
  BY TypesOfParts DEF Running
<1>4. /\ Running(known) /\ known.queue = r.queue /\ known.flushing = r.flushing
      /\ known.has = r.has \cup {t} /\ known.paused = r.paused /\ known.failed = "none"
      /\ known.sync = r.sync
  BY <1>1, <1>3, TrackKnown
<1>5. "buffer" \in Entry /\ \A u \in AV : Buffers(r.queue[u]) \in Nat
  BY <1>3, BuffersType DEF Entry
<1> HIDE DEF known
<1>6. /\ Running(k) /\ k.queue = [r.queue EXCEPT ![t] = Append(@, "buffer")]
      /\ k.flushing = r.flushing /\ k.paused = r.paused /\ k.failed = "none" /\ k.sync = r.sync
  <2>1. t = Video => Video \in known.has
    BY <1>4
  <2>2. t \in AV /\ "buffer" \in Entry /\ Running(known)
    BY <1>1, <1>4, <1>5
  <2>5. k = PostDrain(Queued(known, t, "buffer"), t)
    OBVIOUS
  <2> HIDE DEF k, queued, t
  <2>3. /\ Running(k) /\ k.queue = [known.queue EXCEPT ![t] = Append(@, "buffer")]
        /\ k.flushing = known.flushing /\ k.paused = known.paused
        /\ k.failed = known.failed /\ k.sync = known.sync
    BY <2>1, <2>2, <2>5, QueuedAndDriven
  <2>4. [known.queue EXCEPT ![t] = Append(@, "buffer")] = [r.queue EXCEPT ![t] = Append(@, "buffer")]
    BY <1>4
  <2> QED
    BY ZenonT(60), <1>4, <2>3, <2>4
<1> HIDE DEF queued, k
<1>7. /\ Buffers(k.queue[t]) = Buffers(r.queue[t]) + 1
      /\ \A u \in AV : /\ u # t => Buffers(k.queue[u]) = Buffers(r.queue[u])
                        /\ Buffers(k.queue[u]) \in Nat
      /\ k.queue \in [AV -> Seq(Entry)]
  <2>1. k.queue \in [AV -> Seq(Entry)]
    BY <1>6, RendererFields DEF Running, Sound
  <2>2. k.queue[t] = Append(r.queue[t], "buffer") /\ \A u \in AV : u # t => k.queue[u] = r.queue[u]
    BY <1>1, <1>3, <1>6
  <2>3. Buffers(k.queue[t]) = Buffers(r.queue[t]) + 1
    <3>1. r.queue[t] \in Seq(Entry)
      BY <1>1, <1>3
    <3>2. Buffers(Append(r.queue[t], "buffer")) = Buffers(r.queue[t]) + (IF "buffer" = "buffer" THEN 1 ELSE 0)
      BY <1>5, <3>1, BuffersAppend
    <3> QED
      BY <2>2, <3>2
  <2>4. \A u \in AV : Buffers(k.queue[u]) \in Nat
    BY <2>1, BuffersType
  <2> QED
    BY <2>1, <2>2, <2>3, <2>4
<1>8. HasEnd(k.queue[Audio]) => HasEnd(r.queue[Audio])
  <2>1. CASE t = Audio
    <3>1. k.queue[Audio] = Append(r.queue[Audio], "buffer") /\ r.queue[Audio] \in Seq(Entry)
      BY <1>2, <1>3, <1>6, <2>1
    <3>2. \A e \in Entry : HasEnd(Append(r.queue[Audio], e)) => HasEnd(r.queue[Audio]) \/ e # "buffer"
      BY <3>1, EndsOfParts
    <3> QED
      BY <1>5, <3>1, <3>2
  <2>2. CASE t # Audio
    <3>1. k.queue[Audio] = r.queue[Audio]
      BY <1>2, <1>3, <1>6, <2>2
    <3> QED
      BY <3>1
  <2> QED
    BY <2>1, <2>2
<1>9. k.queue[Audio] # <<>> => r.queue[Audio] # <<>> \/ t = Audio
  BY <1>2, <1>3, <1>6
<1>10. /\ \A v, u : Owed(<<>>, v, u) = 0
       /\ \A v : Owed(<<"buffer">>, v, v) = 1 /\ \A u : u # v => Owed(<<"buffer">>, v, u) = 0
       /\ <<>> \in Seq(Entry) /\ <<"buffer">> \in Seq(Entry)
  BY BuffersOfFew DEF Owed
<1>11. ASSUME NEW u \in AV
       PROVE  /\ Buffers(k.queue[u]) = Buffers(r.queue[u]) + Taken("QueueBuffer", u)
              /\ Buffers(k.queue[u]) + 0 = Buffers(k.queue[u])
  <2>1. CASE u = t
    BY <1>2, <1>5, <1>7, <2>1
  <2>2. CASE u # t
    BY <1>2, <1>5, <1>7, <2>2
  <2> QED
    BY <2>1, <2>2
<1>12. CASE t \in r.flushing /\ Gives(known, rest, t, <<"buffer">>)
  <2>1. \A u \in AV : Buffers(known.queue[u]) + Owed(<<"buffer">>, t, u)
                         = Buffers(r.queue[u]) + Taken("QueueBuffer", u)
    BY <1>2, <1>4, <1>10
  <2> QED
    BY ZenonT(60), <1>1, <1>2, <1>4, <1>10, <1>12, <2>1, GivingKeeps
<1>13. CASE Gives(k, rest, t, <<>>)
  <2>1. \A u \in AV : Buffers(k.queue[u]) + Owed(<<>>, t, u)
                         = Buffers(r.queue[u]) + Taken("QueueBuffer", u)
    BY <1>10, <1>11
  <2> QED
    <3>1. /\ \A u \in AV : u \in k.flushing <=> u \in r.flushing /\ Taken("Flush", u) = 0
          /\ k.paused => (r.paused /\ Head(mainQ).what # "Resume") \/ Head(mainQ).what = "Pause"
      BY <1>1, <1>2, <1>6
    <3>2. k.queue[Audio] # <<>> =>
               \/ r.queue[Audio] # <<>> /\ Taken("Flush", Audio) = 0
               \/ Taken("QueueBuffer", Audio) = 1 \/ Taken("QueueEOS", Audio) = 1
      BY <1>2, <1>9
    <3>3. HasEnd(k.queue[Audio]) =>
               \/ HasEnd(r.queue[Audio]) /\ Taken("Flush", Audio) = 0
               \/ Taken("QueueEOS", Audio) = 1
      BY <1>2, <1>8
    <3>4. /\ mainQ # <<>> /\ Head(mainQ) \in Call /\ Running(k) /\ k.failed = "none" /\ t \in AV
          /\ <<>> \in Seq(Entry) /\ Gives(k, Tail(mainQ), t, <<>>)
      BY <1>1, <1>6, <1>10, <1>13
    <3> HIDE DEF t
    <3> QED
      BY ZenonT(60), <2>1, <3>1, <3>2, <3>3, <3>4, GivingKeeps
<1>14. CASE Gives(SyncQueuesDone(k), rest, t, <<>>)
  <2> DEFINE d == SyncQueuesDone(k)
  <2>1. /\ Running(d) /\ d.queue = k.queue /\ d.flushing = r.flushing /\ d.paused = r.paused
        /\ d.failed = "none"
    BY <1>6, SyncQueuesDoneKeeps DEF Running, Posts
  <2> HIDE DEF d
  <2>2. \A u \in AV : Buffers(d.queue[u]) + Owed(<<>>, t, u)
                         = Buffers(r.queue[u]) + Taken("QueueBuffer", u)
    BY <1>10, <1>11, <2>1
  <2>3. Gives(d, rest, t, <<>>)
    BY <1>14 DEF d
  <2> QED
    BY ZenonT(60), <1>1, <1>2, <1>8, <1>9, <1>10, <2>1, <2>2, <2>3, GivingKeeps
<1>15. CASE /\ ~InSync(k) /\ Mismatch(k)
            /\ Gives([k EXCEPT !.queue[Audio] = Tail(@)], rest, Audio, <<"buffer">>)
  <2> DEFINE queue == [k.queue EXCEPT ![Audio] = Tail(@)]
             d == [k EXCEPT !.queue[Audio] = Tail(@)]
  <2>1. k.sync /\ k.queue[Audio] # <<>> /\ Head(k.queue[Audio]) = "buffer"
    BY <1>15 DEF InSync, Mismatch
  <2>2. k \in Renderer /\ Drawn(k) /\ Timed(k) /\ \A u \in AV : Driven(k, u)
    BY <1>6 DEF Running, Sound
  <2>3. d = [k EXCEPT !.queue = queue]
    BY <2>2 DEF Renderer
  <2>4. /\ queue \in [AV -> Seq(Entry)] /\ queue[Audio] = Tail(k.queue[Audio])
        /\ queue[Video] = k.queue[Video] /\ \A u \in AV : u # Audio => queue[u] = k.queue[u]
    BY <1>2, <1>7, <2>1, TwoTracks, HeadTailProperties
  <2>5. Gives(d, rest, Audio, <<"buffer">>)
    BY <1>15
  <2> HIDE DEF d, queue
  <2>6. /\ d \in Renderer /\ d.queue = queue /\ d.pending = k.pending /\ d.posted = k.posted
        /\ d.flushing = k.flushing /\ d.has = k.has /\ d.paused = k.paused /\ d.failed = k.failed
        /\ d.sync = k.sync /\ d.anchor = k.anchor /\ d.wasPaused = k.wasPaused
        /\ d.mute = k.mute
    BY <2>2, <2>3, <2>4 DEF Renderer
  <2>7. k.pending = {}
    BY <2>1, <2>2 DEF Drawn
  <2>8. Drawn(d) /\ Timed(d) /\ \A u \in AV : Driven(d, u)
    BY <2>1, <2>2, <2>4, <2>6, <2>7 DEF Drawn, Timed, Driven
  <2>9. Running(d)
    BY <2>6, <2>8 DEF Running, Sound
  <2>10. Buffers(k.queue[Audio]) = 1 + Buffers(queue[Audio]) /\ Buffers(queue[Audio]) \in Nat
    BY <1>2, <1>7, <2>1, <2>4, BuffersHead
  <2>11. \A u \in AV : Buffers(d.queue[u]) + Owed(<<"buffer">>, Audio, u)
                         = Buffers(r.queue[u]) + Taken("QueueBuffer", u)
    <3>1. \A u \in AV : Buffers(d.queue[u]) + Owed(<<"buffer">>, Audio, u) = Buffers(k.queue[u])
      <4>1. ASSUME NEW u \in AV PROVE Buffers(d.queue[u]) + Owed(<<"buffer">>, Audio, u) = Buffers(k.queue[u])
        <5>1. CASE u = Audio
          <6>1. Owed(<<"buffer">>, Audio, u) = 1
            BY <1>10, <5>1, Zenon
          <6>2. d.queue[u] = queue[Audio]
            BY <2>6, <5>1
          <6> QED
            BY <2>10, <5>1, <6>1, <6>2
        <5>2. CASE u # Audio
          <6>1. Owed(<<"buffer">>, Audio, u) = 0
            BY <1>10, <5>2, Zenon
          <6>2. d.queue[u] = k.queue[u]
            BY <2>4, <2>6, <5>2
          <6> QED
            BY <1>11, <6>1, <6>2
        <5> QED
          BY <5>1, <5>2
      <4> QED
        BY <4>1
    <3> QED
      BY <1>11, <3>1
  <2>12. HasEnd(d.queue[Audio]) => HasEnd(r.queue[Audio])
    <3>1. HasEnd(Tail(k.queue[Audio])) => HasEnd(k.queue[Audio])
      BY <1>2, <1>7, <2>1, EndsOfParts
    <3> QED
      BY <1>8, <2>4, <2>6, <3>1
  <2>13. d.queue[Audio] # <<>> => r.queue[Audio] # <<>> \/ t = Audio
    BY <1>9, <2>1
  <2> QED
    <3>1. /\ \A u \in AV : u \in d.flushing <=> u \in r.flushing /\ Taken("Flush", u) = 0
          /\ d.paused => (r.paused /\ Head(mainQ).what # "Resume")
          /\ d.queue[Audio] # <<>> =>
               (r.queue[Audio] # <<>> /\ Taken("Flush", Audio) = 0) \/ Taken("QueueBuffer", Audio) = 1
          /\ HasEnd(d.queue[Audio]) => HasEnd(r.queue[Audio]) /\ Taken("Flush", Audio) = 0
      BY <1>1, <1>2, <1>6, <2>6, <2>12, <2>13
    <3>2. d.failed = "none"
      BY <1>6, <2>6
    <3> HIDE DEF t
    <3> QED
      BY <1>1, <1>2, <1>10, <2>5, <2>9, <2>11, <3>1, <3>2, GivingKeeps
<1> QED
  BY <1>1, <1>12, <1>13, <1>14, <1>15

LEMMA OnQueueEOSKeeps == Working /\ OnQueueEOS => Working'
<1> SUFFICES ASSUME Working, OnQueueEOS PROVE Working'
  OBVIOUS
<1> DEFINE t == Head(mainQ).trk
           queued == Queued(r, t, "eos")
           k == PostDrain(queued, t)
           rest == Tail(mainQ)
<1>1. /\ mainQ # <<>> /\ Head(mainQ) \in Call /\ Head(mainQ).what = "QueueEOS" /\ t \in AV
      /\ \/ t \in r.flushing /\ Gives(r, rest, t, <<>>)
         \/ t \notin r.flushing /\ Gives(k, rest, t, <<>>)
  BY DueIsCall DEF OnQueueEOS, Queued
<1>2. /\ Taken("QueueEOS", t) = 1
      /\ \A u : Taken("Flush", u) = 0 /\ Taken("QueueBuffer", u) = 0
      /\ Audio \in AV /\ Video \in AV
  <2>1. \A u : Taken("Flush", u) = 0 /\ Taken("QueueBuffer", u) = 0
    BY <1>1 DEF Taken
  <2>2. Taken("QueueEOS", t) = 1
    BY <1>1 DEF Taken
  <2> QED
    BY <2>1, <2>2, TwoTracks
<1>3. /\ Running(r) /\ r.failed = "none" /\ r.queue \in [AV -> Seq(Entry)]
  BY TypesOfParts DEF Running
<1>4. "eos" \in Entry /\ \A u \in AV : Buffers(r.queue[u]) \in Nat /\ Buffers(r.queue[u]) + 0 = Buffers(r.queue[u])
  BY <1>3, BuffersType DEF Entry
<1>5. <<>> \in Seq(Entry) /\ \A v, u : Owed(<<>>, v, u) = 0
  BY BuffersOfFew DEF Owed
<1>6. /\ Running(k) /\ k.queue = [r.queue EXCEPT ![t] = Append(@, "eos")]
      /\ k.flushing = r.flushing /\ k.paused = r.paused /\ k.failed = "none"
  <2>1. k = PostDrain(Queued(r, t, "eos"), t) /\ t \in AV
    BY <1>1
  <2>2. /\ Running(r) /\ "eos" \in Entry
        /\ t = Video /\ "eos" = "buffer" => Video \in r.has
    BY <1>3, <1>4
  <2> HIDE DEF k, queued, t
  <2>3. /\ Running(k) /\ k.queue = [r.queue EXCEPT ![t] = Append(@, "eos")]
        /\ k.flushing = r.flushing /\ k.paused = r.paused /\ k.failed = r.failed
    BY <2>1, <2>2, QueuedAndDriven
  <2> QED
    BY <1>3, <2>3
<1> HIDE DEF queued, k
<1>7. CASE Gives(r, rest, t, <<>>)
  <2>1. \A u \in AV : Buffers(r.queue[u]) + Owed(<<>>, t, u) = Buffers(r.queue[u]) + Taken("QueueBuffer", u)
    BY <1>2, <1>4, <1>5
  <2>2. /\ \A u \in AV : u \in r.flushing <=> u \in r.flushing /\ Taken("Flush", u) = 0
        /\ r.paused => (r.paused /\ Head(mainQ).what # "Resume")
        /\ Taken("Flush", Audio) = 0
    BY <1>1, <1>2
  <2> HIDE DEF t
  <2> QED
    BY <1>1, <1>3, <1>5, <1>7, <2>1, <2>2, GivingKeeps
<1>8. CASE Gives(k, rest, t, <<>>)
  <2>1. k.queue[t] = Append(r.queue[t], "eos") /\ \A u \in AV : u # t => k.queue[u] = r.queue[u]
    BY <1>1, <1>3, <1>6
  <2>2. Buffers(k.queue[t]) = Buffers(r.queue[t])
    <3>1. r.queue[t] \in Seq(Entry)
      BY <1>1, <1>3
    <3>2. Buffers(Append(r.queue[t], "eos")) = Buffers(r.queue[t]) + (IF "eos" = "buffer" THEN 1 ELSE 0)
      BY <1>4, <3>1, BuffersAppend
    <3> QED
      BY <1>1, <1>4, <2>1, <3>2
  <2>3. \A u \in AV : Buffers(k.queue[u]) + Owed(<<>>, t, u) = Buffers(r.queue[u]) + Taken("QueueBuffer", u)
    <3>1. \A u \in AV : Buffers(k.queue[u]) = Buffers(r.queue[u])
      BY <2>1, <2>2
    <3> QED
      BY <1>2, <1>4, <1>5, <3>1
  <2>4. /\ \A u \in AV : u \in k.flushing <=> u \in r.flushing /\ Taken("Flush", u) = 0
        /\ k.paused => (r.paused /\ Head(mainQ).what # "Resume")
        /\ k.queue[Audio] # <<>> =>
             (r.queue[Audio] # <<>> /\ Taken("Flush", Audio) = 0) \/ Taken("QueueEOS", Audio) = 1
        /\ HasEnd(k.queue[Audio]) =>
             (HasEnd(r.queue[Audio]) /\ Taken("Flush", Audio) = 0) \/ Taken("QueueEOS", Audio) = 1
    BY <1>1, <1>2, <1>6, <2>1
  <2> HIDE DEF t
  <2> QED
    BY ZenonT(60), <1>1, <1>5, <1>6, <1>8, <2>3, <2>4, GivingKeeps
<1> QED
  BY <1>1, <1>7, <1>8

(* GivingKeeps, for a renderer that leaves its queues alone.                      *)
LEMMA HearingKeeps ==
    ASSUME Working, mainQ # <<>>, Head(mainQ) \in Call,
           Head(mainQ).what \in {"Pause", "Resume", "AudioSinkChanged"},
           NEW k, Running(k), k.failed = "none", Gives(k, Tail(mainQ), Audio, <<>>),
           k.queue = r.queue, k.flushing = r.flushing,
           k.paused => (r.paused /\ Head(mainQ).what # "Resume") \/ Head(mainQ).what = "Pause"
    PROVE  Working'
<1>1. \A u : Taken("Flush", u) = 0 /\ Taken("QueueBuffer", u) = 0
  BY DEF Taken
<1>2. <<>> \in Seq(Entry) /\ \A v, u : Owed(<<>>, v, u) = 0
  BY BuffersOfFew DEF Owed
<1>3. \A u \in AV : Buffers(k.queue[u]) + Owed(<<>>, Audio, u) = Buffers(r.queue[u]) + Taken("QueueBuffer", u)
  BY <1>1, <1>2
<1>4. Audio \in AV
  BY TwoTracks
<1>5. \A u \in AV : u \in k.flushing <=> u \in r.flushing /\ Taken("Flush", u) = 0
  BY <1>1
<1> QED
  BY <1>1, <1>2, <1>3, <1>4, <1>5, GivingKeeps

LEMMA NewGenerationDoes ==
    ASSUME NEW k \in Renderer, NEW t \in AV
    PROVE  /\ NewGeneration(k, t) \in Renderer
           /\ NewGeneration(k, t).pending = k.pending \ {t}
           /\ NewGeneration(k, t).posted = [k.posted EXCEPT ![t] = 0]
           /\ NewGeneration(k, t).queue = k.queue
           /\ NewGeneration(k, t).flushing = k.flushing /\ NewGeneration(k, t).has = k.has
           /\ NewGeneration(k, t).sync = k.sync /\ NewGeneration(k, t).paused = k.paused
           /\ NewGeneration(k, t).failed = k.failed
           /\ NewGeneration(k, t).anchor = k.anchor /\ NewGeneration(k, t).wasPaused = k.wasPaused
           /\ NewGeneration(k, t).mute = (k.mute /\ t # Audio)
<1> DEFINE g == NewGeneration(k, t)
           pending == k.pending \ {t}
           posted == [k.posted EXCEPT ![t] = 0]
           stale == [k.stale EXCEPT ![t] = @ + k.posted[t]]
           mute == k.mute /\ t # Audio
<1>1. pending \in SUBSET AV /\ posted \in [AV -> Nat] /\ stale \in [AV -> Nat] /\ mute \in BOOLEAN
  BY RendererFields
<1>2. g = [k EXCEPT !.pending = pending, !.stale = stale, !.posted = posted, !.mute = mute]
  BY DEF NewGeneration, Renderer
<1> HIDE DEF g, pending, posted, stale, mute
<1>3. /\ g \in Renderer /\ g.pending = pending /\ g.posted = posted /\ g.queue = k.queue
      /\ g.flushing = k.flushing /\ g.has = k.has /\ g.sync = k.sync /\ g.paused = k.paused
      /\ g.failed = k.failed /\ g.anchor = k.anchor /\ g.wasPaused = k.wasPaused
      /\ g.mute = mute
  BY <1>1, <1>2 DEF Renderer
<1> QED
  BY <1>3 DEF g, pending, posted, mute

LEMMA OnPauseKeeps == Working /\ OnPause => Working'
<1> SUFFICES ASSUME Working, OnPause PROVE Working'
  OBVIOUS
<1> DEFINE a == NewGeneration(r, Audio)
           b == NewGeneration(a, Video)
           k == [b EXCEPT !.paused = TRUE, !.wasPaused = TRUE, !.anchor = IF @ = "new" THEN "old" ELSE @]
<1>1. /\ mainQ # <<>> /\ Head(mainQ) \in Call /\ Head(mainQ).what = "Pause"
      /\ Gives(IF r.paused THEN [r EXCEPT !.failed = "onPause"] ELSE k, Tail(mainQ), Audio, <<>>)
  BY DueIsCall DEF OnPause
<1>2. /\ Sound(r) /\ r \in Renderer /\ Drawn(r) /\ Timed(r) /\ r.failed = "none"
      /\ r.paused \in BOOLEAN /\ mainQ \in Seq(AnyMessage) /\ r.queue \in [AV -> Seq(Entry)]
  BY TypesOfParts DEF Sound
<1>3. ~r.paused
  <2>1. SettledAtAll(mainQ, r.paused, Saying({"Pause"}), Saying({"Resume"}), Saying({"Pause"}))
    BY DEF Working, Steady, Pauses
  <2>2. Head(mainQ) \in Saying({"Pause"})
    BY <1>1 DEF Saying, Call
  <2> QED
    BY <1>1, <1>2, <2>1, <2>2, SettledAtHead
<1>4. /\ a \in Renderer /\ a.pending = r.pending \ {Audio} /\ a.posted = [r.posted EXCEPT ![Audio] = 0]
      /\ a.queue = r.queue /\ a.flushing = r.flushing /\ a.has = r.has /\ a.sync = r.sync
      /\ a.failed = "none" /\ a.anchor = r.anchor
  BY <1>2, TwoTracks, NewGenerationDoes
<1> HIDE DEF a
<1>5. /\ b \in Renderer /\ b.pending = a.pending \ {Video} /\ b.posted = [a.posted EXCEPT ![Video] = 0]
      /\ b.queue = r.queue /\ b.flushing = r.flushing /\ b.has = r.has /\ b.sync = r.sync
      /\ b.failed = "none" /\ b.anchor = r.anchor
  BY <1>4, TwoTracks, NewGenerationDoes
<1> HIDE DEF b
<1>6. b.pending = {} /\ \A t \in AV : b.posted[t] = 0
  <2>1. r.pending \in SUBSET AV /\ r.posted \in [AV -> Nat]
    BY <1>2, RendererFields
  <2> QED
    BY <1>4, <1>5, <2>1, TwoTracks
<1>7. /\ k \in Renderer /\ k.pending = b.pending /\ k.posted = b.posted /\ k.queue = r.queue
      /\ k.flushing = r.flushing /\ k.has = r.has /\ k.failed = "none"
      /\ k.paused = TRUE /\ k.wasPaused = TRUE
  BY <1>5 DEF Renderer
<1>8. Gives(k, Tail(mainQ), Audio, <<>>)
  BY <1>1, <1>3
<1> HIDE DEF k
<1>9. Drawn(k) /\ Timed(k) /\ \A t \in AV : Driven(k, t)
  <2>1. Drawn(k)
    BY <1>6, <1>7 DEF Drawn
  <2>2. Timed(k)
    BY <1>2, <1>6, <1>7 DEF Timed
  <2> QED
    BY <1>7, <2>1, <2>2 DEF Driven
<1>10. Running(k)
  BY <1>7, <1>9 DEF Running, Sound
<1> QED
  BY <1>1, <1>7, <1>8, <1>10, HearingKeeps

LEMMA OnResumeKeeps == Working /\ OnResume => Working'
<1> SUFFICES ASSUME Working, OnResume PROVE Working'
  OBVIOUS
<1> DEFINE e == [r EXCEPT !.paused = FALSE]
           k == PostDrain(PostDrain(e, Audio), Video)
<1>1. /\ mainQ # <<>> /\ Head(mainQ) \in Call /\ Head(mainQ).what = "Resume"
      /\ Gives(IF r.paused THEN k ELSE r, Tail(mainQ), Audio, <<>>)
  BY DueIsCall DEF OnResume
<1>2. /\ Running(r) /\ r \in Renderer /\ Drawn(r) /\ Timed(r) /\ r.failed = "none"
  BY TypesOfParts DEF Sound, Running
<1>3. CASE ~r.paused
  <2>1. Gives(r, Tail(mainQ), Audio, <<>>)
    BY <1>1, <1>3
  <2> QED
    BY <1>1, <1>2, <1>3, <2>1, HearingKeeps
<1>4. CASE r.paused
  <2>1. Gives(k, Tail(mainQ), Audio, <<>>)
    BY <1>1, <1>4
  <2>2. /\ e \in Renderer /\ e.pending = r.pending /\ e.posted = r.posted /\ e.queue = r.queue
        /\ e.flushing = r.flushing /\ e.has = r.has /\ e.failed = "none" /\ e.sync = r.sync
        /\ e.anchor = r.anchor /\ e.wasPaused = r.wasPaused /\ ~e.paused
    BY <1>2 DEF Renderer
  <2> HIDE DEF e
  <2>3. Sound(e)
    BY <1>2, <2>2 DEF Sound, Drawn, Timed
  <2>4. Sound(k) /\ Posts(e, k) /\ \A t \in AV : Driven(k, t)
    BY <2>3, BothPosted
  <2> HIDE DEF k
  <2>5. Running(k) /\ k.queue = r.queue /\ k.flushing = r.flushing /\ k.failed = "none" /\ ~k.paused
    BY <2>2, <2>4 DEF Posts, Running
  <2> QED
    BY <1>1, <2>1, <2>5, HearingKeeps
<1> QED
  BY <1>3, <1>4

LEMMA OnAudioSinkChangedKeeps == Working /\ OnAudioSinkChanged => Working'
<1> SUFFICES ASSUME Working, OnAudioSinkChanged PROVE Working'
  OBVIOUS
<1>1. /\ mainQ # <<>> /\ Head(mainQ) \in Call /\ Head(mainQ).what = "AudioSinkChanged"
      /\ Gives(IF Audio \in r.pending THEN [r EXCEPT !.failed = "onAudioSinkChanged"] ELSE r,
               Tail(mainQ), Audio, <<>>)
  BY DueIsCall DEF OnAudioSinkChanged
<1>2. Running(r) /\ Drawn(r) /\ r.failed = "none" /\ mainQ \in Seq(AnyMessage)
  BY TypesOfParts DEF Sound, Running
<1>3. r.queue[Audio] = <<>>
  <2> DEFINE b == r.queue[Audio] # <<>>
             X == OfAudio({"QueueBuffer", "QueueEOS"})
             Z == OfAudio({"Flush"})
             Y == Saying({"AudioSinkChanged"})
  <2>1. SettledAtAll(mainQ, b, X, Z, Y) /\ b \in BOOLEAN
    BY DEF Working, Steady, Sinks
  <2>2. Head(mainQ) \in Y
    BY <1>1 DEF Saying, Call
  <2>3. ~b
    <3> HIDE DEF b, X, Y, Z
    <3> QED
      BY <1>1, <1>2, <2>1, <2>2, SettledAtHead
  <2> QED
    BY <2>3
<1>4. Audio \notin r.pending
  BY <1>2, <1>3, TwoTracks DEF Drawn
<1>5. Gives(r, Tail(mainQ), Audio, <<>>)
  BY <1>1, <1>4
<1> QED
  BY <1>1, <1>2, <1>5, HearingKeeps

LEMMA OnFlushKeeps == Working /\ OnFlush => Working'
<1> SUFFICES ASSUME Working, OnFlush PROVE Working'
  OBVIOUS
<1> DEFINE t == Head(mainQ).trk
           s == SyncQueuesDone(r)
           e == [s EXCEPT !.queue[t] = <<>>, !.flushing = @ \ {t}, !.begun = @ /\ t # Audio]
           k == NewGeneration(e, t)
           rest == Tail(mainQ)
<1>1. /\ mainQ # <<>> /\ Head(mainQ) \in Call /\ Head(mainQ).what = "Flush" /\ t \in AV
      /\ Gives(k, rest, t, r.queue[t])
  BY DueIsCall DEF OnFlush
<1>2. /\ Running(r) /\ Sound(r) /\ r.failed = "none" /\ r.queue \in [AV -> Seq(Entry)]
  BY TypesOfParts DEF Running
<1>3. /\ Taken("Flush", t) = 1 /\ \A u : u # t => Taken("Flush", u) = 0
      /\ \A u : Taken("QueueBuffer", u) = 0
      /\ Audio \in AV /\ Video \in AV
  BY <1>1, TwoTracks DEF Taken
<1>4. /\ Sound(s) /\ ~s.sync /\ s.queue = r.queue /\ s.flushing = r.flushing /\ s.paused = r.paused
      /\ s.failed = "none" /\ \A u \in AV : Driven(s, u)
  BY <1>2, SyncQueuesDoneKeeps DEF Posts, Running
<1> HIDE DEF s
<1>5. s \in Renderer /\ Drawn(s) /\ Timed(s) /\ s.begun \in BOOLEAN /\ s.flushing \in SUBSET AV
  BY <1>4, RendererFields DEF Sound
<1> DEFINE queue == [s.queue EXCEPT ![t] = <<>>]
           flushing == s.flushing \ {t}
           begun == s.begun /\ t # Audio
<1>6. e = [s EXCEPT !.queue = queue, !.flushing = flushing, !.begun = begun]
  BY <1>5 DEF Renderer
<1>7. /\ queue \in [AV -> Seq(Entry)] /\ flushing \in SUBSET AV /\ begun \in BOOLEAN
      /\ queue[t] = <<>> /\ \A u \in AV : u # t => queue[u] = r.queue[u]
  BY <1>1, <1>2, <1>4, <1>5, EmptySeq
<1> HIDE DEF e, queue, begun
<1> HIDE DEF flushing
<1>8. /\ e \in Renderer /\ e.queue = queue /\ e.flushing = flushing /\ e.pending = s.pending
      /\ e.posted = s.posted /\ e.has = s.has /\ e.sync = s.sync /\ e.paused = s.paused
      /\ e.failed = s.failed /\ e.anchor = s.anchor /\ e.wasPaused = s.wasPaused
      /\ e.mute = s.mute
  BY <1>5, <1>6, <1>7 DEF Renderer
<1>9. /\ k \in Renderer /\ k.pending = s.pending \ {t} /\ k.posted = [s.posted EXCEPT ![t] = 0]
      /\ k.queue = queue /\ k.flushing = flushing /\ k.has = s.has /\ k.sync = s.sync
      /\ k.paused = s.paused /\ k.failed = s.failed /\ k.anchor = s.anchor
      /\ k.wasPaused = s.wasPaused /\ k.mute = (s.mute /\ t # Audio)
  <2> HIDE DEF t
  <2>1. /\ k \in Renderer /\ k.pending = e.pending \ {t} /\ k.posted = [e.posted EXCEPT ![t] = 0]
        /\ k.queue = e.queue /\ k.flushing = e.flushing /\ k.has = e.has /\ k.sync = e.sync
        /\ k.paused = e.paused /\ k.failed = e.failed /\ k.anchor = e.anchor
        /\ k.wasPaused = e.wasPaused /\ k.mute = (e.mute /\ t # Audio)
    BY <1>1, <1>8, NewGenerationDoes
  <2> QED
    BY <1>8, <2>1
<1> HIDE DEF k
<1>10. s.pending \in SUBSET AV /\ s.posted \in [AV -> Nat]
  BY <1>5, RendererFields
<1>11. Drawn(k)
  <2>1. \A u \in AV : /\ s.posted[u] = IF u \in s.pending THEN 1 ELSE 0
                      /\ u \in s.pending => s.queue[u] # <<>>
    BY <1>5 DEF Drawn
  <2>2. ASSUME NEW u \in AV
        PROVE  /\ k.posted[u] = IF u \in k.pending THEN 1 ELSE 0
               /\ u \in k.pending => k.queue[u] # <<>>
    <3>1. /\ s.posted[u] = IF u \in s.pending THEN 1 ELSE 0
          /\ u \in s.pending => s.queue[u] # <<>>
      BY <2>1
    <3>2. CASE u = t
      <4>1. k.posted[u] = 0 /\ u \notin k.pending
        BY <1>9, <1>10, <3>2
      <4> QED
        BY <4>1
    <3>3. CASE u # t
      <4>1. k.posted[u] = s.posted[u]
        BY <1>9, <1>10, <3>3
      <4>2. u \in k.pending <=> u \in s.pending
        BY <1>9, <3>3
      <4>3. k.queue[u] = s.queue[u]
        BY <1>4, <1>7, <1>9, <3>3
      <4> QED
        BY <3>1, <4>1, <4>2, <4>3
    <3> QED
      BY <3>2, <3>3
  <2> QED
    BY <1>4, <1>9, <2>2 DEF Drawn
<1>12. Timed(k)
  <2>1. CASE t = Video
    <3>1. Len(k.queue[Video]) = 0 /\ Video \notin k.pending
      BY <1>7, <1>9, <2>1, EmptySeq
    <3>2. k.anchor = "old" => k.wasPaused
      BY <1>5, <1>9 DEF Timed
    <3> QED
      BY <3>1, <3>2 DEF Timed
  <2>2. CASE t # Video
    <3>1. k.queue[Video] = s.queue[Video] /\ (Video \in k.pending <=> Video \in s.pending)
      BY <1>3, <1>4, <1>7, <1>9, <2>2
    <3>2. Video \in k.flushing <=> Video \in s.flushing
      BY <1>9, <2>2 DEF flushing
    <3> QED
      BY <1>5, <1>9, <3>1, <3>2 DEF Timed
  <2> QED
    BY <2>1, <2>2
<1>13. ASSUME NEW u \in AV PROVE Driven(k, u)
  <2>1. CASE u = t
    BY <1>7, <1>9, <2>1 DEF Driven
  <2>2. CASE u # t
    <3>1. /\ k.queue[u] = s.queue[u] /\ (u \in k.pending <=> u \in s.pending)
          /\ k.paused = s.paused /\ k.sync = s.sync /\ Driven(s, u)
      <4>1. k.queue[u] = s.queue[u]
        BY <1>4, <1>7, <1>9, <2>2
      <4>2. u \in k.pending <=> u \in s.pending
        BY <1>9, <2>2
      <4>3. k.paused = s.paused /\ k.sync = s.sync
        BY <1>9
      <4> QED
        BY <1>4, <4>1, <4>2, <4>3
    <3>2. u = Audio => (k.mute <=> s.mute)
      BY <1>9, <2>2, Zenon
    <3> QED
      BY <3>1, <3>2 DEF Driven
  <2> QED
    BY <2>1, <2>2
<1>14. Running(k) /\ k.failed = "none"
  BY <1>4, <1>9, <1>11, <1>12, <1>13 DEF Running, Sound
<1>15. \A u \in AV : Buffers(r.queue[u]) \in Nat
  BY <1>2, BuffersType
<1>16. Buffers(<<>>) = 0 /\ r.queue[t] \in Seq(Entry)
  BY <1>1, <1>2, BuffersOfFew
<1>17. ASSUME NEW u \in AV
       PROVE  Buffers(k.queue[u]) + Owed(r.queue[t], t, u) = Buffers(r.queue[u]) + Taken("QueueBuffer", u)
  <2>1. CASE u = t
    <3>1. Buffers(k.queue[u]) = 0 /\ Owed(r.queue[t], t, u) = Buffers(r.queue[u])
      BY <1>7, <1>9, <1>16, <2>1 DEF Owed
    <3> QED
      BY <1>3, <1>15, <3>1
  <2>2. CASE u # t
    <3>1. Buffers(k.queue[u]) = Buffers(r.queue[u]) /\ Owed(r.queue[t], t, u) = 0
      BY <1>7, <1>9, <2>2 DEF Owed
    <3> QED
      BY <1>3, <1>15, <3>1
  <2> QED
    BY <2>1, <2>2
<1>18. \A u \in AV : u \in k.flushing <=> u \in r.flushing /\ Taken("Flush", u) = 0
  BY <1>3, <1>4, <1>9 DEF flushing
<1>19. /\ k.queue[Audio] # <<>> => r.queue[Audio] # <<>> /\ Taken("Flush", Audio) = 0
       /\ HasEnd(k.queue[Audio]) => HasEnd(r.queue[Audio]) /\ Taken("Flush", Audio) = 0
  <2>1. CASE t = Audio
    <3>1. k.queue[Audio] = <<>> /\ ~HasEnd(<<>>)
      BY <1>7, <1>9, <1>16, <2>1, EndsOfParts
    <3> QED
      BY <3>1
  <2>2. CASE t # Audio
    <3>1. k.queue[Audio] = r.queue[Audio] /\ Taken("Flush", Audio) = 0
      BY <1>3, <1>7, <1>9, <2>2
    <3> QED
      BY <3>1
  <2> QED
    BY <2>1, <2>2
<1>20. k.paused => r.paused /\ Head(mainQ).what # "Resume"
  BY <1>1, <1>4, <1>9
<1> HIDE DEF t
<1> QED
  BY <1>1, <1>14, <1>16, <1>17, <1>18, <1>19, <1>20, GivingKeeps

(* A timer of the renderer fires, and it replies to the buffers among q.           *)
LEMMA FiringGivesKeeps ==
    ASSUME Working,
           NEW k, Running(k), k.failed = "none",
           NEW t \in AV, NEW q \in Seq(Entry), Gives(k, mainQ, t, q),
           \A u \in AV : Buffers(k.queue[u]) + Owed(q, t, u) = Buffers(r.queue[u]),
           k.flushing = r.flushing, k.paused = r.paused,
           k.queue[Audio] # <<>> => r.queue[Audio] # <<>>,
           HasEnd(k.queue[Audio]) => HasEnd(r.queue[Audio])
    PROVE  Working'
<1>1. PICK mainPart \in Seq(Note), videoPart \in Seq({Consumed(Video)}) :
        Becomes(k, mainQ, mainPart, videoPart) /\ Answers(mainPart, videoPart, t, q)
  BY GivesPosts
<1>2. \A u \in AV : Buffers(k.queue[u]) \in Nat
  BY RendererFields, BuffersType DEF Running, Sound
<1>3. \A u \in AV : Buffers(k.queue[u]) + HowMany(mainPart, "OutputBufferDrained", u)
                                        + HowMany(videoPart, "OutputBufferDrained", u)
                        = Buffers(r.queue[u])
  BY <1>1, <1>2 DEF Answers
<1> QED
  BY <1>1, <1>3, FiringKeeps

LEMMA StaleDrainKeeps ==
    ASSUME NEW t \in AV
    PROVE  Working /\ StaleDrain(t) => Working' /\ r'.queue = r.queue
<1> SUFFICES ASSUME Working, StaleDrain(t) PROVE Working' /\ r'.queue = r.queue
  OBVIOUS
<1> DEFINE k == [r EXCEPT !.stale[t] = @ - 1]
           stale == [r.stale EXCEPT ![t] = @ - 1]
<1>1. r.stale[t] > 0 /\ Gives(k, mainQ, t, <<>>)
  BY DEF StaleDrain
<1>2. /\ r \in Renderer /\ Drawn(r) /\ Timed(r) /\ r.failed = "none" /\ \A u \in AV : Driven(r, u)
  BY TypesOfParts DEF Sound
<1>3. k = [r EXCEPT !.stale = stale] /\ stale \in [AV -> Nat]
  BY <1>1, <1>2 DEF Renderer
<1> HIDE DEF k, stale
<1>4. /\ k \in Renderer /\ k.pending = r.pending /\ k.posted = r.posted /\ k.queue = r.queue
      /\ k.flushing = r.flushing /\ k.has = r.has /\ k.failed = "none" /\ k.sync = r.sync
      /\ k.paused = r.paused /\ k.anchor = r.anchor /\ k.wasPaused = r.wasPaused
      /\ k.mute = r.mute
  BY <1>2, <1>3 DEF Renderer
<1>5. Drawn(k) /\ Timed(k) /\ \A u \in AV : Driven(k, u)
  BY <1>2, <1>4 DEF Drawn, Timed, Driven
<1>6. Running(k)
  BY <1>4, <1>5 DEF Running, Sound
<1>7. <<>> \in Seq(Entry) /\ \A u : Owed(<<>>, t, u) = 0
  BY BuffersOfFew DEF Owed
<1>8. \A u \in AV : Buffers(r.queue[u]) \in Nat
  BY TypesOfParts, BuffersType
<1>9. \A u \in AV : Buffers(k.queue[u]) + Owed(<<>>, t, u) = Buffers(r.queue[u])
  BY <1>4, <1>7, <1>8
<1>10. r' = k
  BY <1>1 DEF Gives, Becomes
<1> QED
  BY <1>1, <1>4, <1>6, <1>7, <1>9, <1>10, FiringGivesKeeps

(* A reply, or a report, is taken off the queue.                                 *)
LEMMA MainHeardKeeps == Steady /\ MainHeard => Steady' /\ r' = r
<1> SUFFICES ASSUME Steady, MainHeard PROVE Steady' /\ r' = r
  OBVIOUS
<1>1. /\ mainQ # <<>> /\ Head(mainQ).to # "renderer" /\ mainQ' = Tail(mainQ)
      /\ hand' = IF Head(mainQ).to = "codec" THEN [hand EXCEPT ![Audio] = @ + 1] ELSE hand
      /\ videoQ' = videoQ /\ r' = r /\ ended' = ended /\ resting' = resting /\ left' = left
  BY DEF MainHeard
<1>2. /\ mainQ \in Seq(MainMessage) /\ mainQ \in Seq(AnyMessage) /\ hand \in [AV -> Nat]
      /\ videoQ \in Seq(AnyMessage) /\ r.queue \in [AV -> Seq(Entry)] /\ r.queue[Audio] \in Seq(Entry)
      /\ r.paused \in BOOLEAN /\ resting \in BOOLEAN
  BY TypesOfState
<1>3. Head(mainQ) \in MainMessage /\ Tail(mainQ) \in Seq(MainMessage)
  BY <1>1, <1>2, HeadTailProperties
<1>4. Head(mainQ) \in Note
  BY <1>1, <1>3 DEF MainMessage, Call
<1>5. Head(mainQ).what \in {"OutputBufferDrained", "RendererEOS"}
  BY <1>4, MessagesAreMessages
<1>6. /\ Head(mainQ).to = "codec" => Head(mainQ).what = "OutputBufferDrained" /\ Head(mainQ).trk = Audio
      /\ Head(mainQ).to # "codec" => Head(mainQ).what = "RendererEOS"
  BY <1>4 DEF Note, Consumed, Msg
<1>7. /\ \A u \in AV : hand'[u] = hand[u] + Taken("OutputBufferDrained", u)
      /\ \A u \in AV : Taken("QueueBuffer", u) = 0 /\ Taken("Flush", u) = 0
      /\ hand' \in [AV -> Nat]
  <2>1. \A u \in AV : Taken("QueueBuffer", u) = 0 /\ Taken("Flush", u) = 0
    BY <1>5 DEF Taken
  <2>2. CASE Head(mainQ).to = "codec"
    <3>1. hand' = [hand EXCEPT ![Audio] = @ + 1]
      BY <1>1, <2>2
    <3>2. Taken("OutputBufferDrained", Audio) = 1 /\ \A u : u # Audio => Taken("OutputBufferDrained", u) = 0
      BY <1>6, <2>2 DEF Taken
    <3>3. ASSUME NEW u \in AV PROVE hand'[u] = hand[u] + Taken("OutputBufferDrained", u)
      <4>1. CASE u = Audio
        BY <1>2, <3>1, <3>2, <4>1
      <4>2. CASE u # Audio
        BY <1>2, <3>1, <3>2, <4>2
      <4> QED
        BY <4>1, <4>2
    <3> QED
      BY <1>2, <2>1, <3>1, <3>3, TwoTracks
  <2>3. CASE Head(mainQ).to # "codec"
    <3>1. \A u : Taken("OutputBufferDrained", u) = 0
      BY <1>6, <2>3 DEF Taken
    <3> QED
      BY <1>1, <1>2, <2>1, <2>3, <3>1
  <2> QED
    BY <2>2, <2>3
<1>8. \A what, u : /\ HowMany(mainQ, what, u) = Taken(what, u) + HowMany(Tail(mainQ), what, u)
                   /\ HowMany(Tail(mainQ), what, u) \in Nat /\ Taken(what, u) \in Nat
  BY <1>1, <1>2, HowManyHead DEF Taken
<1>9. Typed'
  BY <1>1, <1>3, <1>7 DEF Steady, Typed, TypeOK
<1>10. BufferInOneHand'
  <2> SUFFICES ASSUME NEW u \in AV
               PROVE  hand'[u] + HowMany(mainQ', "QueueBuffer", u) + Buffers(r.queue[u])
                         + HowMany(mainQ', "OutputBufferDrained", u) + HowMany(videoQ, "OutputBufferDrained", u)
                      = NumBuffers
    BY <1>1 DEF BufferInOneHand
  <2> DEFINE h == hand[u] h2 == hand'[u]
             q == HowMany(mainQ, "QueueBuffer", u) q2 == HowMany(Tail(mainQ), "QueueBuffer", u)
             e == Buffers(r.queue[u])
             o == HowMany(mainQ, "OutputBufferDrained", u) o2 == HowMany(Tail(mainQ), "OutputBufferDrained", u)
             v == HowMany(videoQ, "OutputBufferDrained", u)
             m == Taken("OutputBufferDrained", u)
  <2>1. h + q + e + o + v = NumBuffers
    BY DEF Steady, BufferInOneHand
  <2>2. h \in Nat /\ e \in Nat /\ v \in Nat /\ NumBuffers \in Nat
    BY <1>2, BuffersType, HowManyType, RendererAssumption
  <2>3. h2 = h + m /\ q2 = q /\ o = m + o2 /\ m \in Nat /\ o2 \in Nat /\ q2 \in Nat
    BY <1>7, <1>8
  <2> HIDE DEF h, h2, q, q2, e, o, o2, v, m
  <2>4. h2 + q2 + e + o2 + v = NumBuffers
    BY <2>1, <2>2, <2>3
  <2> QED
    BY <1>1, <2>4 DEF h2, q2, e, o2, v
<1>11. OneFlush'
  <2>1. \A u \in AV : HowMany(mainQ', "Flush", u) = HowMany(mainQ, "Flush", u)
    BY <1>1, <1>7, <1>8
  <2> QED
    BY <1>1, <2>1 DEF Steady, OneFlush
<1>12. /\ Pauses(Tail(mainQ), r.paused, resting) /\ Sinks(Tail(mainQ), r.queue[Audio])
       /\ Ends(Tail(mainQ), r.queue[Audio], ended)
  <2>1. Pauses(mainQ, r.paused, resting) /\ Sinks(mainQ, r.queue[Audio]) /\ Ends(mainQ, r.queue[Audio], ended)
    BY DEF Steady
  <2> QED
    BY <1>1, <1>2, <1>5, <2>1, TakingSettles
<1>13. Running(r)'
  BY <1>1 DEF Steady
<1> QED
  BY <1>1, <1>9, <1>10, <1>11, <1>12, <1>13 DEF Steady

LEMMA VideoHeardKeeps == Steady /\ VideoHeard => Steady' /\ r' = r
<1> SUFFICES ASSUME Steady, VideoHeard PROVE Steady' /\ r' = r
  OBVIOUS
<1>1. /\ videoQ # <<>> /\ videoQ' = Tail(videoQ) /\ hand' = [hand EXCEPT ![Video] = @ + 1]
      /\ mainQ' = mainQ /\ r' = r /\ ended' = ended /\ resting' = resting /\ left' = left
  BY DEF VideoHeard
<1>2. /\ videoQ \in Seq({Consumed(Video)}) /\ videoQ \in Seq(AnyMessage) /\ hand \in [AV -> Nat]
      /\ mainQ \in Seq(AnyMessage) /\ r.queue \in [AV -> Seq(Entry)]
  BY TypesOfState
<1>3. /\ Head(videoQ) = Consumed(Video) /\ Tail(videoQ) \in Seq({Consumed(Video)})
  BY <1>1, <1>2, HeadTailProperties
<1>4. Head(videoQ).what = "OutputBufferDrained" /\ Head(videoQ).trk = Video
  BY <1>3 DEF Consumed, Msg
<1>5. Typed' /\ hand' \in [AV -> Nat]
  <2>1. hand' \in [AV -> Nat]
    BY <1>1, <1>2, TwoTracks
  <2> QED
    BY <1>1, <1>3, <2>1 DEF Steady, Typed, TypeOK
<1>6. BufferInOneHand'
  <2> SUFFICES ASSUME NEW u \in AV
               PROVE  hand'[u] + HowMany(mainQ, "QueueBuffer", u) + Buffers(r.queue[u])
                         + HowMany(mainQ, "OutputBufferDrained", u) + HowMany(videoQ', "OutputBufferDrained", u)
                      = NumBuffers
    BY <1>1 DEF BufferInOneHand
  <2> DEFINE h == hand[u] h2 == hand'[u]
             q == HowMany(mainQ, "QueueBuffer", u)
             e == Buffers(r.queue[u])
             o == HowMany(mainQ, "OutputBufferDrained", u)
             v == HowMany(videoQ, "OutputBufferDrained", u) v2 == HowMany(Tail(videoQ), "OutputBufferDrained", u)
  <2>1. h + q + e + o + v = NumBuffers
    BY DEF Steady, BufferInOneHand
  <2>2. h \in Nat /\ e \in Nat /\ q \in Nat /\ o \in Nat /\ NumBuffers \in Nat
    BY <1>2, BuffersType, HowManyType, RendererAssumption
  <2>3. v2 \in Nat /\ h2 + v2 = h + v
    <3>1. /\ v = (IF Head(videoQ).what = "OutputBufferDrained" /\ Head(videoQ).trk = u THEN 1 ELSE 0) + v2
          /\ v2 \in Nat
      BY <1>1, <1>2, HowManyHead
    <3>2. CASE u = Video
      <4>1. v = 1 + v2
        BY <1>4, <3>1, <3>2
      <4>2. h2 = h + 1
        BY <1>1, <1>2, <3>2
      <4> HIDE DEF h, h2, v, v2
      <4> QED
        BY <2>2, <3>1, <4>1, <4>2
    <3>3. CASE u # Video
      <4>1. v = 0 + v2
        BY <1>4, <3>1, <3>3
      <4>2. h2 = h
        BY <1>1, <1>2, <3>3
      <4> HIDE DEF h, h2, v, v2
      <4> QED
        BY <2>2, <3>1, <4>1, <4>2
    <3> QED
      BY <3>2, <3>3
  <2>4. h2 \in Nat /\ v \in Nat
    BY <1>2, <1>5, HowManyType
  <2> HIDE DEF h, h2, q, e, o, v, v2
  <2>5. h2 + q + e + o + v2 = NumBuffers
    BY <2>1, <2>2, <2>3, <2>4
  <2> QED
    BY <1>1, <2>5 DEF h2, q, e, o, v2
<1>7. OneFlush'
  BY <1>1 DEF Steady, OneFlush
<1>8. Running(r)'
  BY <1>1 DEF Steady
<1> QED
  BY <1>1, <1>5, <1>6, <1>7, <1>8 DEF Steady

-----------------------------------------------------------------------------
(*                               The drains                                 *)

(* What is left after a drain of track t.                                       *)
Emptied(t, rest, begun, anchor) ==
    [Fired(t) EXCEPT !.queue[t] = rest, !.begun = begun, !.anchor = anchor]

LEMMA EmptiedKeeps ==
    ASSUME Working, NEW t \in AV, Falls(t), NEW rest \in Seq(Entry), NEW begun \in BOOLEAN,
           NEW anchor \in {"new", r.anchor},
           (\E i \in 1 .. Len(rest) : rest[i] = "buffer")
               => \E i \in 1 .. Len(r.queue[t]) : r.queue[t][i] = "buffer"
    PROVE  LET k == Emptied(t, rest, begun, anchor)
           IN  /\ Sound(k) /\ \A u \in AV : u # t \/ rest = <<>> => Driven(k, u)
               /\ k.queue[t] = rest /\ \A u \in AV : u # t => k.queue[u] = r.queue[u]
               /\ k.flushing = r.flushing /\ k.paused = r.paused /\ k.failed = "none"
               /\ r.queue[t] # <<>> /\ r.queue[t] \in Seq(Entry)
<1> DEFINE k == Emptied(t, rest, begun, anchor)
           posted == [r.posted EXCEPT ![t] = @ - 1]
           pending == r.pending \ {t}
           queue == [r.queue EXCEPT ![t] = rest]
           f == Fired(t)
<1>1. /\ r \in Renderer /\ Drawn(r) /\ Timed(r) /\ r.failed = "none" /\ \A u \in AV : Driven(r, u)
  BY TypesOfParts DEF Sound
<1>2. /\ r.posted \in [AV -> Nat] /\ r.pending \in SUBSET AV /\ r.queue \in [AV -> Seq(Entry)]
      /\ r.anchor \in {"none", "new", "old"}
  BY <1>1, RendererFields
<1>3. r.posted[t] = 1 /\ t \in r.pending /\ r.queue[t] # <<>> /\ ~r.sync
  BY <1>1 DEF Falls, Drawn
<1>4. /\ posted \in [AV -> Nat] /\ posted[t] = 0 /\ \A u \in AV : u # t => posted[u] = r.posted[u]
      /\ pending \in SUBSET AV /\ anchor \in {"none", "new", "old"}
      /\ queue \in [AV -> Seq(Entry)] /\ queue[t] = rest
      /\ \A u \in AV : u # t => queue[u] = r.queue[u]
  BY <1>2, <1>3
<1>5. f = [r EXCEPT !.posted = posted, !.pending = pending]
  BY <1>1 DEF Fired, Renderer
<1> HIDE DEF f, posted
<1>6. /\ f \in Renderer /\ f.queue = r.queue
      /\ f.posted = posted /\ f.pending = pending /\ f.flushing = r.flushing /\ f.has = r.has
      /\ f.sync = r.sync /\ f.paused = r.paused /\ f.wasPaused = r.wasPaused /\ f.failed = r.failed
      /\ f.mute = r.mute
  BY <1>1, <1>4, <1>5 DEF Renderer
<1>7. k = [f EXCEPT !.queue = queue, !.begun = begun, !.anchor = anchor]
  BY <1>6 DEF Emptied, Renderer, f
<1> HIDE DEF k, queue
<1>8. /\ k \in Renderer /\ k.queue = queue /\ k.anchor = anchor
      /\ k.posted = posted /\ k.pending = pending /\ k.flushing = r.flushing /\ k.has = r.has
      /\ k.sync = r.sync /\ k.paused = r.paused /\ k.wasPaused = r.wasPaused /\ k.failed = "none"
      /\ k.mute = r.mute
  BY <1>1, <1>4, <1>6, <1>7 DEF Renderer
<1>9. Drawn(k)
  <2>1. \A u \in AV : /\ r.posted[u] = IF u \in r.pending THEN 1 ELSE 0
                      /\ u \in r.pending => r.queue[u] # <<>>
    BY <1>1 DEF Drawn
  <2>2. \A u \in AV : /\ k.posted[u] = IF u \in k.pending THEN 1 ELSE 0
                      /\ u \in k.pending => k.queue[u] # <<>>
    BY <1>4, <1>8, <2>1
  <2> QED
    BY <1>3, <1>8, <2>2 DEF Drawn
<1>10. Timed(k)
  <2>1. k.anchor = "old" => r.anchor = "old" /\ k.wasPaused
    BY <1>1, <1>8 DEF Timed
  <2>2. CASE t = Video
    <3>1. k.queue[Video] = rest /\ Video \notin k.pending
      BY <1>4, <1>8, <2>2
    <3>2. Video \notin k.flushing =>
            ((\E i \in 1 .. Len(k.queue[Video]) : k.queue[Video][i] = "buffer") => Video \in k.has)
      BY <1>1, <1>8, <2>2, <3>1 DEF Timed
    <3> QED
      BY <2>1, <3>1, <3>2 DEF Timed
  <2>3. CASE t # Video
    <3>1. k.queue[Video] = r.queue[Video] /\ (Video \in k.pending <=> Video \in r.pending)
      BY <1>4, <1>8, <2>3, TwoTracks
    <3> QED
      BY <1>1, <1>8, <2>1, <3>1 DEF Timed
  <2> QED
    BY <2>2, <2>3
<1>11. \A u \in AV : u # t \/ rest = <<>> => Driven(k, u)
  BY <1>1, <1>4, <1>8 DEF Driven
<1>12. r.queue[t] \in Seq(Entry)
  BY <1>2
<1>13. /\ Sound(k) /\ \A u \in AV : u # t \/ rest = <<>> => Driven(k, u)
       /\ k.queue[t] = rest /\ \A u \in AV : u # t => k.queue[u] = r.queue[u]
       /\ k.flushing = r.flushing /\ k.paused = r.paused /\ k.failed = "none"
       /\ r.queue[t] # <<>>
  BY <1>3, <1>4, <1>8, <1>9, <1>10, <1>11 DEF Sound
<1> QED
  BY <1>12, <1>13 DEF k

(* And the next drain is posted.                                                *)
LEMMA NextDrain ==
    ASSUME Working, NEW t \in AV, Falls(t), NEW rest \in Seq(Entry), NEW begun \in BOOLEAN,
           NEW anchor \in {"new", r.anchor},
           (\E i \in 1 .. Len(rest) : rest[i] = "buffer")
               => \E i \in 1 .. Len(r.queue[t]) : r.queue[t][i] = "buffer",
           NEW p, p = PostDrain(Emptied(t, rest, begun, anchor), t)
    PROVE  /\ Running(p) /\ p.failed = "none"
           /\ p.queue[t] = rest /\ \A u \in AV : u # t => p.queue[u] = r.queue[u]
           /\ p.flushing = r.flushing /\ p.paused = r.paused
<1> DEFINE k == Emptied(t, rest, begun, anchor)
<1>1. /\ Sound(k) /\ \A u \in AV : u # t \/ rest = <<>> => Driven(k, u)
      /\ k.queue[t] = rest /\ \A u \in AV : u # t => k.queue[u] = r.queue[u]
      /\ k.flushing = r.flushing /\ k.paused = r.paused /\ k.failed = "none"
  BY EmptiedKeeps
<1>0. p = PostDrain(k, t)
  OBVIOUS
<1> HIDE DEF k
<1>2. Sound(p) /\ Posts(k, p) /\ Driven(p, t)
  BY <1>0, <1>1, PostDrainKeeps
<1>3. \A u \in AV : Driven(p, u)
  BY <1>1, <1>2 DEF Posts
<1> QED
  BY <1>1, <1>2, <1>3 DEF Posts, Running

(* The report of an end.                                                       *)
LEMMA EndReported ==
    ASSUME NEW t \in AV, NEW e \in Entry, e # "buffer"
    PROVE  /\ Msg("player", "RendererEOS", t, e) \in Note
           /\ Msg("player", "RendererEOS", t, e).what = "RendererEOS"
<1>1. Msg("player", "RendererEOS", t, e) \in AnyMessage
  BY DEF Msg, AnyMessage, Handlers, Whats, Args, Entry
<1> QED
  BY <1>1 DEF Msg, Note

LEMMA DrainAudioKeeps ==
    ASSUME NEW n \in 0 .. NumBuffers, NEW part \in BOOLEAN
    PROVE  Working /\ DrainAudio(n, part) => Working' /\ r'.queue[Video] = r.queue[Video]
<1> SUFFICES ASSUME Working, DrainAudio(n, part) PROVE Working' /\ r'.queue[Video] = r.queue[Video]
  OBVIOUS
<1> DEFINE q == r.queue[Audio]
           starts == IF r.begun THEN n > 1 \/ (n = 1 /\ part) ELSE n > 0 \/ part
           rest == SubSeq(q, n + 1, Len(q))
           begun == part \/ (n = 0 /\ r.begun)
           anchor == IF starts THEN "new" ELSE r.anchor
           k == Emptied(Audio, rest, begun, anchor)
           p == PostDrain(k, Audio)
<1>1. r \in Renderer /\ r.begun \in BOOLEAN /\ q \in Seq(Entry) /\ r.queue \in [AV -> Seq(Entry)]
  BY TypesOfParts, RendererFields
<1>2. [Fired(Audio) EXCEPT !.queue[Audio] = rest, !.begun = part \/ (n = 0 /\ @),
                           !.anchor = IF starts THEN "new" ELSE @] = k
  <2>1. Fired(Audio).begun = r.begun /\ Fired(Audio).anchor = r.anchor
    BY <1>1 DEF Fired, Renderer
  <2> QED
    BY <2>1 DEF Emptied
<1>3. /\ Falls(Audio) /\ n + (IF part THEN 1 ELSE 0) <= Len(q)
      /\ Gives(p, mainQ, Audio, SubSeq(q, 1, n))
  <2>1. Gives(PostDrain([Fired(Audio) EXCEPT !.queue[Audio] = rest, !.begun = part \/ (n = 0 /\ @),
                                            !.anchor = IF starts THEN "new" ELSE @], Audio),
              mainQ, Audio, SubSeq(q, 1, n))
    BY DEF DrainAudio
  <2>2. Falls(Audio) /\ n + (IF part THEN 1 ELSE 0) <= Len(q)
    BY DEF DrainAudio
  <2> QED
    BY <1>2, <2>1, <2>2
<1>4. n \in 0 .. Len(q) /\ Len(q) \in Nat
  BY <1>1, <1>3, RendererAssumption, LenProperties
<1>5. begun \in BOOLEAN /\ anchor \in {"new", r.anchor}
  BY <1>1
<1>6. /\ Buffers(q) = Buffers(SubSeq(q, 1, n)) + Buffers(rest)
      /\ SubSeq(q, 1, n) \in Seq(Entry) /\ rest \in Seq(Entry)
      /\ Buffers(SubSeq(q, 1, n)) \in Nat /\ Buffers(rest) \in Nat
  BY <1>1, <1>4, BuffersSplit
<1>7. /\ HasEnd(rest) => HasEnd(q)
      /\ rest # <<>> => q # <<>>
  BY <1>1, <1>4, EndsOfParts
<1>8. (\E i \in 1 .. Len(rest) : rest[i] = "buffer") => \E i \in 1 .. Len(q) : q[i] = "buffer"
  <2>1. /\ Len(rest) \in Nat /\ Len(rest) = Len(q) - n /\ \A i \in 1 .. Len(rest) : rest[i] = q[n + i]
    BY <1>1, <1>4, SubSeqProperties, LenProperties
  <2> HIDE DEF rest, q
  <2> QED
    BY <1>4, <2>1
<1> HIDE DEF begun, anchor, rest
<1>9. /\ Running(p) /\ p.failed = "none"
      /\ p.queue[Audio] = rest /\ \A u \in AV : u # Audio => p.queue[u] = r.queue[u]
      /\ p.flushing = r.flushing /\ p.paused = r.paused
  BY <1>3, <1>5, <1>6, <1>8, TwoTracks, NextDrain
<1> HIDE DEF p
<1>10. ASSUME NEW u \in AV PROVE Buffers(p.queue[u]) + Owed(SubSeq(q, 1, n), Audio, u) = Buffers(r.queue[u])
  <2>1. CASE u = Audio
    <3>1. Owed(SubSeq(q, 1, n), Audio, u) = Buffers(SubSeq(q, 1, n))
      BY <2>1 DEF Owed
    <3> QED
      BY <1>6, <1>9, <2>1, <3>1
  <2>2. CASE u # Audio
    <3>1. Owed(SubSeq(q, 1, n), Audio, u) = 0
      BY <2>2 DEF Owed
    <3>2. Buffers(r.queue[u]) \in Nat
      BY <1>1, BuffersType
    <3> QED
      BY <1>9, <2>2, <3>1, <3>2
  <2> QED
    BY <2>1, <2>2
<1>11. Audio \in AV
  BY TwoTracks
<1>12. r'.queue[Video] = r.queue[Video]
  BY <1>3, <1>9, TwoTracks DEF Gives, Becomes
<1> QED
  BY ZenonT(60), <1>3, <1>6, <1>7, <1>9, <1>10, <1>11, <1>12, FiringGivesKeeps

(* What is left of the limits.                                                 *)
LEMMA SpendingIsNatural ==
    ASSUME Working, NEW what \in Calls, Spend(what)
    PROVE  left' \in [Calls -> Nat]
<1>1. left \in [Calls -> Nat] /\ left[what] > 0 /\ left' = [left EXCEPT ![what] = @ - 1]
  BY TypesOfParts DEF Spend
<1> QED
  BY <1>1

(* A sink without a position leaves the queue as it is, and nobody to drain it.       *)
LEMMA DrainAudioFailsKeeps == Working /\ DrainAudioFails => IInv' /\ r'.queue = r.queue
<1> SUFFICES ASSUME Working, DrainAudioFails PROVE IInv' /\ r'.queue = r.queue
  OBVIOUS
<1>1. /\ Falls(Audio) /\ Spend("failure")
      /\ r' \in {[Fired(Audio) EXCEPT !.mute = TRUE], [r EXCEPT !.failed = "audioSink"]}
      /\ hand' = hand /\ ended' = ended /\ resting' = resting /\ mainQ' = mainQ /\ videoQ' = videoQ
  BY DEF DrainAudioFails, looperVars
<1>2. /\ r \in Renderer /\ Drawn(r) /\ Timed(r) /\ r.failed = "none" /\ \A u \in AV : Driven(r, u)
  BY TypesOfParts DEF Sound
<1>3. r.posted \in [AV -> Nat] /\ r.pending \in SUBSET AV
  BY <1>2, RendererFields
<1>4. r.posted[Audio] = 1 /\ Audio \in r.pending /\ ~r.sync /\ Audio \in AV
  BY <1>1, <1>2, TwoTracks DEF Falls, Drawn
<1>5. /\ Running(r') /\ r'.queue = r.queue /\ r'.flushing = r.flushing /\ r'.paused = r.paused
      /\ r'.failed \in {"none", "audioSink"}
  <2>1. CASE r' = [Fired(Audio) EXCEPT !.mute = TRUE]
    <3> DEFINE k == [Fired(Audio) EXCEPT !.mute = TRUE]
               posted == [r.posted EXCEPT ![Audio] = @ - 1]
               pending == r.pending \ {Audio}
    <3>1. /\ posted \in [AV -> Nat] /\ posted[Audio] = 0
          /\ \A u \in AV : u # Audio => posted[u] = r.posted[u]
          /\ pending \in SUBSET AV
      BY <1>3, <1>4
    <3>2. k = [r EXCEPT !.posted = posted, !.pending = pending, !.mute = TRUE]
      BY <1>2 DEF Fired, Renderer
    <3> HIDE DEF k, posted
    <3>3. /\ k \in Renderer /\ k.queue = r.queue /\ k.posted = posted /\ k.pending = pending
          /\ k.flushing = r.flushing /\ k.has = r.has /\ k.sync = r.sync /\ k.paused = r.paused
          /\ k.anchor = r.anchor /\ k.wasPaused = r.wasPaused /\ k.failed = "none" /\ k.mute
      BY <1>2, <3>1, <3>2 DEF Renderer
    <3>4. Drawn(k)
      <4>1. \A u \in AV : /\ r.posted[u] = IF u \in r.pending THEN 1 ELSE 0
                          /\ u \in r.pending => r.queue[u] # <<>>
        BY <1>2 DEF Drawn
      <4>2. \A u \in AV : /\ k.posted[u] = IF u \in k.pending THEN 1 ELSE 0
                          /\ u \in k.pending => k.queue[u] # <<>>
        BY <3>1, <3>3, <4>1
      <4> QED
        BY <1>4, <3>3, <4>2 DEF Drawn
    <3>5. Timed(k)
      BY <1>2, <3>3, TwoTracks DEF Timed
    <3>6. \A u \in AV : Driven(k, u)
      BY <1>2, <3>3 DEF Driven
    <3>7. r' = k
      BY <2>1 DEF k
    <3> QED
      BY <3>3, <3>4, <3>5, <3>6, <3>7 DEF Running, Sound
  <2>2. CASE r' = [r EXCEPT !.failed = "audioSink"]
    <3> DEFINE k == [r EXCEPT !.failed = "audioSink"]
    <3>1. /\ k \in Renderer /\ k.queue = r.queue /\ k.posted = r.posted /\ k.pending = r.pending
          /\ k.flushing = r.flushing /\ k.has = r.has /\ k.sync = r.sync /\ k.paused = r.paused
          /\ k.anchor = r.anchor /\ k.wasPaused = r.wasPaused /\ k.failed = "audioSink" /\ k.mute = r.mute
      BY <1>2 DEF Renderer
    <3>2. r' = k
      BY <2>2
    <3> HIDE DEF k
    <3>3. Drawn(k) /\ Timed(k) /\ \A u \in AV : Driven(k, u)
      BY <1>2, <3>1 DEF Drawn, Timed, Driven
    <3> QED
      BY <3>1, <3>2, <3>3 DEF Running, Sound
  <2> QED
    BY <1>1, <2>1, <2>2
<1>6. left' \in [Calls -> Nat]
  BY <1>1, SpendingIsNatural DEF Calls
<1>7. Typed'
  BY <1>1, <1>5, <1>6 DEF Working, Steady, Typed, TypeOK, Running, Sound
<1>8. BufferInOneHand' /\ OneFlush'
  BY <1>1, <1>5 DEF Working, Steady, BufferInOneHand, OneFlush
<1>9. Pauses(mainQ', r'.paused, resting') /\ Sinks(mainQ', r'.queue[Audio]) /\ Ends(mainQ', r'.queue[Audio], ended')
  BY <1>1, <1>5 DEF Working, Steady
<1> QED
  BY <1>5, <1>7, <1>8, <1>9 DEF IInv, Steady

LEMMA DrainAudioEndKeeps == Working /\ DrainAudioEnd => Working' /\ r'.queue[Video] = r.queue[Video]
<1> SUFFICES ASSUME Working, DrainAudioEnd PROVE Working' /\ r'.queue[Video] = r.queue[Video]
  OBVIOUS
<1> DEFINE q == r.queue[Audio]
           n == Len(q) - 1
           anchor == IF n > (IF r.begun THEN 1 ELSE 0) THEN "new" ELSE r.anchor
           k == Emptied(Audio, <<>>, FALSE, anchor)
           note == Msg("player", "RendererEOS", Audio, q[Len(q)])
           mainPart == Replies(Audio, q) \o <<note>>
<1>1. r \in Renderer /\ q \in Seq(Entry) /\ r.queue \in [AV -> Seq(Entry)]
  BY TypesOfParts
<1>2. /\ Falls(Audio) /\ q # <<>> /\ q[Len(q)] # "buffer"
      /\ Becomes(k, mainQ, mainPart, <<>>)
  <2>1. Fired(Audio).anchor = r.anchor
    BY <1>1 DEF Fired, Renderer
  <2> QED
    BY <2>1 DEF DrainAudioEnd, Emptied
<1>3. q[Len(q)] \in Entry
  BY <1>1, <1>2, LenProperties, EmptySeq, ElementOfSeq
<1>4. note \in Note /\ note.what = "RendererEOS" /\ note \in AnyMessage
  <2>1. note \in Note /\ note.what = "RendererEOS"
    BY <1>2, <1>3, TwoTracks, EndReported
  <2> QED
    BY <2>1 DEF Note
<1>5. /\ Replies(Audio, q) \in Seq(Note) /\ Replies(Audio, q) \in Seq(AnyMessage)
      /\ \A u \in AV : HowMany(Replies(Audio, q), "OutputBufferDrained", u) = IF u = Audio THEN Buffers(q) ELSE 0
  <2>1. /\ Replies(Audio, q) \in Seq({Consumed(Audio)})
        /\ \A what \in Whats, u \in AV :
             HowMany(Replies(Audio, q), what, u) = IF what = "OutputBufferDrained" /\ u = Audio THEN Buffers(q) ELSE 0
    BY <1>1, TwoTracks, RepliesCount
  <2>2. "OutputBufferDrained" \in Whats
    BY DEF Whats
  <2>3. Replies(Audio, q) \in Seq(Note)
    BY <2>1, MessagesAreMessages, SeqMonotonic
  <2> QED
    BY <2>1, <2>2, <2>3, MessagesAreMessages
<1> HIDE DEF note
<1>6. <<note>> \in Seq(Note) /\ mainPart = Append(Replies(Audio, q), note) /\ mainPart \in Seq(Note)
  BY <1>4, <1>5, AppendIsConcat, AppendProperties
<1>7. \A u \in AV : HowMany(mainPart, "OutputBufferDrained", u) = HowMany(Replies(Audio, q), "OutputBufferDrained", u)
  <2>1. \A u \in AV : /\ HowMany(Append(Replies(Audio, q), note), "OutputBufferDrained", u) =
                           HowMany(Replies(Audio, q), "OutputBufferDrained", u)
                             + (IF note.what = "OutputBufferDrained" /\ note.trk = u THEN 1 ELSE 0)
                      /\ HowMany(Replies(Audio, q), "OutputBufferDrained", u) \in Nat
    BY <1>4, <1>5, HowManyAppend
  <2> HIDE DEF mainPart
  <2> SUFFICES ASSUME NEW u \in AV
               PROVE  HowMany(mainPart, "OutputBufferDrained", u) = HowMany(Replies(Audio, q), "OutputBufferDrained", u)
    OBVIOUS
  <2> DEFINE h == HowMany(Replies(Audio, q), "OutputBufferDrained", u)
  <2>2. HowMany(mainPart, "OutputBufferDrained", u) = h + (IF note.what = "OutputBufferDrained" /\ note.trk = u THEN 1 ELSE 0)
        /\ h \in Nat
    BY <1>6, <2>1
  <2> HIDE DEF h
  <2>3. HowMany(mainPart, "OutputBufferDrained", u) = h + 0
    BY <1>4, <2>2
  <2>4. HowMany(mainPart, "OutputBufferDrained", u) = h
    BY <2>2, <2>3
  <2> QED
    BY <2>4 DEF h
<1>8. <<>> \in Seq(Entry) /\ Buffers(<<>>) = 0 /\ ~HasEnd(<<>>) /\ Buffers(q) \in Nat
  BY <1>1, BuffersOfFew, EndsOfParts, BuffersType
<1>9. /\ Sound(k) /\ \A u \in AV : Driven(k, u)
      /\ k.queue[Audio] = <<>> /\ \A u \in AV : u # Audio => k.queue[u] = r.queue[u]
      /\ k.flushing = r.flushing /\ k.paused = r.paused /\ k.failed = "none"
  <2>1. anchor \in {"new", r.anchor}
    OBVIOUS
  <2> HIDE DEF anchor
  <2>2. /\ Sound(k) /\ \A u \in AV : u # Audio \/ <<>> = <<>> => Driven(k, u)
        /\ k.queue[Audio] = <<>> /\ \A u \in AV : u # Audio => k.queue[u] = r.queue[u]
        /\ k.flushing = r.flushing /\ k.paused = r.paused /\ k.failed = "none"
    <3>1. PICK rest \in Seq(Entry) : rest = <<>>
      BY <1>8
    <3>2. Len(rest) = 0
      BY <3>1, EmptySeq
    <3>3. (\E i \in 1 .. Len(rest) : rest[i] = "buffer") => \E i \in 1 .. Len(q) : q[i] = "buffer"
      BY <3>2
    <3> DEFINE begun == FALSE
    <3>4. begun \in BOOLEAN
      OBVIOUS
    <3> HIDE DEF begun
    <3>5. LET e == Emptied(Audio, rest, begun, anchor)
          IN  /\ Sound(e) /\ \A u \in AV : u # Audio \/ rest = <<>> => Driven(e, u)
              /\ e.queue[Audio] = rest /\ \A u \in AV : u # Audio => e.queue[u] = r.queue[u]
              /\ e.flushing = r.flushing /\ e.paused = r.paused /\ e.failed = "none"
      BY <1>2, <2>1, <3>3, <3>4, TwoTracks, EmptiedKeeps
    <3> QED
      BY <3>1, <3>5 DEF begun
  <2> QED
    BY <2>2
<1> HIDE DEF k, mainPart
<1>10. Running(k)
  BY <1>9 DEF Running
<1>11. \A u : HowMany(<<>>, "OutputBufferDrained", u) = 0
  BY HowManyEmpty
<1>12. ASSUME NEW u \in AV
       PROVE  Buffers(k.queue[u]) + HowMany(mainPart, "OutputBufferDrained", u)
                                  + HowMany(<<>>, "OutputBufferDrained", u) = Buffers(r.queue[u])
  <2>1. CASE u = Audio
    BY <1>5, <1>7, <1>8, <1>9, <1>11, <2>1
  <2>2. CASE u # Audio
    <3>1. HowMany(mainPart, "OutputBufferDrained", u) = 0
      BY <1>5, <1>7, <2>2
    <3>2. Buffers(r.queue[u]) \in Nat
      BY <1>1, BuffersType
    <3> QED
      BY <1>9, <1>11, <2>2, <3>1, <3>2
  <2> QED
    BY <2>1, <2>2
<1>13. <<>> \in Seq({Consumed(Video)})
  BY EmptySeq
<1>14. r'.queue[Video] = r.queue[Video]
  BY <1>2, <1>9, TwoTracks DEF Becomes
<1> QED
  BY <1>2, <1>6, <1>8, <1>9, <1>10, <1>12, <1>13, <1>14, FiringKeeps

LEMMA DrainVideoKeeps == Working /\ DrainVideo => Working'
<1> SUFFICES ASSUME Working, DrainVideo PROVE Working'
  OBVIOUS
<1> DEFINE q == r.queue[Video]
           p == PostDrain(Emptied(Video, Tail(q), r.begun, r.anchor), Video)
           note == Msg("player", "RendererEOS", Video, Head(q))
<1>1. /\ r \in Renderer /\ r.begun \in BOOLEAN /\ q \in Seq(Entry) /\ r.queue \in [AV -> Seq(Entry)]
      /\ Drawn(r)
  BY TypesOfParts, RendererFields DEF Sound
<1>2. Falls(Video)
  BY DEF DrainVideo
<1>3. q # <<>>
  BY <1>1, <1>2, TwoTracks DEF Falls, Drawn
<1>4. [Fired(Video) EXCEPT !.queue[Video] = Tail(@)] = Emptied(Video, Tail(q), r.begun, r.anchor)
  <2>1. /\ Fired(Video).queue = r.queue /\ Fired(Video).begun = r.begun
        /\ Fired(Video).anchor = r.anchor
    BY <1>1 DEF Fired, Renderer
  <2>2. Fired(Video) = [Fired(Video) EXCEPT !.begun = r.begun, !.anchor = r.anchor]
    BY <1>1 DEF Fired, Renderer
  <2> DEFINE f == Fired(Video)
             queue == [f.queue EXCEPT ![Video] = Tail(q)]
  <2>3. f = [f EXCEPT !.begun = r.begun, !.anchor = r.anchor]
    BY <2>2
  <2>4. Tail(f.queue[Video]) = Tail(q)
    BY <2>1
  <2> QED
    BY <1>1, <2>4 DEF Emptied, Fired, Renderer
<1>5. \/ Head(q) = "buffer" /\ Gives(p, mainQ, Video, <<"buffer">>)
      \/ Head(q) # "buffer" /\ Becomes(p, mainQ, <<note>>, <<>>)
  BY <1>3, <1>4 DEF DrainVideo
<1>6. /\ Head(q) \in Entry /\ Tail(q) \in Seq(Entry)
      /\ Buffers(q) = (IF Head(q) = "buffer" THEN 1 ELSE 0) + Buffers(Tail(q)) /\ Buffers(Tail(q)) \in Nat
  BY <1>1, <1>3, BuffersHead, HeadTailProperties
<1>7. (\E i \in 1 .. Len(Tail(q)) : Tail(q)[i] = "buffer") => \E i \in 1 .. Len(q) : q[i] = "buffer"
  <2>1. Len(q) \in Nat /\ Len(Tail(q)) = Len(q) - 1 /\ \A i \in 1 .. Len(Tail(q)) : Tail(q)[i] = q[i + 1]
    BY <1>1, <1>3, HeadTailProperties, LenProperties
  <2> HIDE DEF q
  <2> QED
    BY <2>1
<1>8. /\ Running(p) /\ p.failed = "none"
      /\ p.queue[Video] = Tail(q) /\ \A u \in AV : u # Video => p.queue[u] = r.queue[u]
      /\ p.flushing = r.flushing /\ p.paused = r.paused
  <2>1. r.begun \in BOOLEAN /\ r.anchor \in {"new", r.anchor} /\ Video \in AV /\ Tail(q) \in Seq(Entry)
    BY <1>1, <1>6, TwoTracks, RendererFields
  <2> DEFINE rest == Tail(q)  anchor == r.anchor  begun == r.begun
  <2>2. (\E i \in 1 .. Len(rest) : rest[i] = "buffer")
           => \E i \in 1 .. Len(r.queue[Video]) : r.queue[Video][i] = "buffer"
    BY <1>7
  <2>3. p = PostDrain(Emptied(Video, rest, begun, anchor), Video)
    OBVIOUS
  <2>4. begun \in BOOLEAN /\ anchor \in {"new", r.anchor} /\ rest \in Seq(Entry)
    BY <2>1
  <2> HIDE DEF p, rest, anchor, begun
  <2>5. /\ Running(p) /\ p.failed = "none"
        /\ p.queue[Video] = rest /\ \A u \in AV : u # Video => p.queue[u] = r.queue[u]
        /\ p.flushing = r.flushing /\ p.paused = r.paused
    BY <1>2, <2>1, <2>2, <2>3, <2>4, NextDrain
  <2> QED
    BY <2>5 DEF rest
<1> HIDE DEF p
<1>9. Audio \in AV /\ Video \in AV /\ p.queue[Audio] = r.queue[Audio]
  BY <1>8, TwoTracks
<1>10. \A u \in AV : Buffers(r.queue[u]) \in Nat
  BY <1>1, BuffersType
<1>11. CASE Head(q) = "buffer" /\ Gives(p, mainQ, Video, <<"buffer">>)
  <2>1. ASSUME NEW u \in AV PROVE Buffers(p.queue[u]) + Owed(<<"buffer">>, Video, u) = Buffers(r.queue[u])
    <3>1. CASE u = Video
      <4>1. Owed(<<"buffer">>, Video, u) = 1
        BY <3>1, BuffersOfFew DEF Owed
      <4> QED
        BY <1>6, <1>8, <1>11, <3>1, <4>1
    <3>2. CASE u # Video
      <4>1. Owed(<<"buffer">>, Video, u) = 0
        BY <3>2 DEF Owed
      <4> QED
        BY <1>8, <1>10, <3>2, <4>1
    <3> QED
      BY <3>1, <3>2
  <2>2. <<"buffer">> \in Seq(Entry) /\ Gives(p, mainQ, Video, <<"buffer">>)
    BY <1>11, BuffersOfFew
  <2>3. /\ p.queue[Audio] # <<>> => r.queue[Audio] # <<>>
        /\ HasEnd(p.queue[Audio]) => HasEnd(r.queue[Audio])
    BY <1>9
  <2> HIDE DEF q
  <2> QED
    BY <1>8, <1>9, <2>1, <2>2, <2>3, FiringGivesKeeps
<1>12. CASE Head(q) # "buffer" /\ Becomes(p, mainQ, <<note>>, <<>>)
  <2>1. note \in Note /\ note.what = "RendererEOS"
    BY <1>6, <1>9, <1>12, EndReported
  <2> HIDE DEF note
  <2>2. <<note>> \in Seq(Note) /\ <<>> \in Seq({Consumed(Video)})
    BY <2>1, EmptySeq
  <2>3. \A u : HowMany(<<note>>, "OutputBufferDrained", u) = 0 /\ HowMany(<<>>, "OutputBufferDrained", u) = 0
    <3>1. <<>> \in Seq(AnyMessage) /\ note \in AnyMessage /\ <<note>> = Append(<<>>, note)
      BY <2>1, EmptySeq DEF Note
    <3>2. <<note>> \in Seq(AnyMessage) /\ Len(<<note>>) = 1 /\ <<note>>[1] = note
      BY <3>1
    <3> SUFFICES ASSUME NEW u
                 PROVE  HowMany(<<note>>, "OutputBufferDrained", u) = 0 /\ HowMany(<<>>, "OutputBufferDrained", u) = 0
      OBVIOUS
    <3>3. \A i \in 1 .. Len(<<note>>) : <<note>>[i] \notin Of("OutputBufferDrained", u)
      BY <2>1, <3>2 DEF Of
    <3>4. Hits(<<note>>, Of("OutputBufferDrained", u)) = 0
      BY <3>2, <3>3, HitsNone
    <3> QED
      BY <3>2, <3>4, HowManyIsHits, HowManyEmpty
  <2>4. ASSUME NEW u \in AV
        PROVE  Buffers(p.queue[u]) + HowMany(<<note>>, "OutputBufferDrained", u)
                                   + HowMany(<<>>, "OutputBufferDrained", u) = Buffers(r.queue[u])
    <3>1. CASE u = Video
      BY <1>6, <1>8, <1>12, <2>3, <3>1
    <3>2. CASE u # Video
      BY <1>8, <1>10, <2>3, <3>2
    <3> QED
      BY <3>1, <3>2
  <2> QED
    BY <1>8, <1>9, <1>12, <2>2, <2>4, FiringKeeps
<1> QED
  BY <1>5, <1>11, <1>12

-----------------------------------------------------------------------------
(*                           The player's calls                             *)

(* Whether the message m is a `what` of track u.                                  *)
Said(m, what, u) == IF m.what = what /\ m.trk = u THEN 1 ELSE 0

LEMMA CallCounts ==
    ASSUME NEW q \in Seq(MainMessage), NEW m \in Call
    PROVE  /\ Append(q, m) \in Seq(MainMessage)
           /\ \A u : /\ HowMany(Append(q, m), "QueueBuffer", u) = HowMany(q, "QueueBuffer", u) + Said(m, "QueueBuffer", u)
                     /\ HowMany(Append(q, m), "Flush", u) = HowMany(q, "Flush", u) + Said(m, "Flush", u)
                     /\ HowMany(Append(q, m), "OutputBufferDrained", u) = HowMany(q, "OutputBufferDrained", u)
                     /\ HowMany(q, "QueueBuffer", u) \in Nat /\ HowMany(q, "Flush", u) \in Nat
                     /\ HowMany(q, "OutputBufferDrained", u) \in Nat
<1>1. q \in Seq(AnyMessage) /\ m \in AnyMessage /\ m \in MainMessage /\ m.what # "OutputBufferDrained"
  BY MessagesAreMessages DEF Call, MainMessage
<1>2. Append(q, m) \in Seq(MainMessage)
  BY <1>1, AppendProperties
<1>3. \A what, u : /\ HowMany(Append(q, m), what, u) = HowMany(q, what, u) + Said(m, what, u)
                   /\ HowMany(q, what, u) \in Nat
  BY <1>1, HowManyAppend DEF Said
<1>4. \A u : Said(m, "OutputBufferDrained", u) = 0
  BY <1>1 DEF Said
<1> QED
  BY <1>2, <1>3, <1>4

(* The player posts the call m, and the renderer becomes k at once.                 *)
LEMMA CallingKeeps ==
    ASSUME Working, NEW m \in Call, mainQ' = Append(mainQ, m), videoQ' = videoQ,
           NEW k, r' = k, Running(k), k.failed = "none", k.queue = r.queue, k.paused = r.paused,
           hand' \in [AV -> Nat], ended' \subseteq AV, resting' \in BOOLEAN, left' \in [Calls -> Nat],
           \A u \in AV : hand'[u] + Said(m, "QueueBuffer", u) = hand[u],
           \A u \in AV : u \in k.flushing <=> u \in r.flushing \/ Said(m, "Flush", u) = 1,
           \A u \in AV : Said(m, "Flush", u) = 1 => u \notin r.flushing,
           m.what = "Pause" => ~resting /\ resting',
           m.what \notin {"Pause", "Resume"} => resting' = resting,
           m.what = "AudioSinkChanged" =>
               SettledAtEnd(mainQ, r.queue[Audio] # <<>>, OfAudio({"QueueBuffer", "QueueEOS"}), OfAudio({"Flush"})),
           Audio \notin ended' => \/ Audio \notin ended /\ ~(m.what = "QueueEOS" /\ m.trk = Audio)
                                  \/ m.what = "Flush" /\ m.trk = Audio
    PROVE  Working'
<1>1. /\ mainQ \in Seq(MainMessage) /\ videoQ \in Seq(AnyMessage) /\ hand \in [AV -> Nat]
      /\ r.queue \in [AV -> Seq(Entry)] /\ r.queue[Audio] \in Seq(Entry)
      /\ r.paused \in BOOLEAN /\ resting \in BOOLEAN
  BY TypesOfParts
<1>2. /\ mainQ' \in Seq(MainMessage)
      /\ \A u : /\ HowMany(mainQ', "QueueBuffer", u) = HowMany(mainQ, "QueueBuffer", u) + Said(m, "QueueBuffer", u)
                /\ HowMany(mainQ', "Flush", u) = HowMany(mainQ, "Flush", u) + Said(m, "Flush", u)
                /\ HowMany(mainQ', "OutputBufferDrained", u) = HowMany(mainQ, "OutputBufferDrained", u)
                /\ HowMany(mainQ, "QueueBuffer", u) \in Nat /\ HowMany(mainQ, "Flush", u) \in Nat
                /\ HowMany(mainQ, "OutputBufferDrained", u) \in Nat
  BY <1>1, CallCounts
<1>3. \A what, u : Said(m, what, u) \in {0, 1}
  BY DEF Said
<1>4. Typed'
  BY <1>2 DEF Working, Steady, Typed, TypeOK, Running, Sound
<1>5. BufferInOneHand'
  <2> SUFFICES ASSUME NEW u \in AV
               PROVE  hand'[u] + HowMany(mainQ', "QueueBuffer", u) + Buffers(r.queue[u])
                         + HowMany(mainQ', "OutputBufferDrained", u) + HowMany(videoQ, "OutputBufferDrained", u)
                      = NumBuffers
    BY DEF BufferInOneHand
  <2> DEFINE h == hand[u] h2 == hand'[u]
             q == HowMany(mainQ, "QueueBuffer", u) q2 == HowMany(mainQ', "QueueBuffer", u)
             e == Buffers(r.queue[u])
             o == HowMany(mainQ, "OutputBufferDrained", u) o2 == HowMany(mainQ', "OutputBufferDrained", u)
             v == HowMany(videoQ, "OutputBufferDrained", u)
             s == Said(m, "QueueBuffer", u)
  <2>1. h + q + e + o + v = NumBuffers
    BY DEF Working, Steady, BufferInOneHand
  <2>2. h \in Nat /\ h2 \in Nat /\ e \in Nat /\ v \in Nat /\ NumBuffers \in Nat /\ s \in Nat
    <3>3. h \in Nat /\ h2 \in Nat
      BY <1>1
    <3>4. e \in Nat
      BY <1>1, BuffersType
    <3>5. s \in Nat
      BY <1>3
    <3>1. h \in Nat /\ h2 \in Nat /\ e \in Nat /\ s \in Nat
      BY <3>3, <3>4, <3>5
    <3>2. v \in Nat
      BY <1>1, HowManyType
    <3> QED
      BY <3>1, <3>2, RendererAssumption
  <2>3. h2 + s = h /\ q2 = q + s /\ o2 = o /\ q \in Nat /\ o \in Nat
    BY <1>2
  <2> HIDE DEF h, h2, q, q2, e, o, o2, v, s
  <2>4. h2 + q2 + e + o2 + v = NumBuffers
    BY <2>1, <2>2, <2>3
  <2> QED
    BY <2>4 DEF h2, q2, e, o2, v
<1>6. OneFlush'
  <2> SUFFICES ASSUME NEW u \in AV
               PROVE  HowMany(mainQ', "Flush", u) = IF u \in k.flushing THEN 1 ELSE 0
    BY DEF OneFlush
  <2>1. HowMany(mainQ, "Flush", u) = IF u \in r.flushing THEN 1 ELSE 0
    BY DEF Working, Steady, OneFlush
  <2>2. HowMany(mainQ', "Flush", u) = HowMany(mainQ, "Flush", u) + Said(m, "Flush", u)
    BY <1>2
  <2>3. Said(m, "Flush", u) \in {0, 1}
    BY <1>3
  <2>4. CASE Said(m, "Flush", u) = 1
    BY <2>1, <2>2, <2>4
  <2>5. CASE Said(m, "Flush", u) = 0
    BY <2>1, <2>2, <2>5
  <2> QED
    BY <2>3, <2>4, <2>5
<1>7. Pauses(mainQ', r.paused, resting')
  BY <1>1, CallSettlesPauses DEF Working, Steady
<1>8. Sinks(mainQ', r.queue[Audio])
  BY <1>1, CallSettlesSinks DEF Working, Steady
<1>9. Ends(mainQ', r.queue[Audio], ended')
  BY <1>1, CallSettlesEnds DEF Working, Steady
<1> QED
  BY <1>4, <1>5, <1>6, <1>7, <1>8, <1>9 DEF Working, Steady

LEMMA CallsAreCalls ==
    ASSUME NEW t \in AV
    PROVE  /\ Msg("renderer", "QueueBuffer", t, "-") \in Call /\ Msg("renderer", "QueueEOS", t, "eos") \in Call
           /\ Msg("renderer", "Flush", t, "-") \in Call
           /\ Msg("renderer", "Pause", "-", "-") \in Call /\ Msg("renderer", "Resume", "-", "-") \in Call
           /\ Msg("renderer", "AudioSinkChanged", "-", "-") \in Call
  BY DEF Msg, Call, AnyMessage, Handlers, Whats, Args

LEMMA QueueBufferKeeps == ASSUME NEW t \in AV PROVE Working /\ QueueBuffer(t) => Working'
<1> SUFFICES ASSUME Working, QueueBuffer(t) PROVE Working'
  OBVIOUS
<1> DEFINE m == Msg("renderer", "QueueBuffer", t, "-")
<1>1. /\ hand[t] > 0 /\ mainQ' = Append(mainQ, m) /\ videoQ' = videoQ /\ r' = r
      /\ hand' = [hand EXCEPT ![t] = @ - 1] /\ ended' = ended /\ resting' = resting /\ left' = left
  BY DEF QueueBuffer, Tells
<1>2. /\ hand \in [AV -> Nat] /\ ended \subseteq AV /\ resting \in BOOLEAN /\ left \in [Calls -> Nat]
      /\ Running(r) /\ r.failed = "none"
  BY TypesOfParts DEF Running
<1>3. m \in Call /\ m.what = "QueueBuffer" /\ m.trk = t
  BY CallsAreCalls DEF Msg
<1> HIDE DEF m
<1>4. /\ Said(m, "QueueBuffer", t) = 1 /\ \A u : u # t => Said(m, "QueueBuffer", u) = 0
      /\ \A u : Said(m, "Flush", u) = 0
  BY <1>3 DEF Said
<1>5. hand' \in [AV -> Nat] /\ \A u \in AV : hand'[u] + Said(m, "QueueBuffer", u) = hand[u]
  <2>1. hand' \in [AV -> Nat] /\ hand'[t] = hand[t] - 1 /\ \A u \in AV : u # t => hand'[u] = hand[u]
    BY <1>1, <1>2
  <2>2. ASSUME NEW u \in AV PROVE hand'[u] + Said(m, "QueueBuffer", u) = hand[u]
    <3>1. CASE u = t
      BY <1>2, <1>4, <2>1, <3>1
    <3>2. CASE u # t
      BY <1>2, <1>4, <2>1, <3>2
    <3> QED
      BY <3>1, <3>2
  <2> QED
    BY <2>1, <2>2
<1>6. \A u \in AV : u \in r.flushing <=> u \in r.flushing \/ Said(m, "Flush", u) = 1
  BY <1>4
<1> QED
  BY <1>1, <1>2, <1>3, <1>4, <1>5, <1>6, CallingKeeps

LEMMA QueueEOSKeeps == ASSUME NEW t \in AV PROVE Working /\ QueueEOS(t) => Working'
<1> SUFFICES ASSUME Working, QueueEOS(t) PROVE Working'
  OBVIOUS
<1> DEFINE m == Msg("renderer", "QueueEOS", t, "eos")
           k == SyncQueuesDone(r)
<1>1. /\ mainQ' = Append(mainQ, m) /\ videoQ' = videoQ /\ r' = k
      /\ ended' = ended \cup {t} /\ hand' = hand /\ resting' = resting /\ left' = left
  BY DEF QueueEOS, Tells
<1>2. /\ hand \in [AV -> Nat] /\ ended \subseteq AV /\ resting \in BOOLEAN /\ left \in [Calls -> Nat]
      /\ Running(r) /\ r.failed = "none"
  BY TypesOfParts DEF Running
<1>3. m \in Call /\ m.what = "QueueEOS" /\ m.trk = t
  BY CallsAreCalls DEF Msg
<1> HIDE DEF m
<1>4. \A u : Said(m, "QueueBuffer", u) = 0 /\ Said(m, "Flush", u) = 0
  BY <1>3 DEF Said
<1>5. Running(k) /\ k.failed = "none" /\ k.queue = r.queue /\ k.paused = r.paused /\ k.flushing = r.flushing
  BY <1>2, SyncQueuesDoneKeeps DEF Running, Posts
<1> HIDE DEF k
<1>6. /\ hand' \in [AV -> Nat] /\ ended' \subseteq AV
      /\ \A u \in AV : hand'[u] + Said(m, "QueueBuffer", u) = hand[u]
  BY <1>1, <1>2, <1>4
<1>7. Audio \notin ended' => Audio \notin ended /\ ~(m.what = "QueueEOS" /\ m.trk = Audio)
  BY <1>1, <1>3
<1>8. \A u \in AV : /\ u \in k.flushing <=> u \in r.flushing \/ Said(m, "Flush", u) = 1
                    /\ Said(m, "Flush", u) = 1 => u \notin r.flushing
  BY <1>4, <1>5
<1> QED
  BY <1>1, <1>2, <1>3, <1>5, <1>6, <1>7, <1>8, CallingKeeps

LEMMA FlushKeeps == ASSUME NEW t \in AV PROVE Working /\ Flush(t) => Working'
<1> SUFFICES ASSUME Working, Flush(t) PROVE Working'
  OBVIOUS
<1> DEFINE m == Msg("renderer", "Flush", t, "-")
           flushing == r.flushing \cup {t}
           k == [r EXCEPT !.flushing = @ \cup {t}]
<1>1. /\ t \notin r.flushing /\ mainQ' = Append(mainQ, m) /\ videoQ' = videoQ /\ r' = k
      /\ ended' = ended \ {t} /\ hand' = hand /\ resting' = resting /\ Spend("flush")
  BY DEF Flush, Tells
<1>2. /\ hand \in [AV -> Nat] /\ ended \subseteq AV /\ resting \in BOOLEAN
      /\ r \in Renderer /\ Drawn(r) /\ Timed(r) /\ \A u \in AV : Driven(r, u)
      /\ r.failed = "none"
  BY TypesOfParts DEF Sound
<1>3. m \in Call /\ m.what = "Flush" /\ m.trk = t
  BY CallsAreCalls DEF Msg
<1> HIDE DEF m
<1>4. /\ Said(m, "Flush", t) = 1 /\ \A u : u # t => Said(m, "Flush", u) = 0
      /\ \A u : Said(m, "QueueBuffer", u) = 0
  BY <1>3 DEF Said
<1>5. flushing \in SUBSET AV /\ k = [r EXCEPT !.flushing = flushing] /\ r.flushing \subseteq flushing
  BY <1>2, RendererFields DEF Renderer
<1> HIDE DEF k, flushing
<1>6. /\ k \in Renderer /\ k.pending = r.pending /\ k.posted = r.posted /\ k.queue = r.queue
      /\ k.flushing = flushing /\ k.has = r.has /\ k.failed = "none" /\ k.sync = r.sync
      /\ k.paused = r.paused /\ k.anchor = r.anchor /\ k.wasPaused = r.wasPaused
      /\ k.mute = r.mute
  BY <1>2, <1>5 DEF Renderer
<1>7. Drawn(k) /\ Timed(k) /\ \A u \in AV : Driven(k, u)
  BY <1>2, <1>5, <1>6 DEF Drawn, Timed, Driven
<1>8. Running(k)
  BY <1>6, <1>7 DEF Running, Sound
<1>9. /\ hand' \in [AV -> Nat] /\ ended' \subseteq AV
      /\ \A u \in AV : hand'[u] + Said(m, "QueueBuffer", u) = hand[u]
  BY <1>1, <1>2, <1>4
<1>10. left' \in [Calls -> Nat]
  BY <1>1, SpendingIsNatural DEF Calls
<1>11. Audio \notin ended' => (Audio \notin ended /\ ~(m.what = "QueueEOS" /\ m.trk = Audio))
                              \/ (m.what = "Flush" /\ m.trk = Audio)
  BY <1>1, <1>3
<1>12. \A u \in AV : /\ u \in k.flushing <=> u \in r.flushing \/ Said(m, "Flush", u) = 1
                     /\ Said(m, "Flush", u) = 1 => u \notin r.flushing
  <2> SUFFICES ASSUME NEW u \in AV
               PROVE  /\ u \in flushing <=> u \in r.flushing \/ Said(m, "Flush", u) = 1
                      /\ Said(m, "Flush", u) = 1 => u \notin r.flushing
    BY <1>6
  <2>1. CASE u = t
    BY <1>1, <1>4, <2>1 DEF flushing
  <2>2. CASE u # t
    BY <1>1, <1>4, <2>2 DEF flushing
  <2> QED
    BY <2>1, <2>2
<1> QED
  BY <1>1, <1>2, <1>3, <1>6, <1>8, <1>9, <1>10, <1>11, <1>12, CallingKeeps

LEMMA PauseKeeps == Working /\ Pause => Working'
<1> SUFFICES ASSUME Working, Pause PROVE Working'
  OBVIOUS
<1> DEFINE m == Msg("renderer", "Pause", "-", "-")
<1>1. /\ ~resting /\ resting' = TRUE /\ mainQ' = Append(mainQ, m) /\ videoQ' = videoQ /\ r' = r
      /\ ended' = ended /\ hand' = hand /\ Spend("pause")
  BY DEF Pause, Tells
<1>2. /\ hand \in [AV -> Nat] /\ ended \subseteq AV /\ Running(r) /\ r.failed = "none"
  BY TypesOfParts DEF Running
<1>3. m \in Call /\ m.what = "Pause"
  BY CallsAreCalls, TwoTracks DEF Msg
<1> HIDE DEF m
<1>4. \A u : Said(m, "Flush", u) = 0 /\ Said(m, "QueueBuffer", u) = 0
  BY <1>3 DEF Said
<1>5. left' \in [Calls -> Nat]
  BY <1>1, SpendingIsNatural DEF Calls
<1>6. \A u \in AV : hand'[u] + Said(m, "QueueBuffer", u) = hand[u]
  BY <1>1, <1>2, <1>4
<1>7. \A u \in AV : /\ u \in r.flushing <=> u \in r.flushing \/ Said(m, "Flush", u) = 1
                    /\ Said(m, "Flush", u) = 1 => u \notin r.flushing
  BY <1>4
<1>8. resting' \in BOOLEAN /\ (m.what = "Pause" => ~resting /\ resting')
  BY <1>1
<1> QED
  BY <1>1, <1>2, <1>3, <1>5, <1>6, <1>7, <1>8, CallingKeeps

LEMMA ResumeKeeps == Working /\ Resume => Working'
<1> SUFFICES ASSUME Working, Resume PROVE Working'
  OBVIOUS
<1> DEFINE m == Msg("renderer", "Resume", "-", "-")
<1>1. /\ resting' = FALSE /\ mainQ' = Append(mainQ, m) /\ videoQ' = videoQ /\ r' = r
      /\ ended' = ended /\ hand' = hand /\ left' = left
  BY DEF Resume, Tells
<1>2. /\ hand \in [AV -> Nat] /\ ended \subseteq AV /\ Running(r) /\ r.failed = "none"
      /\ left \in [Calls -> Nat]
  BY TypesOfParts DEF Running
<1>3. m \in Call /\ m.what = "Resume"
  BY CallsAreCalls, TwoTracks DEF Msg
<1> HIDE DEF m
<1>4. \A u : Said(m, "Flush", u) = 0 /\ Said(m, "QueueBuffer", u) = 0
  BY <1>3 DEF Said
<1>5. \A u \in AV : hand'[u] + Said(m, "QueueBuffer", u) = hand[u]
  BY <1>1, <1>2, <1>4
<1>6. \A u \in AV : /\ u \in r.flushing <=> u \in r.flushing \/ Said(m, "Flush", u) = 1
                    /\ Said(m, "Flush", u) = 1 => u \notin r.flushing
  BY <1>4
<1>7. resting' \in BOOLEAN /\ m.what \in {"Pause", "Resume"} /\ m.what # "Pause"
  BY <1>1, <1>3
<1> QED
  BY <1>1, <1>2, <1>3, <1>5, <1>6, <1>7, CallingKeeps

(* The codec has every buffer of the old format: none is queued, and none is on its  *)
(* way, so what the queue has or gets is the end, which is flushed.                *)
LEMMA SinkChangesWhenSettled ==
    ASSUME Working, hand[Audio] = NumBuffers, Audio \notin ended
    PROVE  SettledAtEnd(mainQ, r.queue[Audio] # <<>>, OfAudio({"QueueBuffer", "QueueEOS"}), OfAudio({"Flush"}))
<1> DEFINE q == r.queue[Audio]
           X == OfAudio({"QueueBuffer", "QueueEOS"})
           W == OfAudio({"QueueEOS"})
           Z == OfAudio({"Flush"})
<1>1. /\ mainQ \in Seq(AnyMessage) /\ videoQ \in Seq(AnyMessage) /\ q \in Seq(Entry) /\ Audio \in AV
  BY TypesOfParts, TwoTracks
<1>2. HowMany(mainQ, "QueueBuffer", Audio) = 0 /\ Buffers(q) = 0
  <2> DEFINE h == hand[Audio]
             s == HowMany(mainQ, "QueueBuffer", Audio)
             e == Buffers(q)
             o == HowMany(mainQ, "OutputBufferDrained", Audio)
             v == HowMany(videoQ, "OutputBufferDrained", Audio)
  <2>1. h + s + e + o + v = NumBuffers
    BY <1>1 DEF Working, Steady, BufferInOneHand
  <2>2. h = NumBuffers /\ h \in Nat /\ s \in Nat /\ e \in Nat /\ o \in Nat /\ v \in Nat
    BY <1>1, BuffersType, HowManyType, RendererAssumption
  <2> HIDE DEF h, s, e, o, v
  <2>3. s = 0 /\ e = 0
    BY <2>1, <2>2
  <2> QED
    BY <2>3 DEF s, e
<1>3. q # <<>> => HasEnd(q)
  <2>1. ASSUME q # <<>> PROVE HasEnd(q)
    <3>1. \A i \in 1 .. Len(q) : q[i] # "buffer"
      BY <1>1, <1>2, NoBuffers
    <3>2. 1 \in 1 .. Len(q)
      BY <1>1, <2>1, LenProperties, EmptySeq
    <3> QED
      BY <3>1, <3>2 DEF HasEnd
  <2> QED
    BY <2>1
<1>4. \A i \in 1 .. Len(mainQ) : mainQ[i] \in X => mainQ[i] \in W
  <2>1. \A i \in 1 .. Len(mainQ) : mainQ[i] \notin Of("QueueBuffer", Audio)
    <3>1. Hits(mainQ, Of("QueueBuffer", Audio)) = 0
      BY <1>1, <1>2, HowManyIsHits
    <3> QED
      BY <1>1, <3>1, HitsNone
  <2> QED
    BY <2>1 DEF OfAudio, Of
<1>5. SettledAtEnd(mainQ, HasEnd(q), W, Z)
  BY DEF Working, Steady, Ends
<1>6. Len(mainQ) \in Nat
  BY <1>1, LenProperties
<1> HIDE DEF X, W, Z, q
<1>7. SettledAtEnd(mainQ, q # <<>>, X, Z)
  BY <1>3, <1>4, <1>5, <1>6 DEF SettledAtEnd, Settled
<1> QED
  BY <1>7 DEF q, X, Z

LEMMA SignalAudioSinkChangedKeeps == Working /\ SignalAudioSinkChanged => Working'
<1> SUFFICES ASSUME Working, SignalAudioSinkChanged PROVE Working'
  OBVIOUS
<1> DEFINE m == Msg("renderer", "AudioSinkChanged", "-", "-")
<1>1. /\ hand[Audio] = NumBuffers /\ Audio \notin ended
      /\ mainQ' = Append(mainQ, m) /\ videoQ' = videoQ /\ r' = r /\ resting' = resting
      /\ ended' = ended /\ hand' = hand /\ Spend("sink")
  BY DEF SignalAudioSinkChanged, Tells
<1>2. /\ hand \in [AV -> Nat] /\ ended \subseteq AV /\ Running(r) /\ r.failed = "none"
      /\ resting \in BOOLEAN
  BY TypesOfParts DEF Running
<1>3. m \in Call /\ m.what = "AudioSinkChanged"
  BY CallsAreCalls, TwoTracks DEF Msg
<1> HIDE DEF m
<1>4. \A u : Said(m, "Flush", u) = 0 /\ Said(m, "QueueBuffer", u) = 0
  BY <1>3 DEF Said
<1>5. left' \in [Calls -> Nat]
  BY <1>1, SpendingIsNatural DEF Calls
<1>6. \A u \in AV : hand'[u] + Said(m, "QueueBuffer", u) = hand[u]
  BY <1>1, <1>2, <1>4
<1>7. \A u \in AV : /\ u \in r.flushing <=> u \in r.flushing \/ Said(m, "Flush", u) = 1
                    /\ Said(m, "Flush", u) = 1 => u \notin r.flushing
  BY <1>4
<1>8. SettledAtEnd(mainQ, r.queue[Audio] # <<>>, OfAudio({"QueueBuffer", "QueueEOS"}), OfAudio({"Flush"}))
  BY <1>1, SinkChangesWhenSettled
<1> QED
  BY <1>1, <1>2, <1>3, <1>5, <1>6, <1>7, <1>8, CallingKeeps

LEMMA SignalTimeDiscontinuityKeeps == Working /\ SignalTimeDiscontinuity => Working'
<1> SUFFICES ASSUME Working, SignalTimeDiscontinuity PROVE Working'
  OBVIOUS
<1> DEFINE sync == r.has = AV
           k == [r EXCEPT !.anchor = "none", !.wasPaused = FALSE, !.sync = sync]
<1>1. /\ \A t \in AV : r.queue[t] = <<>>
      /\ r' = k /\ mainQ' = mainQ /\ videoQ' = videoQ /\ resting' = resting
      /\ ended' = ended /\ hand' = hand /\ Spend("seek")
  BY DEF SignalTimeDiscontinuity, looperVars
<1>2. /\ r \in Renderer /\ Drawn(r) /\ Timed(r) /\ r.failed = "none" /\ r.pending \in SUBSET AV
  BY TypesOfParts, RendererFields DEF Sound
<1>3. left' \in [Calls -> Nat]
  BY <1>1, SpendingIsNatural DEF Calls
<1>4. sync \in BOOLEAN
  OBVIOUS
<1> HIDE DEF sync
<1>5. /\ k \in Renderer /\ k.pending = r.pending /\ k.posted = r.posted /\ k.queue = r.queue
      /\ k.flushing = r.flushing /\ k.has = r.has /\ k.failed = "none" /\ k.paused = r.paused
      /\ k.anchor = "none" /\ k.sync = sync
  BY <1>2, <1>4 DEF Renderer
<1> HIDE DEF k
<1>6. r.pending = {}
  BY <1>1, <1>2 DEF Drawn
<1>7. Drawn(k) /\ Timed(k) /\ \A u \in AV : Driven(k, u)
  BY <1>1, <1>2, <1>5, <1>6 DEF Drawn, Timed, Driven
<1>8. Running(k) /\ k.failed = "none"
  BY <1>5, <1>7 DEF Running, Sound
<1>9. Typed'
  BY <1>1, <1>3, <1>5 DEF Working, Steady, Typed, TypeOK
<1>10. BufferInOneHand' /\ OneFlush'
  BY <1>1, <1>5 DEF Working, Steady, BufferInOneHand, OneFlush
<1>11. Pauses(mainQ', k.paused, resting') /\ Sinks(mainQ', k.queue[Audio]) /\ Ends(mainQ', k.queue[Audio], ended')
  BY <1>1, <1>5 DEF Working, Steady
<1> QED
  BY <1>1, <1>8, <1>9, <1>10, <1>11 DEF Working, Steady

LEMMA SeekFlushesKeeps == Working /\ SeekFlushes => Working' /\ r'.queue = r.queue
<1> SUFFICES ASSUME Working, SeekFlushes PROVE Working' /\ r'.queue = r.queue
  OBVIOUS
<1> DEFINE m1 == Msg("renderer", "Flush", Video, "-")
           m2 == Msg("renderer", "Flush", Audio, "-")
           q == Append(mainQ, m1)
<1>1. PICK has \in SUBSET AV : r' = [r EXCEPT !.has = has, !.flushing = AV]
  BY DEF SeekFlushes
<1>2. /\ r.flushing = {} /\ mainQ' = mainQ \o <<m1, m2>> /\ videoQ' = videoQ /\ hand' = hand
      /\ ended' = {} /\ resting' = resting /\ Spend("seek")
  BY DEF SeekFlushes
<1> DEFINE k == [r EXCEPT !.has = has, !.flushing = AV]
<1>3. /\ mainQ \in Seq(MainMessage) /\ hand \in [AV -> Nat] /\ resting \in BOOLEAN
      /\ r \in Renderer /\ Drawn(r) /\ Timed(r) /\ \A u \in AV : Driven(r, u)
      /\ r.failed = "none" /\ r.paused \in BOOLEAN /\ r.queue[Audio] \in Seq(Entry)
  BY TypesOfParts DEF Sound
<1>4. /\ k \in Renderer /\ k.pending = r.pending /\ k.posted = r.posted /\ k.queue = r.queue
      /\ k.flushing = AV /\ k.failed = "none" /\ k.sync = r.sync
      /\ k.paused = r.paused /\ k.anchor = r.anchor /\ k.wasPaused = r.wasPaused
      /\ k.mute = r.mute
  BY <1>3 DEF Renderer
<1>5. r' = k
  BY <1>1
<1> HIDE DEF k
<1>6. Drawn(k) /\ Timed(k) /\ \A u \in AV : Driven(k, u)
  BY <1>3, <1>4, TwoTracks DEF Drawn, Timed, Driven
<1>7. Running(r') /\ r'.failed = "none"
  BY <1>4, <1>5, <1>6 DEF Running, Sound
<1>8. /\ m1 \in Call /\ m1.what = "Flush" /\ m1.trk = Video
      /\ m2 \in Call /\ m2.what = "Flush" /\ m2.trk = Audio
  BY TwoTracks, CallsAreCalls DEF Msg
<1> HIDE DEF m1, m2
<1>9. q \in Seq(MainMessage) /\ mainQ' = Append(q, m2)
  <2>1. q \in Seq(MainMessage)
    BY <1>3, <1>8, CallCounts
  <2>2. m1 \in MainMessage /\ m2 \in MainMessage
    BY <1>8 DEF MainMessage
  <2>3. mainQ \o <<m1, m2>> = Append(Append(mainQ, m1), m2)
    BY <1>3, <2>2, SMTT(20)
  <2> QED
    BY <1>2, <2>1, <2>3
<1> HIDE DEF q
<1>10. mainQ' \in Seq(MainMessage)
  BY <1>8, <1>9, CallCounts
<1>11. \A u : /\ Said(m1, "QueueBuffer", u) = 0 /\ Said(m2, "QueueBuffer", u) = 0
              /\ Said(m1, "Flush", u) = IF u = Video THEN 1 ELSE 0
              /\ Said(m2, "Flush", u) = IF u = Audio THEN 1 ELSE 0
  BY <1>8 DEF Said
<1>12. \A u \in AV : /\ HowMany(mainQ', "QueueBuffer", u) = HowMany(mainQ, "QueueBuffer", u)
                     /\ HowMany(mainQ', "Flush", u) = HowMany(mainQ, "Flush", u) + 1
                     /\ HowMany(mainQ', "OutputBufferDrained", u) = HowMany(mainQ, "OutputBufferDrained", u)
  <2> SUFFICES ASSUME NEW u \in AV
               PROVE  /\ HowMany(mainQ', "QueueBuffer", u) = HowMany(mainQ, "QueueBuffer", u)
                      /\ HowMany(mainQ', "Flush", u) = HowMany(mainQ, "Flush", u) + 1
                      /\ HowMany(mainQ', "OutputBufferDrained", u) = HowMany(mainQ, "OutputBufferDrained", u)
    OBVIOUS
  <2>1. /\ HowMany(q, "QueueBuffer", u) = HowMany(mainQ, "QueueBuffer", u) + Said(m1, "QueueBuffer", u)
        /\ HowMany(q, "Flush", u) = HowMany(mainQ, "Flush", u) + Said(m1, "Flush", u)
        /\ HowMany(q, "OutputBufferDrained", u) = HowMany(mainQ, "OutputBufferDrained", u)
        /\ HowMany(mainQ, "QueueBuffer", u) \in Nat /\ HowMany(mainQ, "Flush", u) \in Nat
    BY <1>3, <1>8, CallCounts DEF q
  <2>2. /\ HowMany(mainQ', "QueueBuffer", u) = HowMany(q, "QueueBuffer", u) + Said(m2, "QueueBuffer", u)
        /\ HowMany(mainQ', "Flush", u) = HowMany(q, "Flush", u) + Said(m2, "Flush", u)
        /\ HowMany(mainQ', "OutputBufferDrained", u) = HowMany(q, "OutputBufferDrained", u)
        /\ HowMany(q, "QueueBuffer", u) \in Nat /\ HowMany(q, "Flush", u) \in Nat
    BY <1>8, <1>9, CallCounts
  <2>3. /\ Said(m1, "QueueBuffer", u) = 0 /\ Said(m2, "QueueBuffer", u) = 0
        /\ \/ Said(m1, "Flush", u) = 1 /\ Said(m2, "Flush", u) = 0
           \/ Said(m1, "Flush", u) = 0 /\ Said(m2, "Flush", u) = 1
    <3>1. CASE u = Audio
      BY <1>11, <3>1, TwoTracks
    <3>2. CASE u = Video
      BY <1>11, <3>2, TwoTracks
    <3> QED
      BY <3>1, <3>2, TwoTracks
  <2> QED
    BY <2>1, <2>2, <2>3
<1>13. Typed'
  <2>1. left' \in [Calls -> Nat]
    BY <1>2, SpendingIsNatural DEF Calls
  <2> QED
    BY <1>2, <1>4, <1>5, <1>10, <2>1 DEF Working, Steady, Typed, TypeOK
<1>14. BufferInOneHand'
  BY <1>2, <1>4, <1>5, <1>12 DEF Working, Steady, BufferInOneHand
<1>15. OneFlush'
  <2>1. \A u \in AV : HowMany(mainQ, "Flush", u) = 0
    BY <1>2 DEF Working, Steady, OneFlush
  <2> QED
    BY <1>4, <1>5, <1>12, <2>1 DEF OneFlush
<1>16. Pauses(mainQ', r.paused, resting)
  <2>1. Pauses(q, r.paused, resting)
    BY <1>3, <1>8, CallSettlesPauses DEF Working, Steady, q
  <2> QED
    BY <1>3, <1>8, <1>9, <2>1, CallSettlesPauses
<1>17. Sinks(mainQ', r.queue[Audio])
  <2>1. Sinks(q, r.queue[Audio])
    BY <1>3, <1>8, CallSettlesSinks DEF Working, Steady, q
  <2> QED
    BY <1>3, <1>8, <1>9, <2>1, CallSettlesSinks
<1>18. Ends(mainQ', r.queue[Audio], {})
  <2>1. Ends(q, r.queue[Audio], ended)
    BY <1>3, <1>8, TwoTracks, CallSettlesEnds DEF Working, Steady, q
  <2> QED
    BY <1>3, <1>8, <1>9, <2>1, CallSettlesEnds
<1>19. Working'
  BY <1>2, <1>4, <1>5, <1>7, <1>13, <1>14, <1>15, <1>16, <1>17, <1>18 DEF Working, Steady
<1> QED
  BY <1>4, <1>5, <1>19

-----------------------------------------------------------------------------
(*                              The theorems                                *)

LEMMA InitIsSound == Init => IInv
<1> SUFFICES ASSUME Init PROVE IInv
  OBVIOUS
<1>1. /\ r = NewRenderer /\ hand = [t \in AV |-> NumBuffers] /\ ended = {} /\ resting = FALSE
      /\ left \in Limits /\ mainQ = <<>> /\ videoQ = <<>>
  BY DEF Init, LoopersInit
<1>2. /\ NumBuffers \in Nat /\ left \in [Calls -> Nat] /\ \A E : <<>> \in Seq(E)
  BY <1>1, RendererAssumption, EmptySeq
<1>3. /\ r.queue = [t \in AV |-> <<>>] /\ r.pending = {} /\ r.posted = [t \in AV |-> 0]
      /\ r.flushing = {} /\ r.has = {} /\ r.sync = FALSE /\ r.paused = FALSE /\ r.wasPaused = FALSE
      /\ r.anchor = "none" /\ r.failed = "none" /\ r.stale = [t \in AV |-> 0] /\ r.begun = FALSE
  BY <1>1 DEF NewRenderer
<1>4. r \in Renderer
  <2>1. <<>> \in Seq(Entry)
    BY <1>2
  <2> QED
    BY <1>1, <2>1 DEF NewRenderer, Renderer
<1>5. hand \in [AV -> Nat]
  BY <1>1, <1>2
<1>6. Typed
  BY <1>1, <1>2, <1>3, <1>4, <1>5 DEF Typed, TypeOK
<1>7. Drawn(r) /\ Timed(r) /\ \A t \in AV : Driven(r, t)
  <2>1. \A t \in AV : r.queue[t] = <<>> /\ r.posted[t] = 0
    BY <1>3
  <2>2. Len(r.queue[Video]) = 0
    BY <2>1, TwoTracks, EmptySeq
  <2> QED
    BY <1>3, <2>1, <2>2 DEF Drawn, Timed, Driven
<1>8. BufferInOneHand /\ OneFlush
  <2>1. \A what, u : HowMany(mainQ, what, u) = 0 /\ HowMany(videoQ, what, u) = 0
    BY <1>1, HowManyEmpty
  <2>2. \A u \in AV : Buffers(r.queue[u]) = 0 /\ hand[u] = NumBuffers
    BY <1>1, <1>3, BuffersOfFew
  <2> QED
    BY <1>2, <1>3, <2>1, <2>2 DEF BufferInOneHand, OneFlush
<1>9. r.queue[Audio] = <<>> /\ ~HasEnd(r.queue[Audio]) /\ Len(mainQ) = 0
  <2>1. r.queue[Audio] = <<>>
    BY <1>3, TwoTracks
  <2>2. ~HasEnd(<<>>)
    BY <1>2, EndsOfParts
  <2>3. Len(mainQ) = 0
    BY <1>1
  <2> QED
    BY <2>1, <2>2, <2>3
<1>10. \A X, Z : /\ SettledAtEnd(mainQ, FALSE, X, Z)
                 /\ \A Y : SettledAtAll(mainQ, FALSE, X, Z, Y)
  BY <1>9 DEF SettledAtEnd, SettledAtAll, Settled
<1>11. /\ Pauses(mainQ, r.paused, resting) /\ Sinks(mainQ, r.queue[Audio])
       /\ Ends(mainQ, r.queue[Audio], ended)
  <2> DEFINE b == r.queue[Audio] # <<>>
             c == HasEnd(r.queue[Audio])
  <2>1. b = FALSE /\ c = FALSE /\ r.paused = FALSE
    BY <1>3, <1>9 DEF HasEnd
  <2> HIDE DEF b, c
  <2>2. /\ \A X, Y, Z : SettledAtAll(mainQ, b, X, Z, Y) /\ SettledAtAll(mainQ, r.paused, X, Z, Y)
        /\ \A X, Z : SettledAtEnd(mainQ, c, X, Z) /\ SettledAtEnd(mainQ, r.paused, X, Z)
    BY <1>10, <2>1
  <2> QED
    BY <2>2 DEF Pauses, Sinks, Ends, b, c
<1> QED
  BY <1>3, <1>4, <1>6, <1>7, <1>8, <1>11 DEF IInv, Steady, Running, Sound

(* After a CHECK has failed nothing is heard but what was already said.             *)
LEMMA OnlyHearing == Next /\ r.failed # "none" => MainHeard \/ VideoHeard
  BY DEF Next, Handles, OnQueueBuffer, OnQueueEOS, OnFlush, OnPause, OnResume, OnAudioSinkChanged,
         Drains, DrainAudio, DrainAudioFails, DrainAudioEnd, DrainVideo, StaleDrain,
         PlayerCalls, QueueBuffer, QueueEOS, Flush, SignalTimeDiscontinuity, SeekFlushes, Pause, Resume,
         SignalAudioSinkChanged, Tells, Gives, Becomes

LEMMA StepIsSound == IInv /\ [Next]_rvars => IInv'
<1> SUFFICES ASSUME IInv, [Next]_rvars PROVE IInv'
  OBVIOUS
<1>1. Working' => IInv'
  BY DEF Working, IInv
<1>2. CASE MainHeard \/ VideoHeard
  BY <1>2, MainHeardKeeps, VideoHeardKeeps DEF IInv
<1>3. CASE Next /\ r.failed # "none"
  BY <1>2, <1>3, OnlyHearing
<1>4. CASE Next /\ r.failed = "none"
  <2>0. Working
    BY <1>4 DEF IInv, Working
  <2>1. CASE Handles
    BY <1>1, <1>2, <2>0, <2>1, OnQueueBufferKeeps, OnQueueEOSKeeps, OnFlushKeeps, OnPauseKeeps, OnResumeKeeps,
       OnAudioSinkChangedKeeps DEF Handles
  <2>2. CASE Drains
    BY <1>1, <2>0, <2>2, DrainAudioKeeps, DrainAudioFailsKeeps, DrainAudioEndKeeps, DrainVideoKeeps DEF Drains
  <2>3. CASE \E t \in AV : StaleDrain(t)
    BY <1>1, <2>0, <2>3, StaleDrainKeeps
  <2>4. CASE PlayerCalls
    BY <1>1, <2>0, <2>4, QueueBufferKeeps, QueueEOSKeeps, FlushKeeps, SignalTimeDiscontinuityKeeps,
       SeekFlushesKeeps, PauseKeeps, ResumeKeeps, SignalAudioSinkChangedKeeps DEF PlayerCalls
  <2> QED
    BY <1>2, <1>4, <2>1, <2>2, <2>3, <2>4 DEF Next
<1>5. CASE UNCHANGED rvars
  <2>1. /\ r' = r /\ hand' = hand /\ ended' = ended /\ resting' = resting /\ left' = left
        /\ mainQ' = mainQ /\ videoQ' = videoQ
    BY <1>5 DEF rvars, looperVars
  <2>2. Typed'
    BY <2>1 DEF IInv, Steady, Typed, TypeOK
  <2>3. BufferInOneHand' /\ OneFlush'
    BY <2>1 DEF IInv, Steady, BufferInOneHand, OneFlush
  <2> QED
    BY <2>1, <2>2, <2>3 DEF IInv, Steady
<1> QED
  BY <1>3, <1>4, <1>5

LEMMA AlwaysSound == Spec => []IInv
<1>1. Init => IInv
  BY InitIsSound
<1>2. IInv /\ [Next]_rvars => IInv'
  BY StepIsSound
<1> QED
  BY <1>1, <1>2, PTL DEF Spec

(* No CHECK of onPause and onAudioSinkChanged fails: a pause never finds the        *)
(* renderer paused, and the sink is never changed with a drain of it to come.        *)
THEOREM NoCheckFails == Spec => []NoFailedCheck
<1>1. IInv => NoFailedCheck
  BY DEF IInv, NoFailedCheck
<1> QED
  BY <1>1, AlwaysSound, PTL

(* A queue with something in it is never forgotten by the drain messages that        *)
(* postDrainXQueue posts, and never drained by two of them at once; the one queue     *)
(* without a drain is that of the audio, after onDrainAudioQueue has found the sink    *)
(* without a position, until postDrainAudioQueue is called again.                    *)
THEOREM DrainsArePosted == Spec => []DrainIsPosted
<1>1. IInv => DrainIsPosted
  BY DEF IInv, Steady, Running, Sound, Drawn, Driven, DrainIsPosted, Abandoned
<1> QED
  BY <1>1, AlwaysSound, PTL

(* Every output buffer is given back to its codec exactly once, whichever of         *)
(* onFlush, onQueueBuffer and the drains it leaves the renderer by.                  *)
THEOREM NoBufferIsLost == Spec => []NoBufferLost
<1>1. IInv => NoBufferLost
  BY DEF IInv, Steady, Typed, NoBufferLost
<1> QED
  BY <1>1, AlwaysSound, PTL

-----------------------------------------------------------------------------
(*                      Who takes a frame off the queue                     *)

GetsShorter == Len(r'.queue[Video]) < Len(r.queue[Video])

LEMMA Shortens ==
    ASSUME Working, VideoFrameDrained
    PROVE  GetsShorter
<1>1. r.queue[Video] \in Seq(Entry) /\ r.queue[Video] # <<>> /\ r'.queue[Video] = Tail(r.queue[Video])
  BY TypesOfParts DEF VideoFrameDrained
<1> QED
  BY <1>1, HeadTailProperties, LenProperties, EmptySeq DEF GetsShorter

LEMMA QueueSame == ASSUME r'.queue[Video] = r.queue[Video], Working PROVE ~GetsShorter
<1>1. Len(r.queue[Video]) \in Nat
  BY TypesOfParts, LenProperties
<1> QED
  BY <1>1 DEF GetsShorter

LEMMA GivesIsNext == \A k, rest, t, q : Gives(k, rest, t, q) => r' = k
  BY DEF Gives, Becomes

LEMMA OnQueueBufferTakesNone == Working /\ OnQueueBuffer => ~GetsShorter
<1> SUFFICES ASSUME Working, OnQueueBuffer PROVE ~GetsShorter
  OBVIOUS
<1> DEFINE t == Head(mainQ).trk
           known == Knowing(r, t)
           queued == Queued(known, t, "buffer")
           k == PostDrain(queued, t)
<1>1. /\ t \in AV
      /\ r' \in {known, k, SyncQueuesDone(k), [k EXCEPT !.queue[Audio] = Tail(@)]}
  BY DueIsCall, GivesIsNext DEF OnQueueBuffer, Knowing, Queued
<1>2. /\ Running(r) /\ r.queue \in [AV -> Seq(Entry)] /\ "buffer" \in Entry
  BY TypesOfParts DEF Running, Entry
<1>3. /\ Running(known) /\ known.queue = r.queue /\ known.has = r.has \cup {t}
  BY ZenonT(60), <1>1, <1>2, TrackKnown
<1> HIDE DEF known
<1>4. Running(k) /\ k.queue = [r.queue EXCEPT ![t] = Append(@, "buffer")]
  <2>1. t = Video => Video \in known.has
    BY <1>3
  <2>2. t \in AV /\ "buffer" \in Entry /\ Running(known)
    BY <1>1, <1>2, <1>3
  <2>5. k = PostDrain(Queued(known, t, "buffer"), t)
    OBVIOUS
  <2> HIDE DEF k, queued, t
  <2>3. Running(k) /\ k.queue = [known.queue EXCEPT ![t] = Append(@, "buffer")]
    BY <2>1, <2>2, <2>5, QueuedAndDriven
  <2>4. [known.queue EXCEPT ![t] = Append(@, "buffer")] = [r.queue EXCEPT ![t] = Append(@, "buffer")]
    BY <1>3
  <2> QED
    BY ZenonT(60), <2>3, <2>4
<1> HIDE DEF queued, k
<1>5. k \in Renderer /\ SyncQueuesDone(k).queue = k.queue
  BY <1>4, SyncQueuesDoneKeeps DEF Running, Sound, Posts
<1>6. [k EXCEPT !.queue[Audio] = Tail(@)].queue[Video] = k.queue[Video]
  BY <1>5, TwoTracks DEF Renderer
<1>7. r'.queue[Video] \in {r.queue[Video], k.queue[Video]}
  BY <1>1, <1>3, <1>5, <1>6
<1>8. k.queue[Video] \in {r.queue[Video], Append(r.queue[Video], "buffer")}
  BY <1>1, <1>2, <1>4, TwoTracks
<1>9. /\ Len(r.queue[Video]) \in Nat
      /\ Len(Append(r.queue[Video], "buffer")) = Len(r.queue[Video]) + 1
  BY <1>2, TwoTracks, LenProperties, AppendProperties
<1> QED
  BY <1>7, <1>8, <1>9 DEF GetsShorter

LEMMA OnQueueEOSTakesNone == Working /\ OnQueueEOS => ~GetsShorter
<1> SUFFICES ASSUME Working, OnQueueEOS PROVE ~GetsShorter
  OBVIOUS
<1> DEFINE t == Head(mainQ).trk
           k == PostDrain(Queued(r, t, "eos"), t)
<1>1. t \in AV /\ r' \in {r, k}
  BY DueIsCall, GivesIsNext DEF OnQueueEOS, Queued
<1>2. /\ Running(r) /\ r.queue \in [AV -> Seq(Entry)] /\ "eos" \in Entry
  BY TypesOfParts DEF Running, Entry
<1>3. k.queue = [r.queue EXCEPT ![t] = Append(@, "eos")]
  BY <1>1, <1>2, QueuedAndDriven
<1> HIDE DEF k
<1>4. r'.queue[Video] \in {r.queue[Video], Append(r.queue[Video], "eos")}
  BY <1>1, <1>2, <1>3, TwoTracks
<1>5. /\ Len(r.queue[Video]) \in Nat
      /\ Len(Append(r.queue[Video], "eos")) = Len(r.queue[Video]) + 1
  BY <1>2, TwoTracks, LenProperties, AppendProperties
<1> QED
  BY <1>4, <1>5 DEF GetsShorter

(* A flush of the video takes frames only while its flag is up.                     *)
LEMMA OnFlushTakesNone == Working /\ OnFlush /\ Video \notin r.flushing => ~GetsShorter
<1> SUFFICES ASSUME Working, OnFlush, Video \notin r.flushing PROVE ~GetsShorter
  OBVIOUS
<1> DEFINE t == Head(mainQ).trk
           s == SyncQueuesDone(r)
           e == [s EXCEPT !.queue[t] = <<>>, !.flushing = @ \ {t}, !.begun = @ /\ t # Audio]
           k == NewGeneration(e, t)
<1>1. mainQ # <<>> /\ t \in AV /\ Head(mainQ).what = "Flush" /\ r' = k
  BY DueIsCall, GivesIsNext DEF OnFlush
<1>2. /\ Sound(r) /\ r.queue \in [AV -> Seq(Entry)] /\ mainQ \in Seq(AnyMessage) /\ Video \in AV
  BY TypesOfParts, TwoTracks
<1>3. t # Video
  <2>1. HowMany(mainQ, "Flush", Video) = 0
    BY <1>2 DEF Working, Steady, OneFlush
  <2>2. ASSUME t = Video PROVE FALSE
    <3>1. /\ HowMany(mainQ, "Flush", Video) =
               (IF Head(mainQ).what = "Flush" /\ Head(mainQ).trk = Video THEN 1 ELSE 0)
                 + HowMany(Tail(mainQ), "Flush", Video)
          /\ HowMany(Tail(mainQ), "Flush", Video) \in Nat
      BY <1>1, <1>2, HowManyHead
    <3>2. HowMany(mainQ, "Flush", Video) = 1 + HowMany(Tail(mainQ), "Flush", Video)
      BY <1>1, <2>2, <3>1
    <3> QED
      BY <2>1, <3>1, <3>2
  <2> QED
    BY <2>2
<1>4. s \in Renderer /\ s.queue = r.queue
  BY <1>2, SyncQueuesDoneKeeps DEF Sound, Posts
<1> HIDE DEF s
<1>5. e \in Renderer /\ e.queue[Video] = r.queue[Video]
  <2> DEFINE queue == [s.queue EXCEPT ![t] = <<>>]
             flushing == s.flushing \ {t}
             begun == s.begun /\ t # Audio
  <2>1. e = [s EXCEPT !.queue = queue, !.flushing = flushing, !.begun = begun]
    BY <1>4 DEF Renderer
  <2>2. /\ queue \in [AV -> Seq(Entry)] /\ flushing \in SUBSET AV /\ begun \in BOOLEAN
        /\ queue[Video] = r.queue[Video]
    BY <1>1, <1>2, <1>3, <1>4, RendererFields, EmptySeq
  <2> HIDE DEF e, queue, flushing, begun
  <2> QED
    BY <1>4, <2>1, <2>2 DEF Renderer
<1> HIDE DEF e
<1>6. r'.queue[Video] = r.queue[Video]
  BY <1>1, <1>5, NewGenerationDoes
<1>7. Len(r.queue[Video]) \in Nat
  BY <1>2, LenProperties
<1> QED
  BY <1>6, <1>7 DEF GetsShorter

LEMMA HandlersTakeNone ==
    ASSUME Working, Video \notin r.flushing, Handles
    PROVE  ~GetsShorter
<1>1. r \in Renderer /\ Sound(r)
  BY TypesOfParts
<1>2. ASSUME OnPause PROVE r'.queue = r.queue
  <2> DEFINE a == NewGeneration(r, Audio)
             b == NewGeneration(a, Video)
  <2>1. a \in Renderer /\ a.queue = r.queue
    BY <1>1, TwoTracks, NewGenerationDoes
  <2> HIDE DEF a
  <2>2. b \in Renderer /\ b.queue = r.queue
    BY <2>1, TwoTracks, NewGenerationDoes
  <2> HIDE DEF b
  <2>3. r' \in {[r EXCEPT !.failed = "onPause"],
                [b EXCEPT !.paused = TRUE, !.wasPaused = TRUE, !.anchor = IF @ = "new" THEN "old" ELSE @]}
    BY <1>2, GivesIsNext DEF OnPause, a, b
  <2> QED
    BY <1>1, <2>2, <2>3 DEF Renderer
<1>3. ASSUME OnResume PROVE r'.queue = r.queue
  <2> DEFINE e == [r EXCEPT !.paused = FALSE]
             k == PostDrain(PostDrain(e, Audio), Video)
  <2>1. r' \in {r, k}
    BY <1>3, GivesIsNext DEF OnResume
  <2>2. e \in Renderer /\ e.queue = r.queue
    BY <1>1 DEF Renderer
  <2> HIDE DEF e
  <2>3. PostDrain(e, Audio) \in Renderer /\ PostDrain(e, Audio).queue = r.queue
    BY <2>2, TwoTracks, PostDrainDoes
  <2>4. k.queue = r.queue
    BY <2>3, TwoTracks, PostDrainDoes
  <2> QED
    BY <2>1, <2>4
<1>4. ASSUME OnAudioSinkChanged PROVE r'.queue = r.queue
  <2>1. r' \in {[r EXCEPT !.failed = "onAudioSinkChanged"], r}
    BY <1>4, GivesIsNext DEF OnAudioSinkChanged
  <2> QED
    BY <1>1, <2>1 DEF Renderer
<1>5. ASSUME MainHeard PROVE r'.queue = r.queue
  BY <1>5 DEF MainHeard
<1> QED
  BY <1>2, <1>3, <1>4, <1>5, OnQueueBufferTakesNone, OnQueueEOSTakesNone, OnFlushTakesNone, QueueSame
     DEF Handles

LEMMA DrainsTakeNone ==
    ASSUME Working, Drains \/ \E t \in AV : StaleDrain(t), ~DrainVideo
    PROVE  ~GetsShorter
<1>1. CASE \E n \in 0 .. NumBuffers, part \in BOOLEAN : DrainAudio(n, part)
  BY <1>1, DrainAudioKeeps, QueueSame
<1>2. CASE DrainAudioEnd
  BY <1>2, DrainAudioEndKeeps, QueueSame
<1>4. CASE DrainAudioFails
  BY <1>4, DrainAudioFailsKeeps, QueueSame
<1>3. CASE \E t \in AV : StaleDrain(t)
  BY <1>3, StaleDrainKeeps, QueueSame
<1> QED
  BY <1>1, <1>2, <1>3, <1>4 DEF Drains

LEMMA CallsTakeNone ==
    ASSUME Working, PlayerCalls \/ VideoHeard
    PROVE  ~GetsShorter
<1>1. r \in Renderer /\ Sound(r)
  BY TypesOfParts
<1>2. SyncQueuesDone(r).queue = r.queue
  BY <1>1, SyncQueuesDoneKeeps DEF Posts
<1>3. ASSUME NEW t \in AV, QueueBuffer(t) \/ QueueEOS(t) \/ Flush(t) PROVE r'.queue = r.queue
  <2>1. r' \in {r, SyncQueuesDone(r), [r EXCEPT !.flushing = @ \cup {t}]}
    BY <1>3 DEF QueueBuffer, QueueEOS, Flush
  <2> QED
    BY <1>1, <1>2, <2>1 DEF Renderer
<1>4. ASSUME SignalTimeDiscontinuity PROVE r'.queue = r.queue
  <2>1. r' = [r EXCEPT !.anchor = "none", !.wasPaused = FALSE, !.sync = r.has = AV]
    BY <1>4 DEF SignalTimeDiscontinuity
  <2> QED
    BY <1>1, <2>1 DEF Renderer
<1>5. ASSUME SeekFlushes PROVE r'.queue = r.queue
  BY <1>5, SeekFlushesKeeps
<1>6. ASSUME Pause \/ Resume \/ SignalAudioSinkChanged \/ VideoHeard PROVE r'.queue = r.queue
  BY <1>6 DEF Pause, Resume, SignalAudioSinkChanged, VideoHeard
<1> QED
  BY <1>3, <1>4, <1>5, <1>6, QueueSame DEF PlayerCalls

(* Without audio, a frame that onDrainVideoQueue takes, to be shown or dropped by     *)
(* the clock, is never timed by an anchor from before a pause.                       *)
THEOREM FramesAreTimedAfterPause == Spec => TimedAfterPause
<1>1. IInv /\ [Next]_rvars =>
        [VideoFrameDrained /\ Audio \notin r.has /\ Video \notin r.flushing => r.anchor # "old"]_rvars
  <2> SUFFICES ASSUME IInv, Next, VideoFrameDrained, Audio \notin r.has, Video \notin r.flushing
               PROVE  r.anchor # "old"
    OBVIOUS
  <2>0. Working
    <3>1. r' # r
      <4>1. r.queue[Video] \in Seq(Entry) /\ r.queue[Video] # <<>> /\ r'.queue[Video] = Tail(r.queue[Video])
        BY TypesOfState DEF IInv, VideoFrameDrained
      <4>2. \A q \in Seq(Entry) : q # <<>> => Tail(q) # q
        <5> SUFFICES ASSUME NEW q \in Seq(Entry), q # <<>> PROVE Tail(q) # q
          OBVIOUS
        <5>1. Len(q) \in Nat /\ Len(Tail(q)) = Len(q) - 1
          BY HeadTailProperties, LenProperties
        <5>2. \A n \in Nat : n # n - 1
          OBVIOUS
        <5> QED
          BY ZenonT(30), <5>1, <5>2
      <4> QED
        BY <4>1, <4>2
    <3>2. ~MainHeard /\ ~VideoHeard
      BY <3>1 DEF MainHeard, VideoHeard
    <3> QED
      BY <3>2, OnlyHearing DEF IInv, Working
  <2>1. GetsShorter
    BY <2>0, Shortens
  <2>2. DrainVideo
    BY <2>0, <2>1, HandlersTakeNone, DrainsTakeNone, CallsTakeNone DEF Next
  <2>3. Drawn(r) /\ Timed(r)
    BY <2>0, TypesOfParts DEF Sound
  <2>4. Video \in r.pending
    BY <2>2, <2>3, TwoTracks DEF DrainVideo, Falls, Drawn
  <2>5. Head(r.queue[Video]) = "buffer"
    BY DEF VideoFrameDrained
  <2> QED
    BY <2>3, <2>4, <2>5 DEF Timed
<1> QED
  BY <1>1, AlwaysSound, PTL DEF Spec, TimedAfterPause
=============================================================================
