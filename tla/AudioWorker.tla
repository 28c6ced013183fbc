---------------------------- MODULE AudioWorker ----------------------------
(***************************************************************************)
(* The AAC to Opus offload of one RTMP source: the nginx worker (the RTMP  *)
(* bridge's audio handler) and the transcoder thread, with the two queues  *)
(* between them under one lock.  Every step below is one critical section  *)
(* or one piece of work outside the lock, so the two may interleave        *)
(* wherever the code lets them.  Queue entries are represented by their    *)
(* sizes; that the byte arenas behind them are queues is ByteRing's part.  *)
(***************************************************************************)
EXTENDS Integers, Sequences, SequencesExt

CONSTANTS
    RingCap,      \* NGX_RTC_AUDIO_WORKER_RING_CAP
    Prefix,       \* bytes of an entry's length prefix
    AacMax,       \* NGX_RTC_AUDIO_AAC_MAX
    AacSizes,     \* sizes of the raw frames the publisher sends
    OpusMax,      \* NGX_RTC_AUDIO_OPUS_MAX_PACKET
    OpusSize,     \* size of an Opus frame
    FrameSize,    \* NGX_RTC_AUDIO_OPUS_FRAME_SIZE, samples
    FifoFrames,   \* NGX_RTC_AUDIO_FIFO_MAX_SAMPLES, in Opus frames
    Resampled,    \* samples at 48 kHz that one AAC frame becomes
    SeqSpace      \* 2^16 in the code

ASSUME AudioConstants ==
    /\ {RingCap, Prefix, AacMax, OpusMax, OpusSize, FrameSize, FifoFrames, Resampled, SeqSpace}
         \subseteq Nat \ {0}
    /\ AacSizes \subseteq 1..AacMax /\ OpusSize <= OpusMax

VARIABLES
    audio_ctx,  \* src->audio_ctx: does the source have a worker
    stop,       \* the worker's stop flag
    in,         \* raw AAC frames, worker -> thread
    out,        \* Opus frames, thread -> worker
    fifo,       \* samples in the encoder's FIFO
    swr,        \* samples held by the resampler
    thread,     \* where the transcoder thread is
    handler,    \* where the bridge's handler is, and the frame it carries
    audio_seq,  \* the source's next audio RTP sequence number
    audio_sent, \* history: the last audio sequence number sent, -1 for none
    overrun     \* history: a FIFO write was refused

audioVars == <<audio_ctx, stop, in, out, fifo, swr, thread, handler, audio_seq, audio_sent,
               overrun>>

queues  == <<in, out>>
codec   == <<fifo, swr, overrun>>
numbers == <<audio_seq, audio_sent>>

Idle == [at |-> "idle", size |-> 0]

(* Type correctness: the record of both threads' positions and of the queues. *)
AudioTypeOK ==
    /\ audio_ctx \in BOOLEAN /\ stop \in BOOLEAN /\ overrun \in BOOLEAN
    /\ in \in Seq(AacSizes) /\ out \in Seq({OpusSize})
    /\ fifo \in 0..(FifoFrames * FrameSize) /\ swr \in Nat
    /\ thread \in {"none", "check", "waiting", "work", "encode", "exited"}
    /\ handler \in [at : {"idle", "drain", "push", "join", "rejoin"}, size : {0} \cup AacSizes]
    /\ audio_seq \in 0..(SeqSpace - 1) /\ audio_sent \in -1..(SeqSpace - 1)

-----------------------------------------------------------------------------
(* The queues: arenas sized for RingCap entries of the largest size *)

Occupied(queue) == FoldSeq(LAMBDA size, sum : sum + Prefix + size, 0, queue)

HasRoom(queue, size, max) == Occupied(queue) + Prefix + size <= RingCap * (Prefix + max)

Queued(queue, size, max) == IF HasRoom(queue, size, max) THEN Append(queue, size) ELSE queue

(* Mutant: nobody is woken. *)
AsleepStill(t) == t

(* pthread_cond_signal and pthread_cond_broadcast: one thread ever waits. *)
Woken(t) == IF t = "waiting" THEN "check" ELSE t

-----------------------------------------------------------------------------
AudioInit == /\ audio_ctx = FALSE /\ stop = FALSE /\ in = <<>> /\ out = <<>>
             /\ fifo = 0 /\ swr = 0 /\ thread = "none" /\ handler = Idle
             /\ audio_seq = 0 /\ audio_sent = -1 /\ overrun = FALSE

(* The nginx worker *)

(* ngx_rtc_audio_worker_create: a fresh transcoder, empty queues, a thread. *)
Created(ok) ==
    /\ audio_ctx' = ok
    /\ thread' = IF ok THEN "check" ELSE "none"
    /\ stop' = FALSE /\ in' = <<>> /\ out' = <<>> /\ fifo' = 0 /\ swr' = 0

(* Mutant: the flag is set and nobody is told. *)
StopThreadQuiet(at) ==
    /\ stop' = TRUE
    /\ handler' = [Idle EXCEPT !.at = at]
    /\ UNCHANGED <<audio_ctx, thread, queues, codec>>

(* The first half of ngx_rtc_audio_worker_destroy, up to pthread_join. *)
StopThread(at) ==
    /\ stop' = TRUE
    /\ thread' = Woken(thread)
    /\ handler' = [Idle EXCEPT !.at = at]
    /\ UNCHANGED <<audio_ctx, queues, codec>>

(* An AAC sequence header: the audio RTP state restarts with the worker. *)
SequenceHeader(ok) ==
    /\ handler = Idle
    /\ \/ audio_ctx /\ StopThread("rejoin") /\ UNCHANGED numbers
       \/ /\ ~audio_ctx /\ Created(ok)
          /\ audio_seq' = 0
          /\ UNCHANGED <<handler, audio_sent, overrun>>

(* ngx_rtmp_rtc_release_publish *)
Release ==
    /\ handler = Idle /\ audio_ctx
    /\ StopThread("join")
    /\ UNCHANGED numbers

(* Mutant: the worker is freed without waiting for its thread. *)
JoinedNot == TRUE

(* pthread_join *)
Joined == thread = "exited"

(* A thread that has not ended would go on running. *)
Freed ==
    /\ audio_ctx' = FALSE
    /\ thread' = IF thread = "exited" THEN "none" ELSE thread
    /\ stop' = FALSE /\ in' = <<>> /\ out' = <<>> /\ fifo' = 0 /\ swr' = 0

(* The rest of ngx_rtc_audio_worker_destroy, and of its caller. *)
Destroyed(ok) ==
    /\ handler.at \in {"join", "rejoin"} /\ Joined
    /\ handler' = Idle
    /\ IF handler.at = "join"
       THEN Freed /\ UNCHANGED audio_seq
       ELSE Created(ok) /\ audio_seq' = 0
    /\ UNCHANGED <<audio_sent, overrun>>

(* A raw AAC frame; without a worker it is dropped. *)
RawFrame(size) ==
    /\ handler = Idle /\ audio_ctx
    /\ handler' = [at |-> "drain", size |-> size]
    /\ UNCHANGED <<audio_ctx, stop, queues, codec, thread, numbers>>

NextSeq(n) == (n + 1) % SeqSpace

(* One turn of ngx_rtc_audio_worker_drain with ngx_rtmp_rtc_audio_frame. *)
Drain ==
    /\ handler.at = "drain"
    /\ \/ /\ out # <<>>
          /\ out' = Tail(out)
          /\ audio_sent' = audio_seq /\ audio_seq' = NextSeq(audio_seq)
          /\ UNCHANGED handler
       \/ /\ out = <<>>
          /\ handler' = [handler EXCEPT !.at = "push"]
          /\ UNCHANGED <<out, numbers>>
    /\ UNCHANGED <<audio_ctx, stop, in, codec, thread>>

(* ngx_rtc_audio_worker_push; a frame that does not fit is dropped. *)
Push ==
    /\ handler.at = "push"
    /\ in' = Queued(in, handler.size, AacMax)
    /\ thread' = IF in' # in THEN Woken(thread) ELSE thread
    /\ handler' = Idle
    /\ UNCHANGED <<audio_ctx, stop, out, codec, numbers>>

-----------------------------------------------------------------------------
(* The transcoder thread *)

(* The critical section of ngx_rtc_audio_worker_main. *)
Check ==
    /\ thread = "check"
    /\ thread' = CASE stop              -> "exited"
                   [] ~stop /\ in = <<>> -> "waiting"
                   [] OTHER             -> "work"
    /\ in' = IF thread' = "work" THEN Tail(in) ELSE in
    /\ UNCHANGED <<audio_ctx, stop, out, codec, handler, numbers>>

(* pthread_cond_wait may also return on its own. *)
Spurious ==
    /\ thread = "waiting"
    /\ thread' = "check"
    /\ UNCHANGED <<audio_ctx, stop, queues, codec, handler, numbers>>

(* The resampler hands out at most an Opus frame's samples at a time, until *)
(* it holds less than one; each piece is written to the FIFO.               *)
Pieces(samples) == IF samples < FrameSize THEN 1 ELSE samples \div FrameSize

PieceSize(samples) == IF samples < FrameSize THEN samples ELSE FrameSize

(* Pieces the FIFO takes: a refused write ends the loop. *)
Written(samples) ==
    LET room == FifoFrames * FrameSize - fifo
        size == PieceSize(samples)
        fit  == IF size = 0 THEN 1 ELSE room \div size
    IN  IF fit < Pieces(samples) THEN fit ELSE Pieces(samples)

(* ngx_rtc_audio_transcode up to the encoder: decode, resample, write.  An  *)
(* undecodable frame, or a refused write, returns before the encoder runs.  *)
Transcode(decodes) ==
    LET samples == swr + Resampled
        n       == Written(samples)
        refused == n < Pieces(samples)
        taken   == IF refused THEN n + 1 ELSE n
    IN  /\ thread = "work"
        /\ \/ ~decodes /\ thread' = "check" /\ UNCHANGED codec
           \/ /\ decodes
              /\ fifo' = fifo + n * PieceSize(samples)
              /\ swr' = samples - taken * PieceSize(samples)
              /\ overrun' = (overrun \/ refused)
              /\ thread' = IF refused THEN "check" ELSE "encode"
        /\ UNCHANGED <<audio_ctx, stop, queues, handler, numbers>>

EncodeGoesOn == fifo' >= FrameSize

(* One turn of ngx_rtc_audio_encode with ngx_rtc_audio_worker_emit.         *)
Encode ==
    /\ thread = "encode"
    /\ IF fifo >= FrameSize
       THEN /\ fifo' = fifo - FrameSize
            /\ out' = Queued(out, OpusSize, OpusMax)
       ELSE UNCHANGED <<fifo, out>>
    /\ thread' = IF EncodeGoesOn THEN "encode" ELSE "check"
    /\ UNCHANGED <<audio_ctx, stop, in, swr, overrun, handler, numbers>>

-----------------------------------------------------------------------------
Handler == \/ Drain \/ Push
           \/ \E ok \in BOOLEAN : Destroyed(ok)

Publisher == \/ \E ok \in BOOLEAN : SequenceHeader(ok)
             \/ \E size \in AacSizes : RawFrame(size)
             \/ Release

Transcoder == \/ Check \/ Encode
              \/ \E decodes \in BOOLEAN : Transcode(decodes)

AudioNext == Handler \/ Publisher \/ Transcoder \/ Spurious

AudioSpec == AudioInit /\ [][AudioNext]_audioVars

(* A handler runs to completion and the kernel schedules the thread; the    *)
(* publisher may go silent and no wakeup is spurious for sure.              *)
AudioLiveSpec == AudioSpec /\ WF_audioVars(Handler) /\ WF_audioVars(Transcoder)

-----------------------------------------------------------------------------
(* Properties *)

(* The worker's memory is released only after its thread has ended: the     *)
(* thread never runs on a source that has no worker, or beside a new one.   *)
JoinedBeforeFree == ~audio_ctx => thread = "none"

(* The sample FIFO never overruns, so that no AAC frame is refused by the   *)
(* encoder side and every call leaves less than an Opus frame behind.       *)
FifoFits == ~overrun /\ (thread \in {"check", "waiting"} => fifo < FrameSize)

(* The input queue is never deeper than the frame count it was sized for.   *)
DepthBounded == Len(in) <= RingCap

(* No wakeup is lost: a queued frame is taken up, or the worker is stopped, *)
(* whatever the interleaving of push, drain and the thread's own loop.      *)
FramesTaken == in # <<>> ~> (thread = "work" \/ handler.at \in {"join", "rejoin"})

(* Tearing the worker down ends: pthread_join does not block the nginx      *)
(* event loop for good, wherever the thread was.                            *)
JoinReturns == handler.at \in {"join", "rejoin"} ~> handler.at \notin {"join", "rejoin"}

(* The audio sequence numbers a viewer is sent go forward in 16-bit serial  *)
(* arithmetic, across AAC sequence headers too.                             *)
AudioMonotonic ==
    [][audio_sent # -1 /\ audio_sent' # audio_sent =>
         (audio_sent' - audio_sent) % SeqSpace < SeqSpace \div 2]_audioVars
=============================================================================
