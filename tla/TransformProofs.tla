--------------------------- MODULE TransformProofs --------------------------
(***************************************************************************)
(* Proofs about SecureTransform, for any participants, entities, key       *)
(* materials, limits and bounds, in four parts: what a call of an encoder  *)
(* does, and that no session key protects more messages than its limit;    *)
(* the arithmetic of SecureLayout, for every length and number of          *)
(* receivers, that no test of a few sizes settles; samples read through a  *)
(* thunk are what write() was called with, buffers are long enough and     *)
(* submessages reach the entities they are for; types, receiver MACs, and  *)
(* that what is accepted is genuine.                                       *)
(***************************************************************************)
EXTENDS SecureTransform, NumberProofs, FiniteSetTheorems, TLAPS

-----------------------------------------------------------------------------
(* What a step does, without the arithmetic of its buffers.                *)

\* What Protect sends.
SealedBody(s) ==
    Cells(Kinds[s][1], Rotated(s, 1).SessionKey, Drawn(Rotated(s, 1)), << <<s, drawn + 1>> >>)
SealedMac(s) ==
    MacOf(Kinds[s][1], Rotated(s, 1).SessionKey, Drawn(Rotated(s, 1)), SealedBody(s))
KeysAfter(s, list) ==
    SpecificAfter(engine[ProcessOf(s)], s, Kinds[s][1], list, Rotated(s, 1), Rotates(s, 1))
MacsFor(s, list) ==
    {[id  |-> SpecificId(s, r),
      mac |-> SpecificMac(Kinds[s][1], KeysAfter(s, list)[<<s, r>>].SessionKey,
                          Drawn(Rotated(s, 1)), SealedMac(s))] : r \in Addressed(s, list)}
SealedMessage(s, level, list, subs) ==
    Message(s, level, 1, Rotated(s, 1), Drawn(Rotated(s, 1)), PlainLength(subs), subs,
            Copied(engine[ProcessOf(s)], Kinds[s][1], SealedBody(s)), SealedMac(s),
            MacsFor(s, list), << <<s, drawn + 1>> >>, Addressed(s, list), 0, TRUE)

\* The session's turn that every encoder begins with.
Turned(s, i) ==
    /\ Free(s)
    /\ sessions' = [sessions EXCEPT ![s][i] = Rotated(s, i)]
    /\ drawn' = drawn + 1

Sealed(s, level, list, subs) ==
    /\ specific' = KeysAfter(s, list)
    /\ engine' = [engine EXCEPT ![ProcessOf(s)] =
                     Hooked(engine[ProcessOf(s)], Kinds[s][1], SealedBody(s),
                            Cardinality(Refreshed(s, list, Rotated(s, 1), Rotates(s, 1))))]
    /\ network' = network \cup {SealedMessage(s, level, list, subs)}
    /\ UNCHANGED <<refused, exchange, job, memory, history>>

\* The buffer of a submessage or an RTPS message.
MessageBuffer(s, subs) == PlainLength(subs) + Extra(67, Cardinality(Peers(s)))

NotSealed(s, level, list, subs) ==
    /\ ~MessageFits(Kinds[s][1], PlainLength(subs), Cardinality(Addressed(s, list)),
                    MessageBuffer(s, subs))
    /\ refused' = refused \cup {<<s, level, PlainLength(subs)>>}
    /\ UNCHANGED <<specific, engine, network, exchange, job, memory, history>>

\* The three encoders of messages are Protect under the first key.
LEMMA EncodeStep ==
  ASSUME NEW s \in Senders, Encode(s)
  PROVE  \E level \in {"writer", "reader", "rtps"}, list \in SUBSET Peers(s), subs \in Bodies :
            /\ level = "writer" => s \in Writers
            /\ level = "reader" => s \in Readers
            /\ level = "rtps" => s \in Participants
            /\ Turned(s, 1)
            /\ Sealed(s, level, list, subs) \/ NotSealed(s, level, list, subs)
<1>1. PICK list \in SUBSET Peers(s), subs \in Bodies :
        \/ s \in Writers /\ encode_datawriter_submessage(s, list, subs)
        \/ s \in Readers /\ encode_datareader_submessage(s, list, subs)
        \/ s \in Participants /\ encode_rtps_message(s, list, subs)
  BY DEF Encode
<1>2. ASSUME NEW level, Protect(s, level, list, subs, MessageBuffer(s, subs)), Free(s)
      PROVE  Turned(s, 1) /\ (Sealed(s, level, list, subs) \/ NotSealed(s, level, list, subs))
  BY <1>2 DEF Protect, Turned, Sealed, NotSealed, SealedMessage, SealedBody, SealedMac,
              KeysAfter, MacsFor
<1>3. /\ PlainLength(subs) + calculate_extra_size_for_rtps_submessage(Cardinality(Peers(s)))
            = MessageBuffer(s, subs)
      /\ PlainLength(subs) + calculate_extra_size_for_rtps_message(Cardinality(Peers(s)))
            = MessageBuffer(s, subs)
  <2>1. PrefixLength + HeaderLength + 7 + 16 + PrefixLength + 16 = 67
    BY DEF PrefixLength, HeaderLength
  <2> QED BY <2>1 DEF calculate_extra_size_for_rtps_submessage,
                      calculate_extra_size_for_rtps_message, MessageBuffer
<1>4. CASE s \in Writers /\ encode_datawriter_submessage(s, list, subs)
  <2>1. Protect(s, "writer", list, subs, MessageBuffer(s, subs)) /\ Free(s)
    BY <1>3, <1>4 DEF encode_datawriter_submessage
  <2> QED BY <1>2, <1>4, <2>1
<1>5. CASE s \in Readers /\ encode_datareader_submessage(s, list, subs)
  <2>1. Protect(s, "reader", list, subs, MessageBuffer(s, subs)) /\ Free(s)
    BY <1>3, <1>5 DEF encode_datareader_submessage
  <2> QED BY <1>2, <1>5, <2>1
<1>6. CASE s \in Participants /\ encode_rtps_message(s, list, subs)
  <2>1. Protect(s, "rtps", list, subs, MessageBuffer(s, subs)) /\ Free(s)
    BY <1>3, <1>6 DEF encode_rtps_message
  <2> QED BY <1>2, <1>6, <2>1
<1> QED BY <1>1, <1>4, <1>5, <1>6

\* What encode_serialized_payload sends of a conventional payload.
PayloadBody(w) ==
    Cells(Kinds[w][Last(w)], Rotated(w, Last(w)).SessionKey, Drawn(Rotated(w, Last(w))),
          << <<w, drawn + 1>> >>)
PayloadMessage(w, n) ==
    Message(w, "payload", Last(w), Rotated(w, Last(w)), Drawn(Rotated(w, Last(w))), n, << >>,
            Copied(engine[Home[w]], Kinds[w][Last(w)], PayloadBody(w)),
            MacOf(Kinds[w][Last(w)], Rotated(w, Last(w)).SessionKey,
                  Drawn(Rotated(w, Last(w))), PayloadBody(w)),
            {}, << <<w, drawn + 1>> >>, {}, 0, TRUE)
PayloadBuffer(w, n) == n + calculate_extra_size_for_encoded_payload(Cardinality(Peers(w)))

PayloadSealed(w, n) ==
    /\ engine' = [engine EXCEPT ![Home[w]] =
                     Hooked(engine[Home[w]], Kinds[w][Last(w)], PayloadBody(w), 0)]
    /\ network' = network \cup {PayloadMessage(w, n)}
    /\ UNCHANGED <<refused, specific, exchange, job, memory, history>>
PayloadNotSealed(w, n) ==
    /\ ~PayloadFits(Kinds[w][Last(w)], n, PayloadBuffer(w, n))
    /\ refused' = refused \cup {<<w, "payload", n>>}
    /\ UNCHANGED <<specific, engine, network, exchange, job, memory, history>>

LEMMA PayloadStep ==
  ASSUME NEW w \in Writers, NEW n, encode_serialized_payload(w, n)
  PROVE  /\ w \notin Thunked
         /\ Turned(w, Last(w))
         /\ PayloadSealed(w, n) \/ PayloadNotSealed(w, n)
BY DEF encode_serialized_payload, Turned, PayloadSealed, PayloadNotSealed, PayloadMessage,
       PayloadBody, PayloadBuffer

\* The fast path begins: a job, or none for want of room.
JobFor(w, by, thunk) ==
    [at |-> "init", by |-> by, ses |-> Rotated(w, Last(w)), iv |-> Drawn(Rotated(w, Last(w))),
     thunk |-> thunk, fused |-> FALSE, plain |-> << >>, body |-> << >>]
Begun(w, by, thunk) ==
    \/ /\ job' = [job EXCEPT ![w] = JobFor(w, by, thunk)]
       /\ UNCHANGED <<refused, specific, exchange, engine, memory, network>>
    \/ /\ PayloadEnd("aes256_gcm", thunk.n) >
              thunk.n + 24 + calculate_extra_size_for_encoded_payload(Cardinality(Peers(w)))
       /\ refused' = refused \cup {<<w, "payload", thunk.n>>}
       /\ UNCHANGED <<job, specific, exchange, engine, memory, network>>

LEMMA WriteStep ==
  ASSUME NEW w \in Writers, Write(w)
  PROVE  /\ w \in Thunked /\ memory[w].version > 0
         /\ Turned(w, Last(w)) /\ Begun(w, "app", memory[w])
         /\ history' = [history EXCEPT ![w] = memory[w]]
BY DEF Write, BeginJob, Turned, Begun, JobFor

LEMMA ResendStep ==
  ASSUME NEW w \in Writers, Resend(w)
  PROVE  /\ w \in Thunked
         /\ Turned(w, Last(w)) /\ Begun(w, "event", history[w])
         /\ UNCHANGED history
BY DEF Resend, BeginJob, Turned, Begun, JobFor

\* What the fast path sends when it is through.
JobMessage(w) ==
    Message(w, "payload", Last(w), job[w].ses, job[w].iv, job[w].thunk.n, << >>, job[w].body,
            EngineTag(engine[Home[w]]), {}, job[w].plain, {}, job[w].thunk.version,
            job[w].by = "app")
Closed(w) ==
    /\ job[w].at = "final"
    /\ network' = network \cup {JobMessage(w)}
    /\ engine' = [engine EXCEPT ![Home[w]].on = FALSE]
    /\ job' = [job EXCEPT ![w] = NoJob]
    /\ UNCHANGED <<sessions, specific, exchange, memory, history, refused, drawn>>

LEMMA FinalizeStep ==
  ASSUME NEW w \in Writers, fuse_finalize_enc(w)
  PROVE  Closed(w)
BY DEF fuse_finalize_enc, Closed, JobMessage

\* Every step is one of these.
LEMMA NextCases ==
  ASSUME Next
  PROVE  \/ \E s \in Senders : Encode(s)
         \/ \E w \in Writers, n \in PayloadSizes : encode_serialized_payload(w, n)
         \/ \E w \in Thunked, n \in PayloadSizes : Update(w, n)
         \/ \E w \in Thunked : Write(w)
         \/ \E w \in Thunked : Resend(w)
         \/ \E w \in Thunked : fuse_init(w)
         \/ \E w \in Thunked : serialize_memcpy(w)
         \/ \E w \in Thunked : fuse_finalize_enc(w)
         \/ \E x \in Pairs : RegisterRemote(x)
         \/ \E x \in Pairs : TokenArrives(x)
         \/ UNCHANGED vars
BY DEF Next, FastPath, Finished

-----------------------------------------------------------------------------
(* Sessions and jobs are what they are declared to be.                     *)

IsSession(ses) ==
    ses = [session_id |-> ses.session_id, session_block_counter |-> ses.session_block_counter,
           SessionKey |-> ses.SessionKey]

\* A counter is below its session's limit or at it, and a session that still
\* has room has the key of its id.
SessionOK(ses, s, i) ==
    /\ IsSession(ses)
    /\ ses.session_id \in Nat
    /\ ses.session_block_counter \in 0..BlockLimit
    /\ ses.session_block_counter < max_blocks_per_session =>
           ses.SessionKey = compute_sessionkey(Kinds[s][i], <<s, i>>, ses.session_id)

\* The session a message goes out in.
InUse(ses, s, i) ==
    /\ SessionOK(ses, s, i)
    /\ ses.session_block_counter >= 1
    /\ ses.SessionKey = compute_sessionkey(Kinds[s][i], <<s, i>>, ses.session_id)

ISessions ==
    /\ DOMAIN sessions = Senders
    /\ sessions = [s \in Senders |-> sessions[s]]
    /\ \A s \in Senders :
          /\ sessions[s] = [i \in DOMAIN Kinds[s] |-> sessions[s][i]]
          /\ \A i \in DOMAIN Kinds[s] : SessionOK(sessions[s][i], s, i)

IsJob(j) ==
    j = [at |-> j.at, by |-> j.by, ses |-> j.ses, iv |-> j.iv, thunk |-> j.thunk,
         fused |-> j.fused, plain |-> j.plain, body |-> j.body]

\* An open job is well formed, and its session is still its writer's.
JobOK(w) ==
    job[w] = NoJob \/ /\ IsJob(job[w])
                      /\ job[w].at \in {"init", "copy", "final"}
                      /\ job[w].ses = sessions[w][Last(w)]
                      /\ InUse(job[w].ses, w, Last(w))

IJobs == job = [w \in Writers |-> job[w]] /\ \A w \in Writers : JobOK(w)

\* Every sender has a first and a last key material.
LEMMA FirstAndLast ==
  ASSUME NEW s \in Senders
  PROVE  1 \in DOMAIN Kinds[s] /\ Last(s) \in DOMAIN Kinds[s]
<1>1. Kinds[s] \in Seq(TransformationKinds) /\ Kinds[s] # << >>
  BY TransformAssumption
<1>2. DOMAIN Kinds[s] = 1..Len(Kinds[s]) /\ Len(Kinds[s]) \in Nat /\ Len(Kinds[s]) # 0
  BY <1>1
<1> QED BY <1>2 DEF Last

LEMMA Limits ==
  max_blocks_per_session \in Nat /\ BlockLimit \in Nat /\ BlockLimit >= 1
      /\ BlockLimit >= max_blocks_per_session
BY TransformAssumption DEF BlockLimit

\* What rotation makes of a session.
LEMMA RotatedInUse ==
  ASSUME NEW s \in Senders, NEW i \in DOMAIN Kinds[s], SessionOK(sessions[s][i], s, i)
  PROVE  /\ InUse(Rotated(s, i), s, i)
         /\ Rotates(s, i) =>
                /\ Rotated(s, i).session_id = sessions[s][i].session_id + 1
                /\ Rotated(s, i).session_block_counter = 1
         /\ ~Rotates(s, i) =>
                /\ Rotated(s, i).session_id = sessions[s][i].session_id
                /\ Rotated(s, i).session_block_counter
                       = sessions[s][i].session_block_counter + 1
<1> DEFINE ses == sessions[s][i]
<1>1. CASE Rotates(s, i)
  <2>1. Rotated(s, i) =
          [session_id |-> ses.session_id + 1, session_block_counter |-> 1,
           SessionKey |-> compute_sessionkey(Kinds[s][i], <<s, i>>, ses.session_id + 1)]
    BY <1>1 DEF Rotated
  <2> QED BY <1>1, <2>1, Limits DEF InUse, SessionOK, IsSession
<1>2. CASE ~Rotates(s, i)
  <2>1. Rotated(s, i) = [ses EXCEPT !.session_block_counter = @ + 1]
    BY <1>2 DEF Rotated
  <2>2. ses.session_block_counter < max_blocks_per_session
    BY <1>2, Limits DEF Rotates, SessionOK
  <2>3. Rotated(s, i) =
          [session_id |-> ses.session_id,
           session_block_counter |-> ses.session_block_counter + 1,
           SessionKey |-> ses.SessionKey]
    BY <2>1 DEF SessionOK, IsSession
  <2> QED BY <1>2, <2>2, <2>3, Limits DEF InUse, SessionOK, IsSession
<1> QED BY <1>1, <1>2

\* A turn touches one session.
LEMMA TurnedSessions ==
  ASSUME ISessions, NEW s \in Senders, NEW i \in DOMAIN Kinds[s], Turned(s, i)
  PROVE  /\ ISessions'
         /\ sessions'[s][i] = Rotated(s, i)
         /\ InUse(Rotated(s, i), s, i)
         /\ \A t \in Senders : \A j \in DOMAIN Kinds[t] :
               <<t, j>> # <<s, i>> => sessions'[t][j] = sessions[t][j]
<1>1. InUse(Rotated(s, i), s, i)
  BY RotatedInUse DEF ISessions
<1>2. /\ sessions' = [t \in Senders |-> IF t = s THEN [sessions[s] EXCEPT ![i] = Rotated(s, i)]
                                        ELSE sessions[t]]
  BY DEF ISessions, Turned
<1>3. sessions'[s] = [j \in DOMAIN Kinds[s] |-> IF j = i THEN Rotated(s, i)
                                                ELSE sessions[s][j]]
  BY <1>2 DEF ISessions
<1>4. \A t \in Senders : t # s => sessions'[t] = sessions[t]
  BY <1>2
<1>5. ASSUME NEW t \in Senders
      PROVE  /\ sessions'[t] = [j \in DOMAIN Kinds[t] |-> sessions'[t][j]]
             /\ \A j \in DOMAIN Kinds[t] : SessionOK(sessions'[t][j], t, j)
             /\ \A j \in DOMAIN Kinds[t] :
                   <<t, j>> # <<s, i>> => sessions'[t][j] = sessions[t][j]
  <2>1. CASE t = s
    BY <1>1, <1>3, <2>1 DEF ISessions, InUse
  <2>2. CASE t # s
    BY <1>4, <2>2 DEF ISessions
  <2> QED BY <2>1, <2>2
<1>6. sessions' = [t \in Senders |-> sessions'[t]] /\ DOMAIN sessions' = Senders
  BY <1>2
<1>7. sessions'[s][i] = Rotated(s, i)
  BY <1>3
<1>8. ISessions'
  BY <1>5, <1>6 DEF ISessions, SessionOK, IsSession
<1> QED BY <1>1, <1>5, <1>7, <1>8

\* A job is left alone by a turn of another key or of another sender.
LEMMA JobKept ==
  ASSUME NEW w \in Writers, JobOK(w), job'[w] = job[w],
         sessions'[w][Last(w)] = sessions[w][Last(w)] \/ job[w] = NoJob
  PROVE  JobOK(w)'
BY DEF JobOK, InUse, SessionOK, IsSession, IsJob, NoJob, BlockLimit, compute_sessionkey, KeyLength,
       Last

\* A turn leaves all jobs as they are: no job of its sender is open.
LEMMA TurnedJobs ==
  ASSUME ISessions, IJobs, NEW s \in Senders, NEW i \in DOMAIN Kinds[s], Turned(s, i),
         UNCHANGED job
  PROVE  IJobs'
<1>1. ASSUME NEW w \in Writers PROVE JobOK(w)'
  <2>1. w \in Senders /\ JobOK(w)
    BY DEF Senders, IJobs
  <2>2. CASE w = s
    <3>1. job[w] = NoJob
      BY <2>2 DEF Turned, Free
    <3> QED BY <2>1, <3>1, JobKept
  <2>3. CASE w # s
    <3>1. sessions'[w][Last(w)] = sessions[w][Last(w)]
      BY <2>1, <2>3, FirstAndLast, TurnedSessions
    <3> QED BY <2>1, <3>1, JobKept
  <2> QED BY <2>2, <2>3
<1> QED BY <1>1 DEF IJobs

\* The fast path's own steps.
LEMMA BegunJobs ==
  ASSUME ISessions, IJobs, NEW w \in Writers, NEW by, NEW thunk,
         Turned(w, Last(w)), Begun(w, by, thunk)
  PROVE  IJobs'
<1>0. w \in Senders /\ Last(w) \in DOMAIN Kinds[w]
  BY FirstAndLast DEF Senders
<1>1. CASE UNCHANGED job
  BY <1>0, <1>1, TurnedJobs
<1>2. CASE job' = [job EXCEPT ![w] = JobFor(w, by, thunk)]
  <2>1. job'[w] = JobFor(w, by, thunk) /\ \A v \in Writers : v # w => job'[v] = job[v]
    BY <1>2 DEF IJobs
  <2>2. sessions'[w][Last(w)] = Rotated(w, Last(w)) /\ InUse(Rotated(w, Last(w)), w, Last(w))
    BY <1>0, TurnedSessions
  <2>3. JobOK(w)'
    <3>1. JobFor(w, by, thunk).ses = Rotated(w, Last(w))
          /\ JobFor(w, by, thunk).at = "init" /\ IsJob(JobFor(w, by, thunk))
      BY DEF JobFor, IsJob
    <3> QED BY <2>1, <2>2, <3>1
            DEF JobOK, InUse, SessionOK, IsSession, IsJob, BlockLimit, compute_sessionkey,
                KeyLength, Last
  <2>4. ASSUME NEW v \in Writers, v # w PROVE JobOK(v)'
    <3>1. v \in Senders /\ JobOK(v)
      BY DEF Senders, IJobs
    <3>2. sessions'[v][Last(v)] = sessions[v][Last(v)]
      BY <1>0, <2>4, <3>1, FirstAndLast, TurnedSessions
    <3> QED BY <2>1, <2>4, <3>1, <3>2, JobKept
  <2>5. job' = [v \in Writers |-> job'[v]]
    BY <1>2 DEF IJobs
  <2> QED BY <2>3, <2>4, <2>5 DEF IJobs
<1> QED BY <1>1, <1>2 DEF Begun

LEMMA JobSteps ==
  ASSUME ISessions, IJobs, NEW w \in Writers,
         fuse_init(w) \/ serialize_memcpy(w) \/ Closed(w)
  PROVE  /\ IJobs' /\ UNCHANGED sessions
         /\ job[w] # NoJob /\ \A v \in Writers : v # w => job'[v] = job[v]
         /\ Closed(w) \/ job'[w] # NoJob
<1>1. UNCHANGED sessions /\ DOMAIN job = Writers /\ JobOK(w)
  BY DEF fuse_init, serialize_memcpy, Closed, IJobs
<1>2. job[w] # NoJob /\ IsJob(job[w])
  BY <1>1 DEF fuse_init, serialize_memcpy, Closed, JobOK, NoJob
<1>3. /\ job' = [v \in Writers |-> job'[v]]
      /\ \A v \in Writers : v # w => job'[v] = job[v]
  BY <1>1 DEF fuse_init, serialize_memcpy, Closed, IJobs
<1>4. ASSUME NEW v \in Writers, v # w PROVE JobOK(v)'
  BY <1>1, <1>3, <1>4, JobKept DEF IJobs
<1>5. JobOK(w)' /\ (Closed(w) \/ job'[w] # NoJob)
  <2>1. CASE fuse_init(w)
    <3>1. job'[w] = [job[w] EXCEPT !.at = "copy"]
      BY <1>1, <2>1 DEF fuse_init, IJobs
    <3>2. IsJob(job'[w]) /\ job'[w].at = "copy" /\ job'[w].ses = job[w].ses
      BY <1>2, <3>1 DEF IsJob
    <3> QED BY <1>1, <1>2, <3>2
            DEF JobOK, InUse, SessionOK, IsSession, IsJob, BlockLimit, compute_sessionkey,
                KeyLength, Last, NoJob
  <2>2. CASE serialize_memcpy(w)
    <3>1. PICK f, p, b :
            \E at \in {"copy", "final"} :
              job'[w] = [job[w] EXCEPT !.fused = f, !.plain = p, !.body = b, !.at = at]
      BY <1>1, <2>2 DEF serialize_memcpy, IJobs
    <3>2. PICK at \in {"copy", "final"} :
              job'[w] = [job[w] EXCEPT !.fused = f, !.plain = p, !.body = b, !.at = at]
      BY <3>1
    <3>3. IsJob(job'[w]) /\ job'[w].at \in {"copy", "final"} /\ job'[w].ses = job[w].ses
      BY <1>2, <3>2 DEF IsJob
    <3> QED BY <1>1, <1>2, <3>3
            DEF JobOK, InUse, SessionOK, IsSession, IsJob, BlockLimit, compute_sessionkey,
                KeyLength, Last, NoJob
  <2>3. CASE Closed(w)
    <3>1. job'[w] = NoJob
      BY <1>1, <2>3 DEF Closed, IJobs
    <3> QED BY <2>3, <3>1 DEF JobOK, NoJob
  <2> QED BY <2>1, <2>2, <2>3
<1> QED BY <1>1, <1>2, <1>3, <1>4, <1>5 DEF IJobs

LEMMA ThunkedAreWriters == \A w \in Thunked : w \in Writers /\ w \in Senders
BY TransformAssumption DEF Senders

\* Steps that have nothing to do with sessions and jobs.
LEMMA OtherSteps ==
  ASSUME \/ \E w \in Thunked, n \in PayloadSizes : Update(w, n)
         \/ \E x \in Pairs : RegisterRemote(x) \/ TokenArrives(x)
         \/ UNCHANGED vars
  PROVE  UNCHANGED <<sessions, specific, engine, job, history, network, refused, drawn>>
BY DEF Update, RegisterRemote, TokenArrives, vars

LEMMA JobsInit == ASSUME Init PROVE ISessions /\ IJobs
<1>1. \A s \in Senders : \A i \in DOMAIN Kinds[s] : sessions[s][i] = FreshSession
  BY DEF Init
<1>2. \A s \in Senders : \A i \in DOMAIN Kinds[s] : SessionOK(sessions[s][i], s, i)
  BY <1>1, Limits DEF SessionOK, IsSession, FreshSession
<1>3. ISessions
  BY <1>2 DEF ISessions, Init
<1>4. IJobs
  BY DEF IJobs, JobOK, Init
<1> QED BY <1>3, <1>4

LEMMA JobsUnchanged ==
  ASSUME ISessions, IJobs, UNCHANGED <<sessions, job>>
  PROVE  ISessions' /\ IJobs'
<1>1. ISessions'
  BY DEF ISessions, SessionOK, IsSession, BlockLimit, compute_sessionkey, KeyLength
<1>2. ASSUME NEW w \in Writers PROVE JobOK(w)'
  BY <1>2, JobKept DEF IJobs
<1> QED BY <1>1, <1>2 DEF IJobs

LEMMA JobsNext == ASSUME ISessions, IJobs, [Next]_vars PROVE ISessions' /\ IJobs'
<1>1. ASSUME NEW s \in Senders, Encode(s) PROVE ISessions' /\ IJobs'
  <2>1. Turned(s, 1) /\ UNCHANGED job
    BY <1>1, EncodeStep DEF Sealed, NotSealed
  <2> QED BY <2>1, FirstAndLast, TurnedSessions, TurnedJobs
<1>2. ASSUME NEW w \in Writers, NEW n \in PayloadSizes, encode_serialized_payload(w, n)
      PROVE  ISessions' /\ IJobs'
  <2>1. Turned(w, Last(w)) /\ UNCHANGED job /\ w \in Senders
    BY <1>2, PayloadStep DEF PayloadSealed, PayloadNotSealed, Senders
  <2> QED BY <2>1, FirstAndLast, TurnedSessions, TurnedJobs
<1>3. ASSUME NEW w \in Thunked, Write(w) \/ Resend(w) PROVE ISessions' /\ IJobs'
  <2>1. PICK by, thunk : Turned(w, Last(w)) /\ Begun(w, by, thunk)
    BY <1>3, ThunkedAreWriters, WriteStep, ResendStep
  <2> QED BY <2>1, ThunkedAreWriters, FirstAndLast, TurnedSessions, BegunJobs
<1>4. ASSUME NEW w \in Thunked, fuse_init(w) \/ serialize_memcpy(w) \/ fuse_finalize_enc(w)
      PROVE  ISessions' /\ IJobs'
  <2>1. IJobs' /\ UNCHANGED sessions
    BY <1>4, ThunkedAreWriters, FinalizeStep, JobSteps
  <2>2. ISessions'
    BY <2>1 DEF ISessions, SessionOK, IsSession, BlockLimit, compute_sessionkey, KeyLength
  <2> QED BY <2>1, <2>2
<1>5. CASE UNCHANGED <<sessions, job>>
  BY <1>5, JobsUnchanged
<1> QED BY <1>1, <1>2, <1>3, <1>4, <1>5, NextCases, OtherSteps DEF vars

-----------------------------------------------------------------------------
(* How many messages a session key protects.                               *)

Used(s, i, k) == {m \in network : m.key_id = <<s, i>> /\ m.session_id = k}

\* A message that is being made counts already.
Pending(s, i) == IF s \in Writers /\ i = Last(s) /\ job[s] # NoJob THEN 1 ELSE 0

Counted(s, i) ==
    /\ \A k \in Nat : /\ Used(s, i, k) # {} => k <= sessions[s][i].session_id
                      /\ Cardinality(Used(s, i, k)) <= BlockLimit
    /\ Cardinality(Used(s, i, sessions[s][i].session_id)) + Pending(s, i)
           <= sessions[s][i].session_block_counter

Numbered(m) ==
    /\ m.session_id \in Nat
    /\ \E s \in Senders : \E i \in DOMAIN Kinds[s] : m.key_id = <<s, i>>

ICounts ==
    /\ IsFiniteSet(network)
    /\ \A m \in network : Numbered(m)
    /\ \A s \in Senders : \A i \in DOMAIN Kinds[s] : Counted(s, i)

\* The sets of messages counted are finite.
LEMMA UsedFinite ==
  ASSUME IsFiniteSet(network), NEW s, NEW i, NEW k
  PROVE  IsFiniteSet(Used(s, i, k)) /\ Cardinality(Used(s, i, k)) \in Nat
<1>1. Used(s, i, k) \in SUBSET network
  BY DEF Used
<1> QED BY <1>1, FS_Subset, FS_CardinalityType

\* What another message adds to the count of its session, and to no other.
LEMMA UsedAfter ==
  ASSUME IsFiniteSet(network), NEW m, network' = network \cup {m}
  PROVE  /\ IsFiniteSet(network')
         /\ \A s, i, k :
               /\ m.key_id = <<s, i>> /\ m.session_id = k =>
                      Cardinality(Used(s, i, k)') <= Cardinality(Used(s, i, k)) + 1
               /\ ~(m.key_id = <<s, i>> /\ m.session_id = k) =>
                      Used(s, i, k)' = Used(s, i, k)
<1>1. IsFiniteSet(network')
  BY FS_AddElement
<1>2. ASSUME NEW s, NEW i, NEW k, m.key_id = <<s, i>>, m.session_id = k
      PROVE  Cardinality(Used(s, i, k)') <= Cardinality(Used(s, i, k)) + 1
  <2>1. Used(s, i, k)' = Used(s, i, k) \cup {m}
    BY <1>2 DEF Used
  <2>2. IsFiniteSet(Used(s, i, k)) /\ Cardinality(Used(s, i, k)) \in Nat
    BY UsedFinite
  <2>3. Cardinality(Used(s, i, k) \cup {m}) =
            IF m \in Used(s, i, k) THEN Cardinality(Used(s, i, k))
            ELSE Cardinality(Used(s, i, k)) + 1
    BY <2>2, FS_AddElement
  <2> QED BY <2>1, <2>2, <2>3
<1>3. ASSUME NEW s, NEW i, NEW k, ~(m.key_id = <<s, i>> /\ m.session_id = k)
      PROVE  Used(s, i, k)' = Used(s, i, k)
  BY <1>3 DEF Used
<1> QED BY <1>1, <1>2, <1>3

\* A session that has just turned has room for one more message: nobody has
\* used the new one, and in the old one the counter has been incremented.
LEMMA RoomAfterTurn ==
  ASSUME ISessions, ICounts, NEW s \in Senders, NEW i \in DOMAIN Kinds[s], Pending(s, i) = 0
  PROVE  /\ InUse(Rotated(s, i), s, i)
         /\ Cardinality(Used(s, i, Rotated(s, i).session_id)) + 1
                <= Rotated(s, i).session_block_counter
         /\ \A k \in Nat : Used(s, i, k) # {} => k <= Rotated(s, i).session_id
<1>1. Counted(s, i) /\ SessionOK(sessions[s][i], s, i) /\ IsFiniteSet(network)
  BY DEF ICounts, ISessions
<1>2. sessions[s][i].session_id \in Nat /\ sessions[s][i].session_block_counter \in Nat
  BY <1>1, Limits DEF SessionOK
<1>3. InUse(Rotated(s, i), s, i)
  BY <1>1, RotatedInUse
<1>4. CASE Rotates(s, i)
  <2>1. /\ Rotated(s, i).session_id = sessions[s][i].session_id + 1
        /\ Rotated(s, i).session_block_counter = 1
    BY <1>1, <1>4, RotatedInUse
  <2>2. \A k \in Nat : Used(s, i, k) # {} => k <= sessions[s][i].session_id
    BY <1>1 DEF Counted
  <2>3. sessions[s][i].session_id + 1 \in Nat
            /\ ~(sessions[s][i].session_id + 1 <= sessions[s][i].session_id)
    BY <1>2
  <2>4. Used(s, i, sessions[s][i].session_id + 1) = {}
    BY <2>2, <2>3
  <2>5. Cardinality(Used(s, i, Rotated(s, i).session_id)) = 0
    BY <2>1, <2>4, FS_EmptySet
  <2>6. \A k \in Nat : k <= sessions[s][i].session_id => k <= sessions[s][i].session_id + 1
    BY <1>2
  <2> QED BY <1>3, <2>1, <2>2, <2>5, <2>6
<1>5. CASE ~Rotates(s, i)
  <2>1. /\ Rotated(s, i).session_id = sessions[s][i].session_id
        /\ Rotated(s, i).session_block_counter = sessions[s][i].session_block_counter + 1
    BY <1>1, <1>5, RotatedInUse
  <2>2. Cardinality(Used(s, i, sessions[s][i].session_id)) + 0
            <= sessions[s][i].session_block_counter
    BY <1>1 DEF Counted
  <2>3. Cardinality(Used(s, i, sessions[s][i].session_id)) \in Nat
    BY <1>1, UsedFinite
  <2>4. \A k \in Nat : Used(s, i, k) # {} => k <= sessions[s][i].session_id
    BY <1>1 DEF Counted
  <2>5. Cardinality(Used(s, i, sessions[s][i].session_id)) + 1
            <= sessions[s][i].session_block_counter + 1
    BY <1>2, <2>2, <2>3
  <2> QED BY <1>3, <2>1, <2>4, <2>5
<1> QED BY <1>4, <1>5

\* A session that nothing has happened to.
LEMMA CountedKept ==
  ASSUME NEW s, NEW i, Counted(s, i), sessions'[s][i] = sessions[s][i],
         \A k : Used(s, i, k)' = Used(s, i, k), Pending(s, i)' = Pending(s, i)
  PROVE  Counted(s, i)'
BY DEF Counted, BlockLimit

\* Its count once one message has been added, at most.
LEMMA CountedAfter ==
  ASSUME NEW s \in Senders, NEW i \in DOMAIN Kinds[s], Counted(s, i),
         NEW ses, ses = sessions'[s][i], NEW id \in Nat, id = ses.session_id,
         NEW ctr \in 0..BlockLimit, ctr = ses.session_block_counter,
         IsFiniteSet(network'), NEW n \in Nat, Cardinality(Used(s, i, id)') <= n,
         n + Pending(s, i)' <= ctr,
         \A k \in Nat : Used(s, i, k) # {} => k <= id,
         \A k \in Nat : k # id => Used(s, i, k)' = Used(s, i, k)
  PROVE  Counted(s, i)'
<1>1. Pending(s, i)' \in {0, 1} /\ BlockLimit \in Nat
  BY Limits DEF Pending
<1>2. Cardinality(Used(s, i, id)') \in Nat
  <2>1. Used(s, i, id)' \in SUBSET network'
    BY DEF Used
  <2> QED BY <2>1, FS_Subset, FS_CardinalityType
<1>3. Cardinality(Used(s, i, id)') + Pending(s, i)' <= ctr
      /\ Cardinality(Used(s, i, id)') <= BlockLimit
  BY <1>1, <1>2
<1>4. ASSUME NEW k \in Nat
      PROVE  /\ Used(s, i, k)' # {} => k <= id
             /\ Cardinality(Used(s, i, k)') <= BlockLimit
  <2>1. CASE k = id
    BY <1>3, <2>1
  <2>2. CASE k # id
    BY <2>2 DEF Counted
  <2> QED BY <2>1, <2>2
<1>5. BlockLimit' = BlockLimit
  BY DEF BlockLimit
<1>6. Used(s, i, sessions[s][i].session_id)' = Used(s, i, id)'
  BY DEF Used
<1> QED BY <1>3, <1>4, <1>5, <1>6 DEF Counted

\* The turn of a session, and the message that goes out in it, if one does; or
\* the job that will send it.
LEMMA TurnedCounts ==
  ASSUME ISessions, ICounts, NEW s \in Senders, NEW i \in DOMAIN Kinds[s], Turned(s, i),
         \/ /\ UNCHANGED job
            /\ \/ UNCHANGED network
               \/ \E m : /\ network' = network \cup {m}
                         /\ m.key_id = <<s, i>>
                         /\ m.session_id = Rotated(s, i).session_id
         \/ /\ s \in Writers /\ i = Last(s) /\ UNCHANGED network
            /\ \A v \in Writers : v # s => job'[v] = job[v]
  PROVE  ICounts'
<1>a. PICK ses : ses = Rotated(s, i)
  OBVIOUS
<1>b. PICK id, ctr : id = ses.session_id /\ ctr = ses.session_block_counter
  OBVIOUS
<1>c. PICK n : n = Cardinality(Used(s, i, id))
  OBVIOUS
<1>1. Pending(s, i) = 0
  BY DEF Turned, Free, Pending
<1>2. /\ InUse(ses, s, i) /\ n + 1 <= ctr
      /\ \A k \in Nat : Used(s, i, k) # {} => k <= id
  BY <1>a, <1>b, <1>c, <1>1, RoomAfterTurn
<1>3. /\ sessions'[s][i] = ses
      /\ \A t \in Senders : \A j \in DOMAIN Kinds[t] :
            <<t, j>> # <<s, i>> => sessions'[t][j] = sessions[t][j]
  BY <1>a, TurnedSessions
<1>4. IsFiniteSet(network) /\ n \in Nat /\ Counted(s, i)
  BY <1>c, UsedFinite DEF ICounts
<1>5. id \in Nat /\ ctr \in 0..BlockLimit /\ ctr \in Nat
  BY <1>b, <1>2, Limits DEF InUse, SessionOK
<1>6. Pending(s, i)' \in {0, 1} /\ (UNCHANGED job => Pending(s, i)' = 0)
  BY <1>1 DEF Pending, Last
<1>7. /\ IsFiniteSet(network')
      /\ \A m \in network' : Numbered(m)
      /\ Cardinality(Used(s, i, id)') + Pending(s, i)' <= n + 1
      /\ \E a \in Nat : Cardinality(Used(s, i, id)') <= a /\ a + Pending(s, i)' <= n + 1
      /\ \A t \in Senders : \A j \in DOMAIN Kinds[t] : \A k :
            <<t, j, k>> # <<s, i, id>> => Used(t, j, k)' = Used(t, j, k)
  <2>1. CASE UNCHANGED network
    <3>1. \A t, j, k : Used(t, j, k)' = Used(t, j, k)
      BY <2>1 DEF Used
    <3> QED BY <1>c, <1>4, <1>6, <2>1, <3>1 DEF ICounts
  <2>2. CASE ~UNCHANGED network
    <3>1. PICK m : /\ network' = network \cup {m}
                   /\ m.key_id = <<s, i>> /\ m.session_id = id
      BY <1>a, <1>b, <2>2
    <3>2. Pending(s, i)' = 0
      BY <1>6, <2>2
    <3>3. /\ IsFiniteSet(network')
          /\ Cardinality(Used(s, i, id)') <= n + 1
          /\ \A t, j, k : ~(m.key_id = <<t, j>> /\ m.session_id = k) =>
                  Used(t, j, k)' = Used(t, j, k)
      <4>1. /\ IsFiniteSet(network')
            /\ \A t, j, k :
                  /\ m.key_id = <<t, j>> /\ m.session_id = k =>
                         Cardinality(Used(t, j, k)') <= Cardinality(Used(t, j, k)) + 1
                  /\ ~(m.key_id = <<t, j>> /\ m.session_id = k) =>
                         Used(t, j, k)' = Used(t, j, k)
        BY <1>4, <3>1, UsedAfter
      <4> QED BY <1>c, <3>1, <4>1
    <3>4. Numbered(m)
      BY <1>5, <3>1 DEF Numbered
    <3>5. Cardinality(Used(s, i, id)') \in Nat
      <4>1. Used(s, i, id)' \in SUBSET network'
        BY DEF Used
      <4> QED BY <3>3, <4>1, FS_Subset, FS_CardinalityType
    <3>6. \A m1 \in network' : Numbered(m1)
      BY <3>1, <3>4 DEF ICounts
    <3>7. n + 1 \in Nat
      BY <1>4
    <3>8. \A t \in Senders : \A j \in DOMAIN Kinds[t] : \A k :
            <<t, j, k>> # <<s, i, id>> => Used(t, j, k)' = Used(t, j, k)
      BY <3>1, <3>3
    <3> QED BY <3>2, <3>3, <3>5, <3>6, <3>7, <3>8
  <2> QED BY <2>1, <2>2
<1>8. Counted(s, i)'
  <2>1. PICK a \in Nat : Cardinality(Used(s, i, id)') <= a /\ a + Pending(s, i)' <= n + 1
    BY <1>7
  <2>2. a + Pending(s, i)' <= ctr
    BY <1>2, <1>4, <1>5, <1>6, <2>1
  <2>3. \A k \in Nat : k # id => Used(s, i, k)' = Used(s, i, k)
    BY <1>7
  <2> QED BY <1>b, <1>2, <1>3, <1>4, <1>5, <1>7, <2>1, <2>2, <2>3, CountedAfter
<1>9. ASSUME NEW t \in Senders, NEW j \in DOMAIN Kinds[t], <<t, j>> # <<s, i>>
      PROVE  Counted(t, j)'
  <2>1. Pending(t, j)' = Pending(t, j)
    BY <1>9 DEF Pending, Last
  <2>2. \A k : Used(t, j, k)' = Used(t, j, k)
    BY <1>7, <1>9
  <2>3. Counted(t, j)
    BY DEF ICounts
  <2> QED BY <1>3, <1>9, <2>1, <2>2, <2>3, CountedKept
<1> QED BY <1>7, <1>8, <1>9 DEF ICounts, Numbered

\* The message of a job takes the place that was kept for it.
LEMMA ClosedCounts ==
  ASSUME ISessions, IJobs, ICounts, NEW w \in Writers, Closed(w)
  PROVE  ICounts'
<1> DEFINE i == Last(w)
<1>a. PICK ses : ses = sessions[w][i]
  OBVIOUS
<1>b. PICK id, ctr : id = ses.session_id /\ ctr = ses.session_block_counter
  OBVIOUS
<1>c. PICK n : n = Cardinality(Used(w, i, id))
  OBVIOUS
<1>1. /\ w \in Senders /\ i \in DOMAIN Kinds[w] /\ Counted(w, i)
      /\ IsFiniteSet(network) /\ n \in Nat
  BY <1>c, UsedFinite, FirstAndLast DEF ICounts, Senders
<1>2. job[w] # NoJob /\ job[w].ses = ses /\ SessionOK(ses, w, i)
  BY <1>a, JobSteps DEF IJobs, JobOK, InUse
<1>3. id \in Nat /\ ctr \in 0..BlockLimit
  BY <1>b, <1>2 DEF SessionOK
<1>4. sessions' = sessions /\ network' = network \cup {JobMessage(w)}
  BY DEF Closed
<1>5. JobMessage(w).key_id = <<w, i>> /\ JobMessage(w).session_id = id
  BY <1>b, <1>2 DEF JobMessage, Message
<1>6. Pending(w, i) = 1
  BY <1>2 DEF Pending
<1>7. Pending(w, i)' = 0
  <2>1. job'[w] = NoJob
    BY DEF Closed, IJobs
  <2> QED BY <2>1 DEF Pending
<1>8. n + 1 <= ctr
  BY <1>a, <1>b, <1>c, <1>1, <1>6 DEF Counted
<1>9. /\ IsFiniteSet(network')
      /\ Cardinality(Used(w, i, id)') <= n + 1
      /\ \A t, j, k : <<t, j, k>> # <<w, i, id>> => Used(t, j, k)' = Used(t, j, k)
  <2>1. /\ IsFiniteSet(network')
        /\ \A t, j, k :
              /\ JobMessage(w).key_id = <<t, j>> /\ JobMessage(w).session_id = k =>
                     Cardinality(Used(t, j, k)') <= Cardinality(Used(t, j, k)) + 1
              /\ ~(JobMessage(w).key_id = <<t, j>> /\ JobMessage(w).session_id = k) =>
                     Used(t, j, k)' = Used(t, j, k)
    BY <1>1, <1>4, UsedAfter
  <2> HIDE DEF i
  <2> QED BY <1>c, <1>5, <2>1
<1>10. Counted(w, i)'
  <2>1. n + 1 \in Nat /\ n + 1 + Pending(w, i)' <= ctr
    BY <1>1, <1>3, <1>7, <1>8
  <2>2. \A k \in Nat : k # id => Used(w, i, k)' = Used(w, i, k)
    BY <1>9
  <2>3. \A k \in Nat : Used(w, i, k) # {} => k <= id
    BY <1>a, <1>b, <1>1 DEF Counted
  <2>4. ses = sessions'[w][i]
    BY <1>a, <1>4
  <2> HIDE DEF i
  <2>5. Counted(w, i)'
    BY <1>b, <1>1, <1>3, <1>9, <2>1, <2>2, <2>3, <2>4, CountedAfter
  <2> QED BY <2>5
<1>11. ASSUME NEW t \in Senders, NEW j \in DOMAIN Kinds[t], <<t, j>> # <<w, i>>
       PROVE  Counted(t, j)'
  <2>1. Pending(t, j)' = Pending(t, j)
    BY <1>11, JobSteps DEF Pending, Last
  <2>2. \A k : Used(t, j, k)' = Used(t, j, k)
    BY <1>9, <1>11
  <2>3. Counted(t, j)
    BY DEF ICounts
  <2> QED BY <1>4, <2>1, <2>2, <2>3, CountedKept
<1>12. \A m \in network' : Numbered(m)
  <2>1. Numbered(JobMessage(w))
    BY <1>1, <1>3, <1>5 DEF Numbered
  <2> QED BY <1>4, <2>1 DEF ICounts
<1> QED BY <1>9, <1>10, <1>11, <1>12 DEF ICounts, Numbered

LEMMA CountsUnchanged ==
  ASSUME ICounts, UNCHANGED <<sessions, network>>,
         \A w \in Writers : (job'[w] = NoJob) <=> (job[w] = NoJob)
  PROVE  ICounts'
<1>1. ASSUME NEW s \in Senders, NEW i \in DOMAIN Kinds[s] PROVE Counted(s, i)'
  <2>1. \A k : Used(s, i, k)' = Used(s, i, k)
    BY DEF Used
  <2>2. Pending(s, i)' = Pending(s, i)
    BY DEF Pending, Last
  <2>3. Counted(s, i)
    BY DEF ICounts
  <2> QED BY <2>1, <2>2, <2>3, CountedKept
<1> QED BY <1>1 DEF ICounts, Numbered

LEMMA CountsInit == ASSUME Init PROVE ICounts
<1>1. network = {} /\ \A w \in Writers : job[w] = NoJob
  BY DEF Init
<1>2. ASSUME NEW s \in Senders, NEW i \in DOMAIN Kinds[s] PROVE Counted(s, i)
  <2>1. \A k : Used(s, i, k) = {}
    BY <1>1 DEF Used
  <2>2. Pending(s, i) = 0
    BY <1>1 DEF Pending
  <2>3. sessions[s][i].session_block_counter = max_blocks_per_session
    BY DEF Init, FreshSession
  <2> QED BY <2>1, <2>2, <2>3, FS_EmptySet, Limits DEF Counted
<1> QED BY <1>1, <1>2, FS_EmptySet DEF ICounts

LEMMA CountsNext == ASSUME ISessions, IJobs, ICounts, [Next]_vars PROVE ICounts'
<1>1. ASSUME NEW s \in Senders, Encode(s) PROVE ICounts'
  <2>1. PICK level, list, subs :
          /\ Turned(s, 1)
          /\ Sealed(s, level, list, subs) \/ NotSealed(s, level, list, subs)
    BY <1>1, EncodeStep
  <2>2. /\ UNCHANGED job
        /\ UNCHANGED network \/ network' = network \cup {SealedMessage(s, level, list, subs)}
    BY <2>1 DEF Sealed, NotSealed
  <2>3. /\ SealedMessage(s, level, list, subs).key_id = <<s, 1>>
        /\ SealedMessage(s, level, list, subs).session_id = Rotated(s, 1).session_id
    BY DEF SealedMessage, Message
  <2> QED BY <2>1, <2>2, <2>3, FirstAndLast, TurnedCounts
<1>2. ASSUME NEW w \in Writers, NEW n \in PayloadSizes, encode_serialized_payload(w, n)
      PROVE  ICounts'
  <2>1. /\ Turned(w, Last(w)) /\ UNCHANGED job /\ w \in Senders
        /\ UNCHANGED network \/ network' = network \cup {PayloadMessage(w, n)}
    BY <1>2, PayloadStep DEF PayloadSealed, PayloadNotSealed, Senders
  <2>2. /\ PayloadMessage(w, n).key_id = <<w, Last(w)>>
        /\ PayloadMessage(w, n).session_id = Rotated(w, Last(w)).session_id
    BY DEF PayloadMessage, Message
  <2> QED BY <2>1, <2>2, FirstAndLast, TurnedCounts
<1>3. ASSUME NEW w \in Thunked, Write(w) \/ Resend(w) PROVE ICounts'
  <2>0. w \in Writers /\ w \in Senders
    BY ThunkedAreWriters
  <2>1. PICK by, thunk : Turned(w, Last(w)) /\ Begun(w, by, thunk)
    BY <1>3, <2>0, WriteStep, ResendStep
  <2>2. UNCHANGED network /\ \A v \in Writers : v # w => job'[v] = job[v]
    BY <2>1 DEF Begun, IJobs
  <2> QED BY <2>0, <2>1, <2>2, FirstAndLast, TurnedCounts
<1>4. ASSUME NEW w \in Thunked, fuse_init(w) \/ serialize_memcpy(w) PROVE ICounts'
  <2>1. w \in Writers /\ UNCHANGED <<sessions, network>>
    BY <1>4, ThunkedAreWriters DEF fuse_init, serialize_memcpy
  <2>2. job[w] # NoJob /\ \A v \in Writers : v # w => job'[v] = job[v]
    BY <1>4, <2>1, JobSteps
  <2>3. ~Closed(w)
    BY <1>4 DEF fuse_init, serialize_memcpy, Closed
  <2>4. job'[w] # NoJob
    BY <1>4, <2>1, <2>3, JobSteps
  <2> QED BY <2>1, <2>2, <2>4, CountsUnchanged
<1>5. ASSUME NEW w \in Thunked, fuse_finalize_enc(w) PROVE ICounts'
  BY <1>5, ThunkedAreWriters, FinalizeStep, ClosedCounts
<1>6. CASE UNCHANGED <<sessions, network, job>>
  BY <1>6, CountsUnchanged
<1> QED BY <1>1, <1>2, <1>3, <1>4, <1>5, <1>6, NextCases, OtherSteps DEF vars

\* No session key protects more messages than max_blocks_per_session allows,
\* whatever limits, materials and bounds there are: rotation leaves the full
\* session before its key is used once more, also when payloads and
\* submessages share it and while the fast path still makes a payload of it.
THEOREM SessionBlocksBounded == Spec => []SessionBlocks
<1>1. Init => ISessions /\ IJobs /\ ICounts
  BY JobsInit, CountsInit
<1>2. ISessions /\ IJobs /\ ICounts /\ [Next]_vars => (ISessions /\ IJobs /\ ICounts)'
  BY JobsNext, CountsNext
<1>3. ICounts => SessionBlocks
  <2> SUFFICES ASSUME ICounts, NEW m \in network
               PROVE  Cardinality({o \in network : /\ o.key_id = m.key_id
                                                   /\ o.session_id = m.session_id})
                          <= BlockLimit
    BY DEF SessionBlocks
  <2>1. PICK s \in Senders : \E i \in DOMAIN Kinds[s] : m.key_id = <<s, i>>
    BY DEF ICounts, Numbered
  <2>2. PICK i \in DOMAIN Kinds[s] : m.key_id = <<s, i>> /\ m.session_id \in Nat
    BY <2>1 DEF ICounts, Numbered
  <2>3. Cardinality(Used(s, i, m.session_id)) <= BlockLimit
    BY <2>2 DEF ICounts, Counted
  <2> QED BY <2>2, <2>3 DEF Used
<1> QED BY <1>1, <1>2, <1>3, PTL DEF Spec

-----------------------------------------------------------------------------
\* The next multiple of four is less than four bytes away.
LEMMA AlignedBounds ==
  ASSUME NEW x \in Nat
  PROVE  /\ Aligned(x) \in Nat
         /\ Aligned(x) >= x
         /\ Aligned(x) <= x + 3
         /\ Aligned(x) % 4 = 0
BY SMT DEF Aligned

\* What is a multiple of four stays where it is.
LEMMA AlignedIdentity ==
  ASSUME NEW x \in Nat, x % 4 = 0
  PROVE  Aligned(x) = x
BY SMT DEF Aligned

\* Aligning commutes with multiples of four.
LEMMA AlignedShift ==
  ASSUME NEW x \in Nat, NEW k \in Nat, k % 4 = 0
  PROVE  Aligned(x + k) = Aligned(x) + k
BY SMT DEF Aligned

LEMMA AlignedFour ==
  ASSUME NEW x \in Nat
  PROVE  Aligned(x + 4) = Aligned(x) + 4 /\ Aligned(x) \in Nat
BY SMT DEF Aligned

-----------------------------------------------------------------------------
(* Room.                                                                   *)

\* Where the body of a message ends, and that of a payload.
LEMMA MessageBodyBounds ==
  ASSUME NEW kind, NEW n \in Nat
  PROVE  \E prefix \in {0, 8} :
            /\ BodyPrefix(kind, TRUE) = prefix
            /\ PostfixAt(kind, n) = Aligned(24 + prefix + n)
            /\ BodyEnd(kind, BodyAt, n, TRUE) = PostfixAt(kind, n)
<1>1. BodyAt = 24
  BY DEF BodyAt, PrefixLength, HeaderLength
<1>2. PostfixAt(kind, n) = BodyEnd(kind, BodyAt, n, TRUE)
  BY DEF PostfixAt
<1>3. CASE Encrypts(kind)
  <2>1. BodyPrefix(kind, TRUE) = 8
    BY <1>3 DEF BodyPrefix
  <2>2. BodyEnd(kind, BodyAt, n, TRUE) = Aligned(24 + 8 + n)
    BY <1>1, <1>3 DEF BodyEnd, BodyPrefix
  <2> QED BY <1>2, <2>1, <2>2
<1>4. CASE ~Encrypts(kind)
  <2>1. BodyPrefix(kind, TRUE) = 0
    BY <1>4 DEF BodyPrefix
  <2>2. BodyEnd(kind, BodyAt, n, TRUE) = Aligned(24 + 0 + n)
    BY <1>1, <1>4 DEF BodyEnd, BodyPrefix
  <2> QED BY <1>2, <2>1, <2>2
<1> QED BY <1>3, <1>4

LEMMA PayloadBodyBounds ==
  ASSUME NEW kind, NEW n \in Nat
  PROVE  \E prefix \in {0, 4} :
            /\ BodyPrefix(kind, FALSE) = prefix
            /\ PayloadTagAt(kind, n) = 20 + prefix + n
            /\ BodyEnd(kind, HeaderLength, n, FALSE) = PayloadTagAt(kind, n)
<1>1. PayloadTagAt(kind, n) = BodyEnd(kind, HeaderLength, n, FALSE)
  BY DEF PayloadTagAt
<1>2. CASE Encrypts(kind)
  <2>1. BodyPrefix(kind, FALSE) = 4
    BY <1>2 DEF BodyPrefix
  <2>2. BodyEnd(kind, HeaderLength, n, FALSE) = 20 + 4 + n
    BY <1>2 DEF BodyEnd, BodyPrefix, HeaderLength
  <2> QED BY <1>1, <2>1, <2>2
<1>3. CASE ~Encrypts(kind)
  <2>1. BodyPrefix(kind, FALSE) = 0
    BY <1>3 DEF BodyPrefix
  <2>2. BodyEnd(kind, HeaderLength, n, FALSE) = 20 + 0 + n
    BY <1>3 DEF BodyEnd, BodyPrefix, HeaderLength
  <2> QED BY <1>1, <2>1, <2>2
<1> QED BY <1>2, <1>3

\* The tag takes 20 bytes, three of padding and 20 for every receiver.
LEMMA TagBounds ==
  ASSUME NEW at \in Nat, NEW receivers \in Nat
  PROVE  /\ TagEnd(at, receivers) \in Nat
         /\ TagEnd(at, receivers) <= at + 23 + 20 * receivers
BY AlignedBounds, at + 16 \in Nat DEF TagEnd

\* The room added for a number of participants, as a lower bound.
LEMMA ExtraBounds ==
  ASSUME NEW fixed \in Nat, NEW discovered \in Nat, NEW receivers \in 0..discovered
  PROVE  Extra(fixed, discovered) >= fixed + 20 * receivers
BY DEF Extra

\* The buffers of submessages and RTPS messages, prepared before anything is
\* encoded from the number of receivers known then, are long enough for every
\* kind, every length of the plain text and every choice of receivers.
THEOREM RoomForMessages ==
  ASSUME NEW kind, NEW n \in Nat, NEW discovered \in Nat, NEW receivers \in 0..discovered
  PROVE  /\ MessageFits(kind, n, receivers,
                        n + calculate_extra_size_for_rtps_submessage(discovered))
         /\ MessageFits(kind, n, receivers,
                        n + calculate_extra_size_for_rtps_message(discovered))
<1> DEFINE extra == Extra(67, discovered)
<1>1. calculate_extra_size_for_rtps_submessage(discovered) = extra
  BY DEF calculate_extra_size_for_rtps_submessage, PrefixLength, HeaderLength
<1>2. calculate_extra_size_for_rtps_message(discovered) = extra
  BY DEF calculate_extra_size_for_rtps_message, PrefixLength, HeaderLength
<1>3. extra >= 67 + 20 * receivers /\ extra \in Nat
  BY ExtraBounds DEF Extra
<1> HIDE DEF extra
<1>4. BodyAt = 24 /\ PrefixLength = 4
  BY DEF BodyAt, PrefixLength, HeaderLength
<1>5. PICK prefix \in {0, 8} :
         /\ BodyPrefix(kind, TRUE) = prefix
         /\ PostfixAt(kind, n) = Aligned(24 + prefix + n)
         /\ BodyEnd(kind, BodyAt, n, TRUE) = PostfixAt(kind, n)
  BY MessageBodyBounds
<1>6. PostfixAt(kind, n) \in Nat /\ PostfixAt(kind, n) <= n + prefix + 27
  <2> DEFINE x == 24 + prefix + n
  <2>1. x \in Nat /\ x <= n + 24 + prefix
    OBVIOUS
  <2>2. PostfixAt(kind, n) = Aligned(x)
    BY <1>5
  <2> HIDE DEF x
  <2>3. Aligned(x) \in Nat /\ Aligned(x) <= x + 3
    BY <2>1, AlignedBounds
  <2> QED BY <2>1, <2>2, <2>3
<1>7. MessageEnd(kind, n, receivers) <= n + extra
  <2>1. MessageEnd(kind, n, receivers) = TagEnd(PostfixAt(kind, n) + 4, receivers)
    BY <1>4 DEF MessageEnd
  <2> DEFINE at == PostfixAt(kind, n) + 4
  <2>2. at \in Nat /\ at <= n + 39
    BY <1>6
  <2> HIDE DEF at
  <2>3. TagEnd(at, receivers) \in Nat /\ TagEnd(at, receivers) <= at + 23 + 20 * receivers
    BY <2>2, TagBounds
  <2>4. TagEnd(at, receivers) <= n + extra
    BY <1>3, <2>2, <2>3
  <2> QED BY <2>1, <2>4 DEF at
<1>8. BodyFits(kind, BodyAt, n, TRUE, n + extra)
  <2>1. Aligned(24 + prefix + n) <= n + extra
    BY <1>3, <1>5, <1>6
  <2>2. CASE Encrypts(kind)
    <3>1. prefix = 8
      BY <1>5, <2>2 DEF BodyPrefix
    <3> QED BY <1>3, <1>4, <2>1, <2>2, <3>1 DEF BodyFits, BodyEnd, BodyPrefix
  <2>3. CASE ~Encrypts(kind)
    <3>1. prefix = 0
      BY <1>5, <2>3 DEF BodyPrefix
    <3> QED BY <1>3, <1>4, <2>1, <2>3, <3>1 DEF BodyFits, BodyEnd, BodyPrefix
  <2> QED BY <2>2, <2>3
<1> QED BY <1>1, <1>2, <1>7, <1>8 DEF MessageFits

\* The same for payloads; they have no receivers' MACs.
THEOREM RoomForPayloads ==
  ASSUME NEW kind, NEW n \in Nat, NEW discovered \in Nat
  PROVE  PayloadFits(kind, n, n + calculate_extra_size_for_encoded_payload(discovered))
<1> DEFINE extra == Extra(59, discovered)
<1>1. calculate_extra_size_for_encoded_payload(discovered) = extra
  BY DEF calculate_extra_size_for_encoded_payload, HeaderLength
<1>2. extra >= 59 /\ extra \in Nat
  BY DEF Extra
<1> HIDE DEF extra
<1>3. PICK prefix \in {0, 4} :
         /\ BodyPrefix(kind, FALSE) = prefix
         /\ PayloadTagAt(kind, n) = 20 + prefix + n
         /\ BodyEnd(kind, HeaderLength, n, FALSE) = PayloadTagAt(kind, n)
  BY PayloadBodyBounds
<1>6. PayloadEnd(kind, n) <= n + extra
  <2> DEFINE at == PayloadTagAt(kind, n)
  <2>1. at \in Nat /\ at <= n + 24
    BY <1>3
  <2>2. PayloadEnd(kind, n) = TagEnd(at, 0)
    BY DEF PayloadEnd
  <2> HIDE DEF at
  <2>3. TagEnd(at, 0) \in Nat /\ TagEnd(at, 0) <= at + 23
    BY <2>1, TagBounds
  <2> QED BY <1>2, <2>1, <2>2, <2>3
<1>7. BodyFits(kind, HeaderLength, n, FALSE, n + extra)
  <2>1. CASE Encrypts(kind)
    BY <1>2, <2>1 DEF BodyFits, BodyEnd, BodyPrefix, HeaderLength
  <2>2. CASE ~Encrypts(kind)
    BY <1>2, <2>2 DEF BodyFits, BodyEnd, BodyPrefix, HeaderLength
  <2> QED BY <2>1, <2>2
<1> QED BY <1>1, <1>6, <1>7 DEF PayloadFits

-----------------------------------------------------------------------------
(* Finding the tag again.                                                  *)

\* A decoder that follows the length of SEC_BODY comes to the tag's submessage
\* if and only if that length fits in its 16 bits.
THEOREM PostfixFoundExactly ==
  ASSUME NEW kind, Encrypts(kind), NEW n \in Nat
  PROVE  PostfixFound(n) = PostfixAt(kind, n) <=> n + 7 < 65536
<1>1. BodyAt = 24 /\ PrefixLength = 4
  BY DEF BodyAt, PrefixLength, HeaderLength
<1>2. PostfixAt(kind, n) = Aligned(n + 32)
  BY <1>1 DEF PostfixAt, BodyEnd, BodyPrefix
<1>3. PostfixFound(n) = Aligned(28 + SecBodyLength(n))
  BY <1>1 DEF PostfixFound, SecBodyFound
<1>4. Aligned(n + 32) = Aligned(n + 4) + 28
  BY AlignedShift, n + 4 \in Nat
<1>5. SecBodyLength(n) \in Nat /\ SecBodyLength(n) % 4 = 0 /\ SecBodyLength(n) < 65536
  BY SMT DEF SecBodyLength, Short, Aligned
<1>6. Aligned(28 + SecBodyLength(n)) = 28 + SecBodyLength(n)
  BY <1>5, AlignedIdentity, (28 + SecBodyLength(n)) % 4 = 0
<1>7. SecBodyLength(n) = Aligned(n + 4) <=> n + 7 < 65536
  <2>1. CASE n + 7 < 65536
    BY <2>1, SMT DEF SecBodyLength, Short, Aligned
  <2>2. CASE n + 7 >= 65536
    <3>1. Aligned(n + 4) >= 65536
      BY <2>2, SMT DEF Aligned
    <3> QED BY <1>5, <2>2, <3>1
  <2> QED BY <2>1, <2>2
<1> QED
  <2>1. Aligned(n + 4) \in Nat
    BY AlignedBounds, n + 4 \in Nat
  <2> HIDE DEF Aligned, SecBodyLength, PostfixFound, PostfixAt
  <2> QED BY <1>2, <1>3, <1>4, <1>5, <1>6, <1>7, <2>1

\* A decoder of payloads finds an encrypted body always, and a plain one if
\* and only if its length is a multiple of four: it takes no account of the
\* padding in front of the list's length.
THEOREM PayloadFoundExactly ==
  ASSUME NEW kind, NEW n \in Nat
  PROVE  PayloadFound(kind, n) <=> Encrypts(kind) \/ n % 4 = 0
<1>1. CASE Encrypts(kind)
  BY <1>1 DEF PayloadFound, PayloadBodyFound, PayloadTagFound, PayloadTagAt, BodyEnd,
              BodyPrefix, HeaderLength
<1>2. CASE ~Encrypts(kind)
  <2>1. PayloadEnd(kind, n) = Aligned(n + 36) + 4
    <3>1. PayloadTagAt(kind, n) = n + 20
      BY <1>2 DEF PayloadTagAt, BodyEnd, BodyPrefix, HeaderLength
    <3>2. PayloadEnd(kind, n) = Aligned(n + 20 + 16) + 4 + 20 * 0
      BY <3>1 DEF PayloadEnd, TagEnd
    <3>3. n + 20 + 16 = n + 36
      OBVIOUS
    <3>4. Aligned(n + 36) \in Nat
      BY AlignedBounds
    <3> HIDE DEF Aligned
    <3> QED BY <3>2, <3>3, <3>4
  <2>2. PayloadBodyFound(kind, n, PayloadEnd(kind, n)) = Aligned(n + 36) - 36
    BY <1>2, <2>1, AlignedBounds, n + 36 \in Nat DEF PayloadBodyFound, HeaderLength
  <2>3. Aligned(n + 36) = n + 36 <=> n % 4 = 0
    BY SMT DEF Aligned
  <2>4. PayloadTagFound(kind, n, PayloadEnd(kind, n)) = Aligned(n + 36) - 16
    BY <1>2, <2>2, AlignedBounds, n + 36 \in Nat DEF PayloadTagFound, BodyPrefix, HeaderLength
  <2>5. PayloadTagAt(kind, n) = n + 20
    BY <1>2 DEF PayloadTagAt, BodyEnd, BodyPrefix, HeaderLength
  <2>6. Aligned(n + 36) \in Nat
    BY AlignedBounds, n + 36 \in Nat
  <2> HIDE DEF Aligned
  <2> QED BY <1>2, <2>2, <2>3, <2>4, <2>5, <2>6 DEF PayloadFound
<1> QED BY <1>1, <1>2

-----------------------------------------------------------------------------
(* The plain text of a message and the walk of its decoder, both defined   *)
(* submessage by submessage.                                               *)

\* How long the text is up to the end of each submessage, and where the walk
\* over an authenticated-only body has arrived.
UpTo(subs, f) ==
  f = [i \in 0..Len(subs) |->
         IF i = 0 THEN 0 ELSE Aligned(f[i - 1]) + PrefixLength + subs[i]]
Walk(first, subs, g) ==
  g = [i \in 1..Len(subs) |->
         IF i = 1 THEN first ELSE Aligned(g[i - 1]) + PrefixLength + subs[i]]

\* The recursions have solutions: each is built one submessage at a time.
LEMMA UpToExists ==
  ASSUME NEW subs \in Seq(Nat)
  PROVE  \E f : UpTo(subs, f)
<1> DEFINE Starts(n, f) ==
             /\ f \in [0..n -> Nat] /\ f[0] = 0
             /\ \A i \in 1..n : f[i] = Aligned(f[i - 1]) + 4 + subs[i]
           S == {n \in Nat : n <= Len(subs) => \E f : Starts(n, f)}
<1>1. 0 \in S
  <2>1. Starts(0, [i \in 0..0 |-> 0])
    OBVIOUS
  <2> QED BY <2>1
<1>2. ASSUME NEW n \in Nat, n \in S PROVE n + 1 \in S
  <2>l. Len(subs) \in Nat
    OBVIOUS
  <2>a. SUFFICES ASSUME n + 1 <= Len(subs) PROVE \E f : Starts(n + 1, f)
    <3> HIDE DEF Starts
    <3> QED BY <1>2
  <2>b. n <= Len(subs)
    BY <2>l, <2>a
  <2>1. PICK f : Starts(n, f)
    <3> HIDE DEF Starts
    <3> QED BY <1>2, <2>b
  <2>2. PICK x : x = Aligned(f[n]) + 4 + subs[n + 1]
    OBVIOUS
  <2>3. x \in Nat
    <3>1. f[n] \in Nat /\ subs[n + 1] \in Nat
      BY <2>1, <2>a
    <3>2. Aligned(f[n]) \in Nat
      BY <3>1, AlignedBounds
    <3> QED BY <2>2, <3>1, <3>2
  <2> DEFINE h == [i \in 0..(n + 1) |-> IF i = n + 1 THEN x ELSE f[i]]
  <2>4. h \in [0..(n + 1) -> Nat] /\ h[0] = 0
    BY <2>1, <2>3
  <2>5. ASSUME NEW i \in 1..(n + 1) PROVE h[i] = Aligned(h[i - 1]) + 4 + subs[i]
    <3>1. h[i - 1] = f[i - 1]
      OBVIOUS
    <3>2. CASE i = n + 1
      BY <2>2, <3>1, <3>2
    <3>3. CASE i \in 1..n
      <4>1. h[i] = f[i]
        BY <3>3
      <4> QED BY <2>1, <3>1, <3>3, <4>1
    <3> QED BY <3>2, <3>3
  <2>6. Starts(n + 1, h)
    BY <2>4, <2>5
  <2> QED BY <2>6
<1>3. Len(subs) \in S
  <2> HIDE DEF S
  <2> QED BY <1>1, <1>2, SetInduction
<1>4. PICK f : Starts(Len(subs), f)
  <2> HIDE DEF Starts
  <2> QED BY <1>3
<1>5. UpTo(subs, f)
  BY <1>4 DEF UpTo, PrefixLength
<1> QED BY <1>5

\* Every solution counts bytes, and has room for a header in each submessage.
LEMMA UpToBounds ==
  ASSUME NEW subs \in Seq(Nat), NEW f, UpTo(subs, f)
  PROVE  /\ f[0] = 0 /\ \A i \in 0..Len(subs) : f[i] \in Nat
         /\ \A i \in 1..Len(subs) : /\ f[i] = Aligned(f[i - 1]) + 4 + subs[i]
                                    /\ f[i] >= 4
<1>l. Len(subs) \in Nat
  OBVIOUS
<1>1. f[0] = 0 /\ \A i \in 1..Len(subs) : f[i] = Aligned(f[i - 1]) + 4 + subs[i]
  <2>h. PICK h : h = [i \in 0..Len(subs) |->
                        IF i = 0 THEN 0 ELSE Aligned(f[i - 1]) + PrefixLength + subs[i]]
    OBVIOUS
  <2>1. h[0] = 0 /\ \A i \in 1..Len(subs) : h[i] = Aligned(f[i - 1]) + 4 + subs[i]
    BY <1>l, <2>h DEF PrefixLength
  <2>2. f = h
    BY <2>h DEF UpTo
  <2> QED BY <2>1, <2>2
<1> DEFINE S == {n \in Nat : n <= Len(subs) => f[n] \in Nat}
<1>2. 0 \in S
  BY <1>1
<1>3. ASSUME NEW n \in Nat, n \in S PROVE n + 1 \in S
  <2> SUFFICES ASSUME n + 1 <= Len(subs) PROVE f[n + 1] \in Nat
    OBVIOUS
  <2>1. f[n] \in Nat /\ subs[n + 1] \in Nat
    BY <1>l, <1>3
  <2>2. f[n + 1] = Aligned(f[n]) + 4 + subs[n + 1]
    BY <1>1, <1>l
  <2>3. Aligned(f[n]) \in Nat
    BY <2>1, AlignedBounds
  <2> QED BY <2>1, <2>2, <2>3
<1>4. \A n \in Nat : n \in S
  <2> HIDE DEF S
  <2> QED BY <1>2, <1>3, SetInduction
<1>5. \A i \in 0..Len(subs) : f[i] \in Nat
  BY <1>4, <1>l
<1>6. ASSUME NEW i \in 1..Len(subs) PROVE f[i] >= 4
  <2>1. f[i - 1] \in Nat /\ subs[i] \in Nat
    BY <1>5, <1>l
  <2>2. Aligned(f[i - 1]) \in Nat
    BY <2>1, AlignedBounds
  <2> QED BY <1>1, <2>1, <2>2
<1> QED BY <1>1, <1>5, <1>6

\* A walk that starts at the first submessage is four bytes behind the text.
LEMMA WalkExists ==
  ASSUME NEW subs \in Seq(Nat), subs # << >>
  PROVE  \E g : Walk(subs[1], subs, g)
<1>1. PICK f : UpTo(subs, f)
  BY UpToExists
<1>l. Len(subs) \in Nat /\ Len(subs) >= 1
  OBVIOUS
<1> DEFINE g == [i \in 1..Len(subs) |-> f[i] - 4]
<1>2. ASSUME NEW i \in 1..Len(subs)
      PROVE  g[i] = IF i = 1 THEN subs[1] ELSE Aligned(g[i - 1]) + 4 + subs[i]
  <2>1. CASE i = 1
    <3>1. f[1] = Aligned(0) + 4 + subs[1] /\ subs[1] \in Nat
      BY <1>1, <1>l, <2>1, UpToBounds
    <3>2. Aligned(0) = 0
      BY SMT DEF Aligned
    <3> QED BY <2>1, <3>1, <3>2
  <2>2. CASE i # 1
    <3>1. i - 1 \in 1..Len(subs) /\ f[i - 1] \in Nat /\ f[i - 1] >= 4 /\ subs[i] \in Nat
      BY <1>1, <1>l, <2>2, UpToBounds
    <3>2. f[i] = Aligned(f[i - 1]) + 4 + subs[i]
      BY <1>1, <1>l, <2>2, UpToBounds
    <3>3. PICK x \in Nat : f[i - 1] = x + 4
      <4>1. f[i - 1] - 4 \in Nat /\ f[i - 1] = (f[i - 1] - 4) + 4
        BY <3>1
      <4> QED BY <4>1
    <3>4. Aligned(x + 4) = Aligned(x) + 4 /\ Aligned(x) \in Nat
      BY AlignedFour
    <3>5. g[i - 1] = x /\ g[i] = f[i] - 4
      BY <3>1, <3>3
    <3>6. f[i] = Aligned(x) + 4 + 4 + subs[i]
      BY <3>2, <3>3, <3>4
    <3> HIDE DEF g
    <3>7. g[i] = Aligned(x) + 4 + subs[i]
      <4>a. PICK a \in Nat, b \in Nat : a = Aligned(x) /\ b = subs[i]
        BY <3>1, <3>4
      <4>1. g[i] = a + 4 + 4 + b - 4
        BY <3>5, <3>6, <4>a
      <4>2. a + 4 + 4 + b - 4 = a + 4 + b
        OBVIOUS
      <4> QED BY <4>1, <4>2, <4>a
    <3> QED BY <2>2, <3>5, <3>7
  <2> QED BY <2>1, <2>2
<1>3. Walk(subs[1], subs, g)
  BY <1>2 DEF Walk, PrefixLength
<1> QED BY <1>3

LEMMA WalkBehind ==
  ASSUME NEW subs \in Seq(Nat), subs # << >>, NEW f, UpTo(subs, f),
         NEW g, Walk(subs[1], subs, g)
  PROVE  g[Len(subs)] \in Nat /\ g[Len(subs)] + 4 = f[Len(subs)]
<1>l. Len(subs) \in Nat /\ Len(subs) >= 1
  OBVIOUS
<1>1. /\ g[1] = subs[1]
      /\ \A i \in 1..Len(subs) : i # 1 => g[i] = Aligned(g[i - 1]) + 4 + subs[i]
  <2>h. PICK h : h = [i \in 1..Len(subs) |->
                        IF i = 1 THEN subs[1] ELSE Aligned(g[i - 1]) + PrefixLength + subs[i]]
    OBVIOUS
  <2>1. /\ h[1] = subs[1]
        /\ \A i \in 1..Len(subs) : i # 1 => h[i] = Aligned(g[i - 1]) + 4 + subs[i]
    BY <1>l, <2>h DEF PrefixLength
  <2>2. g = h
    BY <2>h DEF Walk
  <2> QED BY <2>1, <2>2
<1> DEFINE S == {n \in Nat : n + 1 <= Len(subs) => g[n + 1] \in Nat /\ g[n + 1] + 4 = f[n + 1]}
<1>2. 0 \in S
  <2>1. f[1] = Aligned(0) + 4 + subs[1] /\ subs[1] \in Nat /\ f[0] = 0
    BY <1>l, UpToBounds
  <2>2. Aligned(0) = 0
    BY SMT DEF Aligned
  <2> QED BY <1>1, <2>1, <2>2
<1>3. ASSUME NEW n \in Nat, n \in S PROVE n + 1 \in S
  <2> SUFFICES ASSUME n + 2 <= Len(subs)
               PROVE  g[n + 2] \in Nat /\ g[n + 2] + 4 = f[n + 2]
    OBVIOUS
  <2>1. g[n + 1] \in Nat /\ g[n + 1] + 4 = f[n + 1] /\ subs[n + 2] \in Nat
    BY <1>l, <1>3
  <2>2. g[n + 2] = Aligned(g[n + 1]) + 4 + subs[n + 2]
    BY <1>1, <1>l
  <2>3. f[n + 2] = Aligned(f[n + 1]) + 4 + subs[n + 2]
    BY <1>l, UpToBounds
  <2>4. Aligned(f[n + 1]) = Aligned(g[n + 1]) + 4 /\ Aligned(g[n + 1]) \in Nat
    BY <2>1, AlignedFour
  <2>5. PICK a, b : a = Aligned(g[n + 1]) /\ b = subs[n + 2]
    OBVIOUS
  <2>6. /\ a \in Nat /\ b \in Nat
        /\ g[n + 2] = a + 4 + b /\ f[n + 2] = (a + 4) + 4 + b
    BY <2>1, <2>2, <2>3, <2>4, <2>5
  <2> QED BY <2>6
<1>4. \A n \in Nat : n \in S
  <2> HIDE DEF S
  <2> QED BY <1>2, <1>3, SetInduction
<1>5. PICK n \in Nat : n + 1 = Len(subs)
  <2>1. Len(subs) - 1 \in Nat /\ (Len(subs) - 1) + 1 = Len(subs)
    BY <1>l
  <2> QED BY <2>1
<1>6. g[n + 1] \in Nat /\ g[n + 1] + 4 = f[n + 1]
  BY <1>l, <1>4, <1>5
<1> QED BY <1>5, <1>6

\* The decoder's walk over an authenticated-only body arrives at its end: no
\* padding is counted twice and none is missed, for any submessages.
THEOREM PlainTextWalked ==
  ASSUME NEW subs \in Seq(Nat)
  PROVE  /\ PlainLength(subs) \in Nat
         /\ subs # << >> => PlainBodyFound(subs) = PlainLength(subs)
<1>l. Len(subs) \in Nat
  OBVIOUS
<1> PICK f : f = CHOOSE h : UpTo(subs, h)
  OBVIOUS
<1>1. UpTo(subs, f)
  BY UpToExists
<1>2. PlainLength(subs) = f[Len(subs)]
  BY DEF PlainLength, UpTo
<1>3. PlainLength(subs) \in Nat
  BY <1>l, <1>1, <1>2, UpToBounds
<1>4. ASSUME subs # << >> PROVE PlainBodyFound(subs) = PlainLength(subs)
  <2> PICK g : g = CHOOSE h : Walk(subs[1], subs, h)
    OBVIOUS
  <2>1. Walk(subs[1], subs, g)
    BY <1>4, WalkExists
  <2>2. WalkFrom(subs[1], subs) = g[Len(subs)]
    BY DEF WalkFrom, Walk
  <2>3. g[Len(subs)] + 4 = f[Len(subs)]
    BY <1>1, <1>4, <2>1, WalkBehind
  <2> QED BY <1>2, <2>2, <2>3 DEF PlainBodyFound, PrefixLength
<1> QED BY <1>3, <1>4

-----------------------------------------------------------------------------
(* Sequences that grow by Append.                                          *)

IsSeq(b) == Len(b) \in Nat /\ b = [j \in 1..Len(b) |-> b[j]]

LEMMA EmptySeq == IsSeq(<< >>) /\ Len(<< >>) = 0
BY DEF IsSeq

LEMMA AppendSeq ==
  ASSUME NEW b, IsSeq(b), NEW x
  PROVE  /\ IsSeq(Append(b, x)) /\ Len(Append(b, x)) = Len(b) + 1
         /\ Append(b, x)[Len(b) + 1] = x
         /\ \A j \in 1..Len(b) : Append(b, x)[j] = b[j]
<1> DEFINE S == {b[j] : j \in 1..Len(b)} \cup {x}
<1>1. b \in [1..Len(b) -> S]
  BY DEF IsSeq
<1>2. b \in Seq(S) /\ x \in S
  BY <1>1 DEF IsSeq
<1> HIDE DEF S
<1>3. /\ Append(b, x) \in Seq(S) /\ Len(Append(b, x)) = Len(b) + 1
      /\ Append(b, x)[Len(b) + 1] = x
      /\ \A j \in 1..Len(b) : Append(b, x)[j] = b[j]
  BY <1>2
<1>4. ASSUME NEW T, NEW c \in Seq(T) PROVE IsSeq(c)
  <2>1. Len(c) \in Nat /\ c \in [1..Len(c) -> T]
    OBVIOUS
  <2> QED BY <2>1 DEF IsSeq
<1> QED BY <1>3, <1>4

\* a is b and one more element.
Extends(a, b, x) ==
  /\ IsSeq(a) /\ Len(a) = Len(b) + 1 /\ a[Len(b) + 1] = x
  /\ \A j \in 1..Len(b) : a[j] = b[j]

LEMMA AppendedSeq ==
  ASSUME NEW b, IsSeq(b), NEW x, NEW a, a = Append(b, x)
  PROVE  Extends(a, b, x)
BY AppendSeq DEF Extends

-----------------------------------------------------------------------------
(* Samples.                                                                *)

\* A content of the application's sample.
IsContent(c) == c = [alloc |-> c.alloc, n |-> c.n, version |-> c.version]
ContentOK(c) == IsContent(c) /\ c.n \in Nat /\ c.version \in 0..MaxVersions

\* What the fast path has copied, and of what: the sample that write() has
\* been called with stays what it is until the job is done.
Progress(w) ==
    /\ IsSeq(job[w].plain) /\ IsSeq(job[w].body) /\ Len(job[w].plain) = Len(job[w].body)
    /\ job[w].at = "init" => Len(job[w].body) = 0
    /\ job[w].at = "copy" => Len(job[w].body) < Pieces
    /\ job[w].at = "final" => Len(job[w].body) = Pieces
Reading(w) ==
    /\ job[w].thunk = memory[w]
    /\ \A j \in 1..Len(job[w].plain) : job[w].plain[j] = <<w, memory[w].version, j>>
CopyOK(w) == job[w] # NoJob => Progress(w) /\ (job[w].by = "app" => Reading(w))

SentOK(m) ==
    m.level = "payload" /\ m.from \in Thunked /\ m.first =>
        m.plain = [j \in 1..Pieces |-> <<m.from, m.version, j>>]

ISamples ==
    /\ memory = [w \in Writers |-> memory[w]] /\ history = [w \in Writers |-> history[w]]
    /\ \A w \in Writers : /\ ContentOK(memory[w]) /\ ContentOK(history[w])
                          /\ history[w].version <= memory[w].version
                          /\ CopyOK(w)
    /\ \A m \in network : SentOK(m)

LEMMA Counts ==
  Pieces \in Nat \ {0} /\ MaxMessages \in Nat /\ MaxVersions \in Nat /\ PayloadSizes \subseteq Nat
BY TransformAssumption

LEMMA SamplesInit == ASSUME Init PROVE ISamples
<1>1. ContentOK(NoChange) /\ NoChange.version = 0
  BY Counts DEF ContentOK, IsContent, NoChange
<1> QED BY <1>1 DEF Init, ISamples, CopyOK

\* What a job has copied does not change as long as it is left alone.
LEMMA CopyKept ==
  ASSUME NEW w, CopyOK(w), job'[w] = job[w],
         memory'[w] = memory[w] \/ (job[w] # NoJob => job[w].by # "app")
  PROVE  CopyOK(w)'
<1>1. CASE job[w] = NoJob
  BY <1>1 DEF CopyOK, NoJob
<1>2. CASE job[w] # NoJob
  <2>1. Progress(w)'
    BY <1>2 DEF CopyOK, Progress
  <2>2. job[w].by = "app" => Reading(w)'
    BY <1>2 DEF CopyOK, Reading
  <2> QED BY <2>1, <2>2 DEF CopyOK
<1> QED BY <1>1, <1>2

\* A job that has just begun has copied nothing.
LEMMA CopyBegun ==
  ASSUME NEW w \in Writers, NEW by, NEW thunk, by = "app" => thunk = memory[w],
         memory'[w] = memory[w], job'[w] = JobFor(w, by, thunk)
  PROVE  CopyOK(w)'
<1>1. /\ job'[w].plain = << >> /\ job'[w].body = << >> /\ job'[w].at = "init"
      /\ job'[w].by = by /\ job'[w].thunk = thunk
  BY DEF JobFor
<1>2. Progress(w)'
  BY <1>1, EmptySeq DEF Progress
<1>3. by = "app" => Reading(w)'
  BY <1>1, EmptySeq DEF Reading
<1> QED BY <1>1, <1>2, <1>3 DEF CopyOK

LEMMA CopyInitialised ==
  ASSUME IJobs, NEW w \in Writers, CopyOK(w), fuse_init(w)
  PROVE  CopyOK(w)'
<1>1. job[w].at = "init" /\ job[w] # NoJob /\ IsJob(job[w]) /\ memory' = memory
  BY DEF fuse_init, IJobs, JobOK, NoJob
<1>2. job'[w] = [job[w] EXCEPT !.at = "copy"]
  BY DEF fuse_init, IJobs
<1>3. /\ job'[w].plain = job[w].plain /\ job'[w].body = job[w].body /\ job'[w].at = "copy"
      /\ job'[w].by = job[w].by /\ job'[w].thunk = job[w].thunk
  BY <1>1, <1>2 DEF IsJob
<1>4. Progress(w)'
  BY <1>1, <1>3, Counts DEF CopyOK, Progress
<1>5. job[w].by = "app" => Reading(w)'
  BY <1>1, <1>3 DEF CopyOK, Reading
<1> QED BY <1>3, <1>4, <1>5 DEF CopyOK

\* One more piece, of the content that write() was called with.
LEMMA CopyContinued ==
  ASSUME IJobs, NEW w \in Writers, CopyOK(w), serialize_memcpy(w)
  PROVE  CopyOK(w)'
<1>1. job[w].at = "copy" /\ job[w] # NoJob /\ IsJob(job[w]) /\ memory' = memory
  BY DEF serialize_memcpy, IJobs, JobOK, NoJob
<1>a. PICK p, j : p = PieceRead(w, j) /\ j = Len(job[w].body) + 1
  OBVIOUS
<1>2. PICK f, cell :
        job'[w] = [job[w] EXCEPT !.fused = f, !.plain = Append(@, p),
                                 !.body = Append(@, cell),
                                 !.at = IF j = Pieces THEN "final" ELSE "copy"]
  BY <1>a DEF serialize_memcpy, IJobs
<1>3. /\ job'[w].plain = Append(job[w].plain, p) /\ job'[w].body = Append(job[w].body, cell)
      /\ job'[w].at = IF j = Pieces THEN "final" ELSE "copy"
      /\ job'[w].by = job[w].by /\ job'[w].thunk = job[w].thunk
  BY <1>1, <1>2 DEF IsJob
<1>4. Progress(w)
  BY <1>1 DEF CopyOK
<1>5. /\ IsSeq(job'[w].plain) /\ IsSeq(job'[w].body)
      /\ Len(job'[w].body) = j /\ Len(job'[w].plain) = j
      /\ job'[w].plain[j] = p /\ \A k \in 1..(j - 1) : job'[w].plain[k] = job[w].plain[k]
      /\ j \in Nat /\ j <= Pieces /\ Len(job[w].plain) = j - 1
  <2>1. /\ IsSeq(job[w].plain) /\ IsSeq(job[w].body)
        /\ Len(job[w].plain) = Len(job[w].body) /\ Len(job[w].body) < Pieces
    BY <1>1, <1>4 DEF Progress
  <2>2. Len(job[w].body) \in Nat /\ Len(job[w].plain) \in Nat
    BY <2>1 DEF IsSeq
  <2>3. j \in Nat /\ j <= Pieces /\ Len(job[w].plain) = j - 1 /\ Len(job[w].body) = j - 1
    BY <1>a, <2>1, <2>2, Counts
  <2>4. Extends(job'[w].plain, job[w].plain, p) /\ Extends(job'[w].body, job[w].body, cell)
    BY <1>3, <2>1, AppendedSeq
  <2>5. /\ IsSeq(job'[w].plain) /\ Len(job'[w].plain) = Len(job[w].plain) + 1
        /\ job'[w].plain[Len(job[w].plain) + 1] = p
        /\ \A k \in 1..Len(job[w].plain) : job'[w].plain[k] = job[w].plain[k]
        /\ IsSeq(job'[w].body) /\ Len(job'[w].body) = Len(job[w].body) + 1
    BY <2>4 DEF Extends
  <2>6. Len(job[w].plain) + 1 = j /\ Len(job[w].body) + 1 = j
    BY <2>2, <2>3
  <2> QED BY <2>3, <2>5, <2>6
<1>6. Progress(w)'
  BY <1>3, <1>5, Counts DEF Progress
<1>7. ASSUME job[w].by = "app" PROVE Reading(w)'
  <2>1. Reading(w)
    BY <1>1, <1>7 DEF CopyOK
  <2>2. p = <<w, memory[w].version, j>>
    BY <1>a, <2>1 DEF PieceRead, Reading
  <2>3. ASSUME NEW k \in 1..j
        PROVE  job'[w].plain[k] = <<w, memory[w].version, k>>
    <3>1. CASE k = j
      BY <1>5, <2>2, <3>1
    <3>2. CASE k # j
      <4>1. k \in 1..(j - 1)
        BY <1>5, <3>2
      <4> QED BY <1>5, <2>1, <4>1 DEF Reading
    <3> QED BY <3>1, <3>2
  <2> QED BY <1>1, <1>3, <1>5, <2>1, <2>3 DEF Reading
<1> QED BY <1>3, <1>6, <1>7 DEF CopyOK

\* A finished job sends all its pieces.
LEMMA ClosedSent ==
  ASSUME ISamples, NEW w \in Writers, Closed(w)
  PROVE  SentOK(JobMessage(w))
<1>1. job[w].at = "final" /\ job[w] # NoJob /\ CopyOK(w)
  BY DEF Closed, NoJob, ISamples
<1>2. /\ JobMessage(w).from = w /\ JobMessage(w).plain = job[w].plain
      /\ JobMessage(w).version = job[w].thunk.version
      /\ JobMessage(w).first = (job[w].by = "app")
  BY DEF JobMessage, Message
<1>3. CASE job[w].by = "app"
  <2>1. Len(job[w].plain) = Pieces /\ IsSeq(job[w].plain) /\ Reading(w)
    BY <1>1, <1>3 DEF CopyOK, Progress
  <2>2. job[w].plain = [j \in 1..Pieces |-> <<w, job[w].thunk.version, j>>]
    BY <2>1 DEF Reading, IsSeq
  <2> QED BY <1>2, <2>2 DEF SentOK
<1>4. CASE job[w].by # "app"
  BY <1>2, <1>4 DEF SentOK
<1> QED BY <1>3, <1>4

\* A step that leaves memory and history alone.
LEMMA SamplesKept ==
  ASSUME ISamples, UNCHANGED <<memory, history>>,
         \A w \in Writers : CopyOK(w)', \A m \in network' : SentOK(m)
  PROVE  ISamples'
BY DEF ISamples, ContentOK, IsContent, SentOK

LEMMA SamplesNext == ASSUME ISessions, IJobs, ISamples, [Next]_vars PROVE ISamples'
<1>1. ASSUME NEW s \in Senders, Encode(s) PROVE ISamples'
  <2>1. PICK level, list, subs :
          /\ level \in {"writer", "reader", "rtps"}
          /\ Sealed(s, level, list, subs) \/ NotSealed(s, level, list, subs)
    BY <1>1, EncodeStep
  <2>2. /\ UNCHANGED <<job, memory, history>>
        /\ UNCHANGED network \/ network' = network \cup {SealedMessage(s, level, list, subs)}
    BY <2>1 DEF Sealed, NotSealed
  <2>3. SentOK(SealedMessage(s, level, list, subs))
    BY <2>1 DEF SealedMessage, Message, SentOK
  <2>4. \A w \in Writers : CopyOK(w)'
    BY <2>2, CopyKept DEF ISamples
  <2>5. \A m \in network' : SentOK(m)
    BY <2>2, <2>3 DEF ISamples
  <2> QED BY <2>2, <2>4, <2>5, SamplesKept
<1>2. ASSUME NEW w \in Writers, NEW n \in PayloadSizes, encode_serialized_payload(w, n)
      PROVE  ISamples'
  <2>1. /\ w \notin Thunked /\ UNCHANGED <<job, memory, history>>
        /\ UNCHANGED network \/ network' = network \cup {PayloadMessage(w, n)}
    BY <1>2, PayloadStep DEF PayloadSealed, PayloadNotSealed
  <2>2. SentOK(PayloadMessage(w, n))
    BY <2>1 DEF PayloadMessage, Message, SentOK
  <2>3. \A v \in Writers : CopyOK(v)'
    BY <2>1, CopyKept DEF ISamples
  <2>4. \A m \in network' : SentOK(m)
    BY <2>1, <2>2 DEF ISamples
  <2> QED BY <2>1, <2>3, <2>4, SamplesKept
<1>3. ASSUME NEW w \in Thunked, Write(w) \/ Resend(w) PROVE ISamples'
  <2>1. PICK by, thunk :
          /\ Turned(w, Last(w)) /\ Begun(w, by, thunk)
          /\ by = "app" => thunk = memory[w]
          /\ history' = [history EXCEPT ![w] = memory[w]] \/ UNCHANGED history
    BY <1>3, ThunkedAreWriters, WriteStep, ResendStep
  <2>2. /\ UNCHANGED <<memory, network>> /\ \A v \in Writers : v # w => job'[v] = job[v]
        /\ job'[w] = JobFor(w, by, thunk) \/ job'[w] = job[w]
    BY <2>1, ThunkedAreWriters DEF Begun, IJobs
  <2>3. ASSUME NEW v \in Writers PROVE CopyOK(v)'
    <3>1. CopyOK(v) /\ memory'[v] = memory[v]
      BY <2>2 DEF ISamples
    <3>2. CASE job'[v] = job[v]
      BY <3>1, <3>2, CopyKept
    <3>3. CASE v = w /\ job'[w] = JobFor(w, by, thunk)
      BY <2>1, <3>1, <3>3, CopyBegun
    <3> QED BY <2>2, <3>2, <3>3
  <2>4. /\ history' = [v \in Writers |-> history'[v]]
        /\ \A v \in Writers : history'[v] = history[v] \/ history'[v] = memory[v]
    BY <2>1 DEF ISamples
  <2>5. \A v \in Writers : /\ ContentOK(history'[v])
                           /\ history'[v].version <= memory[v].version
    BY <2>4 DEF ISamples, ContentOK
  <2> QED BY <2>2, <2>3, <2>4, <2>5 DEF ISamples, ContentOK, IsContent, SentOK
<1>4. ASSUME NEW w \in Thunked, fuse_init(w) \/ serialize_memcpy(w) PROVE ISamples'
  <2>1. w \in Writers /\ UNCHANGED <<memory, history, network>>
    BY <1>4, ThunkedAreWriters DEF fuse_init, serialize_memcpy
  <2>2. \A v \in Writers : v # w => job'[v] = job[v]
    BY <1>4, <2>1, JobSteps
  <2>3. ASSUME NEW v \in Writers PROVE CopyOK(v)'
    <3>1. CopyOK(v) /\ memory'[v] = memory[v]
      BY <2>1 DEF ISamples
    <3>2. CASE v # w
      BY <2>2, <3>1, <3>2, CopyKept
    <3>3. CASE v = w
      BY <1>4, <3>1, <3>3, CopyInitialised, CopyContinued
    <3> QED BY <3>2, <3>3
  <2>4. \A m \in network' : SentOK(m)
    BY <2>1 DEF ISamples
  <2> QED BY <2>1, <2>3, <2>4, SamplesKept
<1>5. ASSUME NEW w \in Thunked, fuse_finalize_enc(w) PROVE ISamples'
  <2>1. w \in Writers /\ Closed(w)
    BY <1>5, ThunkedAreWriters, FinalizeStep
  <2>2. /\ UNCHANGED <<memory, history>> /\ network' = network \cup {JobMessage(w)}
        /\ job'[w] = NoJob /\ \A v \in Writers : v # w => job'[v] = job[v]
    BY <2>1 DEF Closed, IJobs
  <2>3. ASSUME NEW v \in Writers PROVE CopyOK(v)'
    <3>1. CopyOK(v) /\ memory'[v] = memory[v]
      BY <2>2 DEF ISamples
    <3>2. CASE v # w
      BY <2>2, <3>1, <3>2, CopyKept
    <3>3. CASE v = w
      BY <2>2, <3>3 DEF CopyOK, NoJob
    <3> QED BY <3>2, <3>3
  <2>4. \A m \in network' : SentOK(m)
    BY <2>1, <2>2, ClosedSent DEF ISamples
  <2> QED BY <2>2, <2>3, <2>4, SamplesKept
<1>6. ASSUME NEW w \in Thunked, NEW n \in PayloadSizes, Update(w, n) PROVE ISamples'
  <2>1. w \in Writers /\ UNCHANGED <<job, history, network>> /\ ContentOK(memory[w])
    BY <1>6, ThunkedAreWriters DEF Update, ISamples
  <2>2. PICK a : memory' = [memory EXCEPT ![w] = [alloc |-> a, n |-> n,
                                                  version |-> memory[w].version + 1]]
    BY <1>6 DEF Update, ISamples
  <2>3. memory[w].version + 1 \in 0..MaxVersions
    BY <1>6, <2>1, Counts DEF Update, ContentOK
  <2>4. /\ memory' = [v \in Writers |-> memory'[v]]
        /\ memory'[w] = [alloc |-> a, n |-> n, version |-> memory[w].version + 1]
        /\ \A v \in Writers : v # w => memory'[v] = memory[v]
    BY <2>1, <2>2 DEF ISamples
  <2>5. ContentOK(memory'[w]) /\ memory'[w].version = memory[w].version + 1
    BY <2>3, <2>4, Counts DEF ContentOK, IsContent
  <2>6. \A v \in Writers : /\ ContentOK(memory'[v])
                           /\ history[v].version <= memory'[v].version
    <3> SUFFICES ASSUME NEW v \in Writers
                 PROVE  ContentOK(memory'[v]) /\ history[v].version <= memory'[v].version
      OBVIOUS
    <3>1. ContentOK(memory[v]) /\ ContentOK(history[v])
          /\ history[v].version <= memory[v].version
      BY DEF ISamples
    <3>2. CASE v # w
      BY <2>4, <3>1, <3>2
    <3>3. CASE v = w
      BY <2>5, <3>1, <3>3, Counts DEF ContentOK
    <3> QED BY <3>2, <3>3
  <2>7. ASSUME NEW v \in Writers PROVE CopyOK(v)'
    <3>1. memory'[v] = memory[v] \/ (job[v] # NoJob => job[v].by # "app")
      BY <1>6, <2>4 DEF Update
    <3>2. CopyOK(v) /\ job'[v] = job[v]
      BY <2>1 DEF ISamples
    <3> QED BY <3>1, <3>2, CopyKept
  <2> QED BY <2>1, <2>4, <2>6, <2>7 DEF ISamples, ContentOK, IsContent, SentOK
<1>7. CASE UNCHANGED <<job, memory, history, network>>
  <2>1. \A v \in Writers : CopyOK(v)'
    BY <1>7, CopyKept DEF ISamples
  <2>2. \A m \in network' : SentOK(m)
    BY <1>7 DEF ISamples
  <2> QED BY <1>7, <2>1, <2>2, SamplesKept
<1>8. ASSUME NEW x, RegisterRemote(x) \/ TokenArrives(x) PROVE ISamples'
  BY <1>7, <1>8 DEF RegisterRemote, TokenArrives
<1> QED BY <1>1, <1>2, <1>3, <1>4, <1>5, <1>6, <1>7, <1>8, NextCases DEF vars

\* The first payload made of a write() is, piece by piece, the content the
\* sample had when write() was called: the application's thread is in that call
\* until the job is closed, so nothing is written to the vector meanwhile.
THEOREM SentIsWritten == Spec => []SentAsWritten
<1>1. Init => ISessions /\ IJobs /\ ISamples
  BY JobsInit, SamplesInit
<1>2. ISessions /\ IJobs /\ ISamples /\ [Next]_vars => (ISessions /\ IJobs /\ ISamples)'
  BY JobsNext, SamplesNext
<1>3. ISamples => SentAsWritten
  BY DEF ISamples, SentOK, SentAsWritten
<1> QED BY <1>1, <1>2, <1>3, PTL DEF Spec

-----------------------------------------------------------------------------
(* Room.                                                                   *)

\* The middleware has prepared a buffer for every body and every receiver.
LEMMA RoomPrepared ==
  ASSUME NEW s \in Senders, IsFiniteSet(Peers(s)), NEW list \in SUBSET Peers(s), NEW subs,
         PlainLength(subs) \in Nat
  PROVE  MessageFits(Kinds[s][1], PlainLength(subs), Cardinality(Addressed(s, list)),
                     MessageBuffer(s, subs))
<1>1. IsFiniteSet(Addressed(s, list)) /\ Cardinality(Peers(s)) \in Nat
      /\ Cardinality(Addressed(s, list)) \in 0..Cardinality(Peers(s))
  <2>1. Addressed(s, list) \in SUBSET Peers(s)
    BY DEF Addressed
  <2>2. /\ IsFiniteSet(Addressed(s, list))
        /\ Cardinality(Addressed(s, list)) <= Cardinality(Peers(s))
    BY <2>1, FS_Subset
  <2> QED BY <2>2, FS_CardinalityType
<1>2. MessageBuffer(s, subs) =
        PlainLength(subs) + calculate_extra_size_for_rtps_submessage(Cardinality(Peers(s)))
  <2>1. PrefixLength + HeaderLength + 7 + 16 + PrefixLength + 16 = 67
    BY DEF PrefixLength, HeaderLength
  <2> QED BY <2>1 DEF calculate_extra_size_for_rtps_submessage, MessageBuffer
<1> QED BY <1>1, <1>2, RoomForMessages

\* What the fast path writes ends before the buffer of a thunk does.
LEMMA RoomForThunk ==
  ASSUME NEW n \in Nat, NEW discovered \in Nat
  PROVE  ~(PayloadEnd("aes256_gcm", n)
               > n + 24 + calculate_extra_size_for_encoded_payload(discovered))
<1> DEFINE extra == calculate_extra_size_for_encoded_payload(discovered)
<1>1. PayloadEnd("aes256_gcm", n) <= n + extra /\ PayloadEnd("aes256_gcm", n) \in Nat
  <2>1. PayloadFits("aes256_gcm", n, n + extra)
    BY RoomForPayloads
  <2>2. PayloadTagAt("aes256_gcm", n) \in Nat
    <3>1. PICK prefix \in {0, 4} : PayloadTagAt("aes256_gcm", n) = 20 + prefix + n
      BY PayloadBodyBounds
    <3> QED BY <3>1
  <2> QED BY <2>1, <2>2, TagBounds DEF PayloadFits, PayloadEnd
<1>2. extra \in Nat
  <2>1. HeaderLength + 7 + 16 + 16 = 59
    BY DEF HeaderLength
  <2> QED BY <2>1 DEF calculate_extra_size_for_encoded_payload, Extra
<1> QED BY <1>1, <1>2

\* No encoder ever runs out of room, provided that every sender has finitely
\* many peers and the plain messages have lengths.
THEOREM NobodyRefused ==
  ASSUME \A s \in Senders : IsFiniteSet(Peers(s))
  PROVE  Spec => []NothingRefused
<1>a. \A s \in Senders : Cardinality(Peers(s)) \in Nat
  BY FS_CardinalityType
<1>b. \A subs \in Bodies : PlainLength(subs) \in Nat
  BY PlainTextWalked, BodiesAssumption
<1>1. Init => ISessions /\ IJobs /\ ISamples /\ NothingRefused
  BY JobsInit, SamplesInit DEF Init, NothingRefused
<1>2. ASSUME ISessions, IJobs, ISamples, NothingRefused, [Next]_vars PROVE NothingRefused'
  <2>1. ASSUME NEW s \in Senders, Encode(s) PROVE UNCHANGED refused
    <3>1. PICK level \in {"writer", "reader", "rtps"}, list \in SUBSET Peers(s),
              subs \in Bodies :
            Sealed(s, level, list, subs) \/ NotSealed(s, level, list, subs)
      BY <2>1, EncodeStep
    <3>2. ~NotSealed(s, level, list, subs)
      BY <1>b, RoomPrepared DEF NotSealed
    <3> QED BY <3>1, <3>2 DEF Sealed
  <2>2. ASSUME NEW w \in Writers, NEW n \in PayloadSizes, encode_serialized_payload(w, n)
        PROVE  UNCHANGED refused
    <3>1. PayloadFits(Kinds[w][Last(w)], n, PayloadBuffer(w, n))
      BY <1>a, RoomForPayloads, Counts DEF PayloadBuffer, Senders
    <3> QED BY <2>2, <3>1, PayloadStep DEF PayloadSealed, PayloadNotSealed
  <2>3. ASSUME NEW w \in Thunked, Write(w) \/ Resend(w) PROVE UNCHANGED refused
    <3>1. w \in Writers /\ w \in Senders /\ memory[w].n \in Nat /\ history[w].n \in Nat
      BY <1>2, ThunkedAreWriters DEF ISamples, ContentOK
    <3>2. PICK by, thunk : Begun(w, by, thunk) /\ thunk.n \in Nat
      BY <2>3, <3>1, WriteStep, ResendStep
    <3>3. ~(PayloadEnd("aes256_gcm", thunk.n) >
              thunk.n + 24 + calculate_extra_size_for_encoded_payload(Cardinality(Peers(w))))
      BY <1>a, <3>1, <3>2, RoomForThunk
    <3> QED BY <3>2, <3>3 DEF Begun
  <2>4. ASSUME NEW w \in Thunked, fuse_init(w) \/ serialize_memcpy(w) \/ fuse_finalize_enc(w)
        PROVE  UNCHANGED refused
    BY <2>4 DEF fuse_init, serialize_memcpy, fuse_finalize_enc
  <2> QED BY <1>2, <2>1, <2>2, <2>3, <2>4, NextCases, OtherSteps DEF vars, NothingRefused
<1>3. ISessions /\ IJobs /\ ISamples /\ NothingRefused /\ [Next]_vars
        => (ISessions /\ IJobs /\ ISamples /\ NothingRefused)'
  BY <1>2, JobsNext, SamplesNext
<1> QED BY <1>1, <1>3, PTL DEF Spec

-----------------------------------------------------------------------------
(* Types.                                                                  *)

IsEngine(e) == e = [key |-> e.key, iv |-> e.iv, ctr |-> e.ctr, hash |-> e.hash, len |-> e.len,
                    on |-> e.on]
EngineOK(e) == IsEngine(e) /\ e.on \in BOOLEAN

IEngines == engine = [p \in Participants |-> engine[p]] /\ \A p \in Participants : EngineOK(engine[p])

ProgressKnown == {"none", "registered", "known"}
SessionIds == Nat \cup {NoSession, Junk}

IPairs ==
    /\ exchange = [x \in Pairs |-> exchange[x]] /\ specific = [x \in Pairs |-> specific[x]]
    /\ \A x \in Pairs : exchange[x] \in ProgressKnown /\ specific[x].session_id \in SessionIds

\* An IV that has been drawn.
HasDrawn(iv) == iv.suffix \in 1..drawn

IDraws ==
    /\ drawn \in 0..MaxMessages
    /\ \A w \in Writers : job[w] # NoJob => HasDrawn(job[w].iv)
    /\ \A m \in network : HasDrawn(m.iv)

\* Processes are where encoders run.
LEMMA Processes ==
  ASSUME NEW s \in Senders
  PROVE  ProcessOf(s) \in Participants /\ (s \in Writers => ProcessOf(s) = Home[s])
BY TransformAssumption, SeparateSenders DEF ProcessOf, Senders

LEMMA HookedEngine ==
  ASSUME NEW e, EngineOK(e), NEW kind, NEW cells, NEW stores
  PROVE  EngineOK(Hooked(e, kind, cells, stores)) /\ Hooked(e, kind, cells, stores).on = e.on
<1>1. CASE ~e.on
  BY <1>1 DEF Hooked
<1>2. CASE e.on
  <2>1. PICK hash, ctr, len :
          Hooked(e, kind, cells, stores) = [e EXCEPT !.hash = hash, !.ctr = ctr, !.len = len]
    BY <1>2 DEF Hooked
  <2> QED BY <2>1 DEF EngineOK, IsEngine
<1> QED BY <1>1, <1>2

\* One engine replaced.
LEMMA EngineReplaced ==
  ASSUME IEngines, NEW p \in Participants, NEW e, EngineOK(e),
         engine' = [engine EXCEPT ![p] = e]
  PROVE  IEngines' /\ engine'[p] = e /\ \A q \in Participants : q # p => engine'[q] = engine[q]
<1>1. /\ engine' = [q \in Participants |-> engine'[q]] /\ engine'[p] = e
      /\ \A q \in Participants : q # p => engine'[q] = engine[q]
  BY DEF IEngines
<1>2. ASSUME NEW q \in Participants PROVE EngineOK(engine'[q])
  BY <1>1 DEF IEngines
<1> QED BY <1>1, <1>2 DEF IEngines, EngineOK, IsEngine

\* What fuse_init makes of an engine.
Started(e, key, iv) == [EngineInit(e, key, iv) EXCEPT !.len = 0, !.on = TRUE]

LEMMA InitialisedEngine ==
  ASSUME NEW e, EngineOK(e), NEW key, NEW iv, NEW f, f = Started(e, key, iv)
  PROVE  /\ EngineOK(f) /\ f.key = key /\ f.iv = iv /\ f.ctr = 1 /\ f.hash = << >>
         /\ f.len = 0 /\ f.on
<1>1. PICK g : g = EngineInit(e, key, iv)
  OBVIOUS
<1>2. IsEngine(g) /\ g.key = key /\ g.iv = iv /\ g.ctr = 1 /\ g.hash = << >>
  BY <1>1 DEF EngineOK, IsEngine, EngineInit
<1>3. PICK v : v = TRUE
  OBVIOUS
<1>4. f = [g EXCEPT !.len = 0, !.on = v]
  BY <1>1, <1>3 DEF Started
<1>5. IsEngine(f) /\ f.key = key /\ f.iv = iv /\ f.ctr = 1 /\ f.hash = << >>
      /\ f.len = 0 /\ f.on = v
  BY <1>2, <1>4 DEF IsEngine
<1> QED BY <1>3, <1>5 DEF EngineOK

LEMMA AbsorbedEngine ==
  ASSUME NEW e, EngineOK(e), NEW cell, NEW f, f = Absorb(e, cell)
  PROVE  /\ EngineOK(f) /\ f.key = e.key /\ f.iv = e.iv /\ f.ctr = e.ctr + 1
         /\ f.hash = Append(e.hash, cell) /\ f.len = e.len + 1 /\ f.on = e.on
<1>1. IsEngine(f) /\ f.key = e.key /\ f.iv = e.iv /\ f.ctr = e.ctr + 1
      /\ f.hash = Append(e.hash, cell) /\ f.len = e.len + 1 /\ f.on = e.on
  BY DEF Absorb, EngineOK, IsEngine
<1> QED BY <1>1 DEF EngineOK

LEMMA ClosedEngine ==
  ASSUME NEW e, EngineOK(e), NEW f, f = [e EXCEPT !.on = FALSE]
  PROVE  EngineOK(f) /\ ~f.on
<1>1. PICK v : v = FALSE
  OBVIOUS
<1>2. f = [e EXCEPT !.on = v]
  BY <1>1
<1>3. IsEngine(f) /\ f.on = v
  BY <1>2 DEF EngineOK, IsEngine
<1> QED BY <1>1, <1>3 DEF EngineOK

\* What a step does to the engine of some process, if it does anything.
LEMMA EnginesNext == ASSUME IEngines, [Next]_vars PROVE IEngines'
<1>1. ASSUME UNCHANGED engine PROVE IEngines'
  BY <1>1 DEF IEngines, EngineOK, IsEngine
<1>2. ASSUME NEW s \in Senders, Encode(s) PROVE IEngines'
  <2>1. PICK level, list, subs :
          /\ level \in {"writer", "reader", "rtps"}
          /\ Sealed(s, level, list, subs) \/ NotSealed(s, level, list, subs)
    BY <1>2, EncodeStep
  <2>2. PICK kind, cells, stores :
          \/ engine' = [engine EXCEPT ![ProcessOf(s)] =
                           Hooked(engine[ProcessOf(s)], kind, cells, stores)]
          \/ UNCHANGED engine
    BY <2>1 DEF Sealed, NotSealed
  <2>3. EngineOK(Hooked(engine[ProcessOf(s)], kind, cells, stores))
    BY Processes, HookedEngine DEF IEngines
  <2> QED BY <1>1, <2>2, <2>3, Processes, EngineReplaced
<1>3. ASSUME NEW w \in Writers, NEW n \in PayloadSizes, encode_serialized_payload(w, n)
      PROVE  IEngines'
  <2>1. PICK kind, cells, stores :
          \/ engine' = [engine EXCEPT ![Home[w]] = Hooked(engine[Home[w]], kind, cells, stores)]
          \/ UNCHANGED engine
    BY <1>3, PayloadStep DEF PayloadSealed, PayloadNotSealed
  <2>2. Home[w] \in Participants
    BY TransformAssumption
  <2>3. EngineOK(Hooked(engine[Home[w]], kind, cells, stores))
    BY <2>2, HookedEngine DEF IEngines
  <2> QED BY <1>1, <2>1, <2>2, <2>3, EngineReplaced
<1>4. ASSUME NEW w \in Thunked, Write(w) \/ Resend(w) PROVE IEngines'
  BY <1>1, <1>4 DEF Write, Resend
<1>5. ASSUME NEW w \in Thunked, fuse_init(w) PROVE IEngines'
  <2>1. Home[w] \in Participants
    BY TransformAssumption
  <2>2. EngineOK(engine[Home[w]])
    BY <2>1 DEF IEngines
  <2>3. engine' = [engine EXCEPT ![Home[w]] =
                      Started(engine[Home[w]], <<32, job[w].ses.SessionKey>>, job[w].iv)]
    BY <1>5 DEF fuse_init, Started
  <2>4. EngineOK(Started(engine[Home[w]], <<32, job[w].ses.SessionKey>>, job[w].iv))
    BY <2>2, InitialisedEngine
  <2> QED BY <2>1, <2>3, <2>4, EngineReplaced
<1>6. ASSUME NEW w \in Thunked, serialize_memcpy(w) PROVE IEngines'
  <2>1. Home[w] \in Participants
    BY TransformAssumption
  <2>2. EngineOK(engine[Home[w]])
    BY <2>1 DEF IEngines
  <2>3. PICK cell : \/ engine' = [engine EXCEPT ![Home[w]] = Absorb(engine[Home[w]], cell)]
                    \/ UNCHANGED engine
    BY <1>6 DEF serialize_memcpy
  <2>4. EngineOK(Absorb(engine[Home[w]], cell))
    BY <2>2, AbsorbedEngine
  <2> QED BY <1>1, <2>1, <2>3, <2>4, EngineReplaced
<1>7. ASSUME NEW w \in Thunked, fuse_finalize_enc(w) PROVE IEngines'
  <2>1. Home[w] \in Participants
    BY TransformAssumption
  <2>2. EngineOK(engine[Home[w]])
    BY <2>1 DEF IEngines
  <2>3. engine' = [engine EXCEPT ![Home[w]] = [engine[Home[w]] EXCEPT !.on = FALSE]]
    BY <1>7, <2>1 DEF fuse_finalize_enc
  <2> QED BY <2>1, <2>2, <2>3, ClosedEngine, EngineReplaced
<1> QED BY <1>1, <1>2, <1>3, <1>4, <1>5, <1>6, <1>7, NextCases, OtherSteps DEF vars

LEMMA EnginesInit == ASSUME Init PROVE IEngines
<1>1. EngineOK(UnusedEngine)
  BY DEF UnusedEngine, EngineOK, IsEngine
<1> QED BY <1>1 DEF Init, IEngines

\* Key exchange goes forward, and receivers' sessions are sessions.
LEMMA PairsNext == ASSUME ISessions, IPairs, [Next]_vars PROVE IPairs'
<1>1. ASSUME NEW s \in Senders, Encode(s) PROVE IPairs'
  <2>1. PICK level, list, subs :
          /\ level \in {"writer", "reader", "rtps"}
          /\ Turned(s, 1)
          /\ Sealed(s, level, list, subs) \/ NotSealed(s, level, list, subs)
    BY <1>1, EncodeStep
  <2>2. UNCHANGED exchange /\ (UNCHANGED specific \/ specific' = KeysAfter(s, list))
    BY <2>1 DEF Sealed, NotSealed
  <2>3. Rotated(s, 1).session_id \in Nat
    BY <2>1, FirstAndLast, TurnedSessions DEF InUse, SessionOK
  <2>4. /\ KeysAfter(s, list) = [x \in Pairs |-> KeysAfter(s, list)[x]]
        /\ \A x \in Pairs :
              \/ KeysAfter(s, list)[x] = specific[x]
              \/ \E r : KeysAfter(s, list)[x] =
                          RefreshedSession(engine[ProcessOf(s)], s, Kinds[s][1], r,
                                           Rotated(s, 1).session_id)
    BY DEF KeysAfter, SpecificAfter
  <2>5. \A r : RefreshedSession(engine[ProcessOf(s)], s, Kinds[s][1], r,
                                Rotated(s, 1).session_id).session_id
                 \in {Junk, Rotated(s, 1).session_id}
    BY DEF RefreshedSession
  <2>6. \A x \in Pairs : KeysAfter(s, list)[x].session_id \in SessionIds
    BY <2>3, <2>4, <2>5 DEF IPairs, SessionIds
  <2> QED BY <2>2, <2>4, <2>6 DEF IPairs, ProgressKnown, SessionIds, NoSession
<1>2. ASSUME NEW x \in Pairs, RegisterRemote(x) \/ TokenArrives(x) PROVE IPairs'
  <2>1. PICK progress \in ProgressKnown : exchange' = [exchange EXCEPT ![x] = progress]
    BY <1>2 DEF RegisterRemote, TokenArrives, ProgressKnown
  <2>2. UNCHANGED specific
    BY <1>2 DEF RegisterRemote, TokenArrives
  <2>3. /\ exchange' = [y \in Pairs |-> exchange'[y]]
        /\ \A y \in Pairs : exchange'[y] \in ProgressKnown
    BY <2>1 DEF IPairs
  <2> QED BY <2>2, <2>3 DEF IPairs, ProgressKnown, SessionIds, NoSession
<1>3. ASSUME UNCHANGED <<exchange, specific>> PROVE IPairs'
  BY <1>3 DEF IPairs, ProgressKnown, SessionIds, NoSession
<1>4. ASSUME NEW w \in Writers, NEW n, encode_serialized_payload(w, n) PROVE IPairs'
  BY <1>3, <1>4 DEF encode_serialized_payload
<1>5. ASSUME NEW w, Write(w) \/ Resend(w) \/ fuse_init(w) \/ serialize_memcpy(w)
                       \/ fuse_finalize_enc(w)
      PROVE  IPairs'
  BY <1>3, <1>5 DEF Write, Resend, fuse_init, serialize_memcpy, fuse_finalize_enc
<1>6. ASSUME NEW w, NEW n, Update(w, n) PROVE IPairs'
  BY <1>3, <1>6 DEF Update
<1> QED BY <1>1, <1>2, <1>3, <1>4, <1>5, <1>6, NextCases DEF vars

LEMMA PairsInit == ASSUME Init PROVE IPairs
BY DEF Init, IPairs, ProgressKnown, SessionIds, FreshSpecific

\* Drawing one more IV.
LEMMA DrawnMore ==
  ASSUME IDraws, drawn' = drawn + 1, drawn < MaxMessages
  PROVE  /\ drawn' \in 0..MaxMessages
         /\ \A ses : Drawn(ses).suffix \in 1..drawn'
         /\ \A iv : HasDrawn(iv) => iv.suffix \in 1..drawn'
<1>1. drawn \in Nat /\ MaxMessages \in Nat
  BY Counts DEF IDraws
<1>2. drawn' \in 0..MaxMessages
  BY <1>1
<1>3. \A iv : HasDrawn(iv) => iv.suffix \in 1..drawn'
  BY <1>1 DEF HasDrawn
<1>4. \A ses : Drawn(ses).suffix = drawn + 1
  BY DEF Drawn
<1>5. drawn + 1 \in 1..drawn'
  BY <1>1
<1> QED BY <1>2, <1>3, <1>4, <1>5

LEMMA DrawsNext == ASSUME ISessions, IJobs, IDraws, [Next]_vars PROVE IDraws'
<1>1. ASSUME NEW s \in Senders, NEW i, Turned(s, i), UNCHANGED job,
             \/ UNCHANGED network
             \/ \E m : network' = network \cup {m} /\ m.iv = Drawn(Rotated(s, i))
      PROVE  IDraws'
  <2>1. drawn' = drawn + 1 /\ drawn < MaxMessages
    BY <1>1 DEF Turned, Free
  <2>2. \A m \in network' : m.iv.suffix \in 1..drawn'
    BY <1>1, <2>1, DrawnMore DEF IDraws
  <2>3. \A w \in Writers : job'[w] # NoJob => job'[w].iv.suffix \in 1..drawn'
    BY <1>1, <2>1, DrawnMore DEF IDraws
  <2> QED BY <2>1, <2>2, <2>3, DrawnMore DEF IDraws, HasDrawn, NoJob
<1>2. ASSUME NEW s \in Senders, Encode(s) PROVE IDraws'
  <2>1. PICK level, list, subs :
          /\ level \in {"writer", "reader", "rtps"}
          /\ Turned(s, 1)
          /\ Sealed(s, level, list, subs) \/ NotSealed(s, level, list, subs)
    BY <1>2, EncodeStep
  <2>2. SealedMessage(s, level, list, subs).iv = Drawn(Rotated(s, 1))
    BY DEF SealedMessage, Message
  <2>3. UNCHANGED job /\ (UNCHANGED network
                              \/ network' = network \cup {SealedMessage(s, level, list, subs)})
    BY <2>1 DEF Sealed, NotSealed
  <2> QED BY <1>1, <2>1, <2>2, <2>3
<1>3. ASSUME NEW w \in Writers, NEW n \in PayloadSizes, encode_serialized_payload(w, n)
      PROVE  IDraws'
  <2>1. PayloadMessage(w, n).iv = Drawn(Rotated(w, Last(w)))
    BY DEF PayloadMessage, Message
  <2>2. /\ Turned(w, Last(w)) /\ UNCHANGED job
        /\ UNCHANGED network \/ network' = network \cup {PayloadMessage(w, n)}
    BY <1>3, PayloadStep DEF PayloadSealed, PayloadNotSealed
  <2> QED BY <1>1, <2>1, <2>2 DEF Senders
<1>4. ASSUME NEW w \in Thunked, Write(w) \/ Resend(w) PROVE IDraws'
  <2>1. PICK by, thunk : Turned(w, Last(w)) /\ Begun(w, by, thunk)
    BY <1>4, ThunkedAreWriters, WriteStep, ResendStep
  <2>2. CASE UNCHANGED job
    BY <1>1, <2>1, <2>2, ThunkedAreWriters DEF Begun
  <2>3. CASE job' = [job EXCEPT ![w] = JobFor(w, by, thunk)]
    <3>1. drawn' = drawn + 1 /\ drawn < MaxMessages /\ UNCHANGED network
      BY <2>1 DEF Turned, Free, Begun
    <3>2. job'[w].iv = Drawn(Rotated(w, Last(w)))
          /\ \A v \in Writers : v # w => job'[v] = job[v]
      BY <2>3, ThunkedAreWriters DEF IJobs, JobFor
    <3>3. \A m \in network' : m.iv.suffix \in 1..drawn'
      BY <3>1, DrawnMore DEF IDraws
    <3>4. \A v \in Writers : job'[v] # NoJob => job'[v].iv.suffix \in 1..drawn'
      BY <3>1, <3>2, DrawnMore DEF IDraws
    <3> QED BY <3>1, <3>3, <3>4, DrawnMore DEF IDraws, HasDrawn, NoJob
  <2> QED BY <2>1, <2>2, <2>3 DEF Begun
<1>5. ASSUME NEW w \in Writers, UNCHANGED <<drawn, network>>,
             \A v \in Writers : v # w => job'[v] = job[v],
             job'[w] = NoJob \/ (job[w] # NoJob /\ job'[w].iv = job[w].iv)
      PROVE  IDraws'
  BY <1>5 DEF IDraws, HasDrawn, NoJob
<1>6. ASSUME NEW w \in Thunked, fuse_init(w) \/ serialize_memcpy(w) PROVE IDraws'
  <2>1. /\ w \in Writers /\ UNCHANGED <<drawn, network>> /\ DOMAIN job = Writers
        /\ job[w] # NoJob /\ \A v \in Writers : v # w => job'[v] = job[v]
    BY <1>6, ThunkedAreWriters, JobSteps DEF fuse_init, serialize_memcpy, IJobs
  <2>2. IsJob(job[w])
    BY <2>1 DEF IJobs, JobOK
  <2>3. CASE fuse_init(w)
    <3>1. job'[w] = [job[w] EXCEPT !.at = "copy"]
      BY <2>1, <2>3 DEF fuse_init
    <3> QED BY <1>5, <2>1, <2>2, <3>1 DEF IsJob
  <2>4. CASE serialize_memcpy(w)
    <3>1. PICK at, f, p, b :
            job'[w] = [job[w] EXCEPT !.fused = f, !.plain = p, !.body = b, !.at = at]
      BY <2>1, <2>4 DEF serialize_memcpy
    <3>2. job'[w].iv = job[w].iv
      BY <2>2, <3>1 DEF IsJob
    <3> QED BY <1>5, <2>1, <3>2
  <2> QED BY <1>6, <2>3, <2>4
<1>7. ASSUME NEW w \in Thunked, fuse_finalize_enc(w) PROVE IDraws'
  <2>1. /\ w \in Writers /\ Closed(w) /\ job[w] # NoJob
        /\ \A v \in Writers : v # w => job'[v] = job[v]
    BY <1>7, ThunkedAreWriters, FinalizeStep, JobSteps
  <2>2. /\ job'[w] = NoJob /\ UNCHANGED drawn /\ network' = network \cup {JobMessage(w)}
    BY <2>1 DEF Closed, IJobs
  <2>3. JobMessage(w).iv = job[w].iv
    BY DEF JobMessage, Message
  <2>4. \A m \in network' : HasDrawn(m.iv)
    BY <2>1, <2>2, <2>3 DEF IDraws
  <2> QED BY <2>1, <2>2, <2>4 DEF IDraws, HasDrawn, NoJob
<1>8. CASE UNCHANGED <<drawn, job, network>>
  BY <1>8 DEF IDraws, HasDrawn, NoJob
<1> QED BY <1>2, <1>3, <1>4, <1>6, <1>7, <1>8, NextCases, OtherSteps DEF vars

LEMMA DrawsInit == ASSUME Init PROVE IDraws
BY Counts DEF Init, IDraws

\* What the encoders and the fast path keep between two calls is well formed.
THEOREM TypeCorrect == Spec => []TypeOK
<1>1. Init => ISessions /\ IJobs /\ ISamples /\ IEngines /\ IPairs /\ IDraws
  BY JobsInit, SamplesInit, EnginesInit, PairsInit, DrawsInit
<1>2. ISessions /\ IJobs /\ ISamples /\ IEngines /\ IPairs /\ IDraws /\ [Next]_vars
        => (ISessions /\ IJobs /\ ISamples /\ IEngines /\ IPairs /\ IDraws)'
  BY JobsNext, SamplesNext, EnginesNext, PairsNext, DrawsNext
<1>3. ASSUME ISessions, IJobs, ISamples, IEngines, IPairs, IDraws PROVE TypeOK
  <2>1. \A s \in Senders : \A i \in DOMAIN Kinds[s] :
          /\ sessions[s][i].session_id \in Nat
          /\ sessions[s][i].session_block_counter \in 0..BlockLimit
    BY <1>3 DEF ISessions, SessionOK
  <2>2. \A x \in Pairs : /\ exchange[x] \in {"none", "registered", "known"}
                         /\ specific[x].session_id \in Nat \cup {NoSession, Junk}
    BY <1>3 DEF IPairs, ProgressKnown, SessionIds
  <2>3. \A p \in Participants : engine[p].on \in BOOLEAN
    BY <1>3 DEF IEngines, EngineOK
  <2>4. ASSUME NEW w \in Writers
        PROVE  /\ job[w].at \in {"none", "init", "copy", "final"}
               /\ memory[w].version \in 0..MaxVersions
               /\ history[w].version \in 0..memory[w].version
    <3>1. job[w].at \in {"none", "init", "copy", "final"}
      BY <1>3 DEF IJobs, JobOK, NoJob
    <3>2. /\ memory[w].version \in 0..MaxVersions /\ history[w].version \in 0..MaxVersions
          /\ history[w].version <= memory[w].version
      BY <1>3 DEF ISamples, ContentOK
    <3> QED BY <3>1, <3>2, Counts
  <2>5. \A m \in network : m.iv.suffix \in 1..drawn
    BY <1>3 DEF IDraws, HasDrawn
  <2>6. drawn \in 0..MaxMessages
    BY <1>3 DEF IDraws
  <2> QED BY <2>1, <2>2, <2>3, <2>4, <2>5, <2>6 DEF TypeOK
<1> QED BY <1>1, <1>2, <1>3, PTL DEF Spec

-----------------------------------------------------------------------------
(***************************************************************************)
(* Proofs about what SecureTransform's receivers accept and to whom they   *)
(* give it, for any participants, entities, materials and bounds: routing, *)
(* and, as long as no encoder of a process runs beside its fast path, that *)
(* receivers' MACs are made with current keys and that only genuine        *)
(* messages are handed over.                                               *)
(***************************************************************************)

-----------------------------------------------------------------------------
(* Where submessages go.                                                   *)

\* Submessages are protected by entities, with their first key.
Submessage(m) ==
    /\ m.level = "writer" => m.from \in Writers /\ m.key_id = <<m.from, 1>>
    /\ m.level = "reader" => m.from \in Readers /\ m.key_id = <<m.from, 1>>
ISubmessages == \A m \in network : Submessage(m)

\* What is on the network after a step.
LEMMA NetworkNext ==
  ASSUME [Next]_vars, NEW m \in network'
  PROVE  \/ m \in network
         \/ \E s \in Senders, level \in {"writer", "reader", "rtps"} :
               \E list \in SUBSET Peers(s), subs \in Bodies :
                  /\ level = "writer" => s \in Writers
                  /\ level = "reader" => s \in Readers
                  /\ Turned(s, 1) /\ Sealed(s, level, list, subs)
                  /\ m = SealedMessage(s, level, list, subs)
         \/ \E w \in Writers, n \in PayloadSizes :
               Turned(w, Last(w)) /\ PayloadSealed(w, n) /\ m = PayloadMessage(w, n)
         \/ \E w \in Writers : w \in Thunked /\ Closed(w) /\ m = JobMessage(w)
<1>1. ASSUME NEW s \in Senders, Encode(s)
      PROVE  \/ m \in network
             \/ \E level \in {"writer", "reader", "rtps"} :
                   \E list \in SUBSET Peers(s), subs \in Bodies :
                      /\ level = "writer" => s \in Writers
                      /\ level = "reader" => s \in Readers
                      /\ Turned(s, 1) /\ Sealed(s, level, list, subs)
                      /\ m = SealedMessage(s, level, list, subs)
  BY <1>1, EncodeStep DEF Sealed, NotSealed
<1>2. ASSUME NEW w \in Writers, NEW n \in PayloadSizes, encode_serialized_payload(w, n)
      PROVE  \/ m \in network
             \/ Turned(w, Last(w)) /\ PayloadSealed(w, n) /\ m = PayloadMessage(w, n)
  BY <1>2, PayloadStep DEF PayloadSealed, PayloadNotSealed
<1>3. ASSUME NEW w \in Thunked, fuse_finalize_enc(w)
      PROVE  m \in network \/ (Closed(w) /\ m = JobMessage(w))
  BY <1>3, ThunkedAreWriters, FinalizeStep DEF Closed
<1>4. ASSUME NEW w \in Thunked, Write(w) \/ Resend(w) \/ fuse_init(w) \/ serialize_memcpy(w)
      PROVE  m \in network
  BY <1>4 DEF Write, Resend, fuse_init, serialize_memcpy
<1> QED BY <1>1, <1>2, <1>3, <1>4, NextCases, OtherSteps, ThunkedAreWriters DEF vars

LEMMA SubmessagesNext == ASSUME ISubmessages, [Next]_vars PROVE ISubmessages'
<1> SUFFICES ASSUME NEW m \in network' PROVE Submessage(m)
  BY DEF ISubmessages, Submessage
<1>1. ASSUME NEW s \in Senders, NEW level \in {"writer", "reader", "rtps"}, NEW list, NEW subs,
             level = "writer" => s \in Writers, level = "reader" => s \in Readers,
             m = SealedMessage(s, level, list, subs)
      PROVE  Submessage(m)
  BY <1>1 DEF SealedMessage, Message, Submessage
<1>2. ASSUME NEW w \in Writers, NEW n, m = PayloadMessage(w, n) PROVE Submessage(m)
  BY <1>2 DEF PayloadMessage, Message, Submessage
<1>3. ASSUME NEW w \in Writers, m = JobMessage(w) PROVE Submessage(m)
  BY <1>3 DEF JobMessage, Message, Submessage
<1>4. CASE m \in network
  BY <1>4 DEF ISubmessages
<1> QED BY <1>1, <1>2, <1>3, <1>4, NetworkNext

\* Entities and the peers of entities are not participants.
LEMMA EntityPeers ==
  ASSUME NEW x \in Pairs, x[1] \in Writers \cup Readers
  PROVE  /\ x[2] \in Writers \cup Readers /\ ProcessOf(x[2]) = Home[x[2]]
         /\ x[2] \in Peers(x[1]) /\ x[1] \in Senders
BY SeparateSenders DEF Pairs, Peers, ProcessOf, Senders

\* Whom a submessage's routing can find.
LEMMA FoundRecipients ==
  ASSUME NEW p \in Participants, NEW q, NEW entities \in {Writers, Readers}, NEW m,
         m.from \in Writers \cup Readers, m.key_id = <<m.from, 1>>,
         NEW c \in Candidates(q, entities, p, m)
  PROVE  /\ m.from \in entities /\ c.sender = m.from
         /\ c.receiver \in Peers(m.from) /\ Home[c.receiver] = p
<1>1. PICK x \in Pairs, r \in lookup(p, m.key_id) :
        /\ x[1] \in entities /\ <<x[1], 1>> = m.key_id
        /\ c = [sender |-> x[1], receiver |-> r]
  BY DEF Candidates
<1>2. PICK y \in Known : r = y[2] /\ ProcessOf(y[2]) = p /\ y[1] = m.from
  BY DEF lookup
<1>3. y \in Pairs /\ x[1] = m.from
  BY <1>1, <1>2 DEF Known
<1> QED BY <1>1, <1>2, <1>3, EntityPeers

\* A participant with an entity that has the sender's key finds a recipient.
LEMMA SomeRecipient ==
  ASSUME NEW m, NEW entities \in {Writers, Readers}, m.from \in entities,
         m.key_id = <<m.from, 1>>, NEW p \in Participants,
         NEW x \in Known, x[1] = m.from, Home[x[2]] = p
  PROVE  Candidates(Home[m.from], entities, p, m) # {}
<1>1. x \in Pairs /\ exchange[x] = "known" /\ ProcessOf(x[2]) = p
  BY EntityPeers DEF Known
<1>2. 1 \in DOMAIN Kinds[x[1]]
  BY FirstAndLast DEF Senders
<1>3. x[2] \in lookup(p, m.key_id)
  BY <1>1, <1>2 DEF lookup
<1>4. x \in {y \in Pairs : /\ y[1] \in entities /\ <<y[1], 1>> = m.key_id
                           /\ Home[y[1]] = Home[m.from] /\ exchange[y] = "known"}
  BY <1>1
<1>5. [sender |-> x[1], receiver |-> x[2]] \in Candidates(Home[m.from], entities, p, m)
  <2> DEFINE S == {y \in Pairs : /\ y[1] \in entities /\ <<y[1], 1>> = m.key_id
                                /\ Home[y[1]] = Home[m.from] /\ exchange[y] = "known"}
             T == lookup(p, m.key_id)
  <2>1. Candidates(Home[m.from], entities, p, m) =
          {[sender |-> z[1], receiver |-> r] : z \in S, r \in T}
    BY DEF Candidates
  <2>2. x \in S /\ x[2] \in T
    BY <1>3, <1>4
  <2> HIDE DEF S, T
  <2> QED BY <2>1, <2>2
<1> QED BY <1>5

\* Routing a writer's submessage, and a reader's.
LEMMA RoutedTo ==
  ASSUME NEW m, m.level \in {"writer", "reader"}, Submessage(m), NEW p \in Participants
  PROVE  /\ \A o \in preprocess_secure_submsg(p, Home[m.from], m) :
               /\ o.level = m.level /\ o.sender = m.from
               /\ o.receiver \in Peers(m.from) /\ Home[o.receiver] = p
         /\ (\E x \in Known : x[1] = m.from /\ Home[x[2]] = p) =>
               preprocess_secure_submsg(p, Home[m.from], m) # {}
<1> DEFINE Of(level, entities) ==
               {[level |-> level, sender |-> c.sender, receiver |-> c.receiver] :
                   c \in Candidates(Home[m.from], entities, p, m)}
<1>1. preprocess_secure_submsg(p, Home[m.from], m) =
        IF Of("writer", Writers) # {} THEN Of("writer", Writers) ELSE Of("reader", Readers)
  BY DEF preprocess_secure_submsg
<1>2. m.from \in Writers \cup Readers /\ m.key_id = <<m.from, 1>>
  BY DEF Submessage
<1>3. CASE m.level = "writer"
  <2>1. m.from \in Writers /\ m.from \notin Readers
    BY <1>3, SeparateSenders DEF Submessage
  <2>2. Of("reader", Readers) = {}
    BY <1>2, <2>1, FoundRecipients
  <2>3. \A o \in Of("writer", Writers) :
          /\ o.level = m.level /\ o.sender = m.from
          /\ o.receiver \in Peers(m.from) /\ Home[o.receiver] = p
    BY <1>2, <1>3, FoundRecipients
  <2>4. ASSUME NEW x \in Known, x[1] = m.from, Home[x[2]] = p
        PROVE  Of("writer", Writers) # {}
    BY <1>2, <2>1, <2>4, SomeRecipient
  <2> HIDE DEF Of
  <2> QED BY <1>1, <2>2, <2>3, <2>4
<1>4. CASE m.level = "reader"
  <2>1. m.from \in Readers /\ m.from \notin Writers
    BY <1>4, SeparateSenders DEF Submessage
  <2>2. Of("writer", Writers) = {}
    BY <1>2, <2>1, FoundRecipients
  <2>3. \A o \in Of("reader", Readers) :
          /\ o.level = m.level /\ o.sender = m.from
          /\ o.receiver \in Peers(m.from) /\ Home[o.receiver] = p
    BY <1>2, <1>4, FoundRecipients
  <2>4. ASSUME NEW x \in Known, x[1] = m.from, Home[x[2]] = p
        PROVE  Of("reader", Readers) # {}
    BY <1>2, <2>1, <2>4, SomeRecipient
  <2> HIDE DEF Of
  <2> QED BY <1>1, <2>2, <2>3, <2>4
<1> QED BY <1>3, <1>4

\* A protected submessage reaches an entity that is matched with its sender, as
\* what it is, and finds one if some entity has the sender's key: key ids name
\* one sender each, so that the order in which handles are walked is harmless.
THEOREM SubmessagesRouted == Spec => []Routed
<1>1. Init => ISubmessages
  BY DEF Init, ISubmessages
<1>2. ISubmessages /\ [Next]_vars => ISubmessages'
  BY SubmessagesNext
<1>3. ISubmessages => Routed
  BY RoutedTo DEF ISubmessages, Routed
<1> QED BY <1>1, <1>2, <1>3, PTL DEF Spec

-----------------------------------------------------------------------------
(* The engine beside the encoders.                                         *)

IsOpen(w) == job[w] # NoJob

\* The engine while w's job goes through it: initialised with the session's
\* key and the IV, and it has absorbed what has been copied.
FusedKey(w) == <<32, job[w].ses.SessionKey>>
EngineOf(w, e) ==
    /\ e.on /\ e.key = FusedKey(w) /\ e.iv = job[w].iv /\ e.ctr = Len(job[w].body) + 1
    /\ e.hash = job[w].body /\ e.len = Len(job[w].body)
Copy(w) ==
    /\ Len(job[w].body) # 0 => job[w].fused = TRUE
    /\ \A j \in 1..Len(job[w].body) :
          job[w].body[j] = Ct(FusedKey(w), job[w].iv, j, job[w].plain[j])
Fused(w) == job[w].at \in {"copy", "final"} => EngineOf(w, engine[Home[w]]) /\ Copy(w)

\* One job of a process at a time, and no operation open without one.
IOpen ==
    /\ \A p \in Participants : engine[p].on => \E w \in Writers : Home[w] = p /\ IsOpen(w)
    /\ \A w, v \in Writers : IsOpen(w) /\ IsOpen(v) /\ Home[w] = Home[v] => w = v
    /\ \A w \in Writers : Fused(w)

LEMMA OpenInit == ASSUME Init PROVE IOpen
<1>1. \A p \in Participants : ~engine[p].on
  BY DEF Init, UnusedEngine
<1>2. \A w \in Writers : job[w] = NoJob
  BY DEF Init
<1> QED BY <1>1, <1>2 DEF IOpen, IsOpen, Fused, NoJob

\* No job is open in the process of an encoder, so its engine is off.
LEMMA Quiet ==
  ASSUME OneThread, IOpen, NEW s \in Senders, Free(s)
  PROVE  /\ ~engine[ProcessOf(s)].on
         /\ \A w \in Writers : Home[w] = ProcessOf(s) => ~IsOpen(w)
BY Processes DEF Free, OpenJobs, IOpen, IsOpen

\* With its engine off, an encoder leaves it alone.
LEMMA EncoderLeavesEngine ==
  ASSUME OneThread, IEngines, IOpen, NEW s \in Senders, NEW i, Turned(s, i)
  PROVE  /\ \A level, list, subs : Sealed(s, level, list, subs) => UNCHANGED <<engine, job>>
         /\ \A n : s \in Writers /\ PayloadSealed(s, n) => UNCHANGED <<engine, job>>
<1>1. ~engine[ProcessOf(s)].on /\ ProcessOf(s) \in Participants
      /\ (s \in Writers => ProcessOf(s) = Home[s])
  BY Quiet, Processes DEF Turned
<1>2. \A kind, cells, stores :
        Hooked(engine[ProcessOf(s)], kind, cells, stores) = engine[ProcessOf(s)]
  BY <1>1 DEF Hooked
<1>3. [engine EXCEPT ![ProcessOf(s)] = engine[ProcessOf(s)]] = engine
  BY <1>1 DEF IEngines
<1> QED BY <1>1, <1>2, <1>3 DEF Sealed, PayloadSealed

LEMMA OpenKept == ASSUME IOpen, UNCHANGED <<engine, job>> PROVE IOpen'
BY DEF IOpen, IsOpen, Fused, EngineOf, Copy, FusedKey, NoJob

\* Another job's engine and copy stay as they are.
LEMMA FusedKept ==
  ASSUME NEW w, Fused(w), job'[w] = job[w],
         engine'[Home[w]] = engine[Home[w]] \/ ~IsOpen(w)
  PROVE  Fused(w)'
BY DEF Fused, EngineOf, Copy, FusedKey, IsOpen, NoJob

\* A job begins in a process where none is open.
LEMMA OpenBegun ==
  ASSUME OneThread, IJobs, IOpen, NEW w \in Writers, Free(w), UNCHANGED engine,
         NEW by, NEW thunk, job' = [job EXCEPT ![w] = JobFor(w, by, thunk)]
  PROVE  IOpen'
<1>1. /\ job'[w].at = "init" /\ \A v \in Writers : v # w => job'[v] = job[v]
  BY DEF IJobs, JobFor
<1>2. \A v \in Writers : Home[v] = Home[w] => ~IsOpen(v)
  BY Quiet, Processes DEF Senders
<1>3. ASSUME NEW p \in Participants, engine'[p].on
      PROVE  \E v \in Writers : Home[v] = p /\ IsOpen(v)'
  <2>1. PICK v \in Writers : Home[v] = p /\ IsOpen(v)
    BY <1>3 DEF IOpen
  <2>2. v # w
    BY <1>2, <2>1
  <2> QED BY <1>1, <2>1, <2>2 DEF IsOpen, NoJob
<1>4. ASSUME NEW u \in Writers, NEW v \in Writers, IsOpen(u)', IsOpen(v)', Home[u] = Home[v]
      PROVE  u = v
  <2>1. CASE u = w \/ v = w
    BY <1>1, <1>2, <1>4, <2>1 DEF IsOpen, NoJob
  <2>2. CASE u # w /\ v # w
    BY <1>1, <1>4, <2>2 DEF IOpen, IsOpen, NoJob
  <2> QED BY <2>1, <2>2
<1>5. ASSUME NEW v \in Writers PROVE Fused(v)'
  <2>1. CASE v = w
    BY <1>1, <2>1 DEF Fused
  <2>2. CASE v # w
    BY <1>1, <2>2, FusedKept DEF IOpen
  <2> QED BY <2>1, <2>2
<1> QED BY <1>3, <1>4, <1>5 DEF IOpen

\* A step of the fast path leaves one job's process as it should be, if that
\* job is left so.
LEMMA OpenStep ==
  ASSUME IOpen, NEW w \in Writers, IsOpen(w), IsOpen(w)', Fused(w)',
         \A v \in Writers : v # w => job'[v] = job[v],
         \A p \in Participants : p # Home[w] => engine'[p] = engine[p]
  PROVE  IOpen'
<1>1. \A v \in Writers : IsOpen(v)' <=> IsOpen(v)
  BY DEF IsOpen, NoJob
<1>2. \A p \in Participants : engine'[p].on => \E v \in Writers : Home[v] = p /\ IsOpen(v)'
  BY <1>1 DEF IOpen
<1>3. \A u, v \in Writers : IsOpen(u)' /\ IsOpen(v)' /\ Home[u] = Home[v] => u = v
  BY <1>1 DEF IOpen
<1>4. ASSUME NEW v \in Writers PROVE Fused(v)'
  <2>1. CASE v # w
    <3>1. Home[v] \in Participants /\ Fused(v)
      BY TransformAssumption DEF IOpen
    <3>2. engine'[Home[v]] = engine[Home[v]] \/ ~IsOpen(v)
      BY <2>1, <3>1 DEF IOpen
    <3> QED BY <2>1, <3>1, <3>2, FusedKept
  <2> QED BY <2>1
<1> QED BY <1>2, <1>3, <1>4 DEF IOpen

LEMMA FusedInitialised ==
  ASSUME IJobs, IEngines, ISamples, NEW w \in Writers, fuse_init(w)
  PROVE  Fused(w)'
<1>1. Home[w] \in Participants /\ EngineOK(engine[Home[w]])
  BY TransformAssumption DEF IEngines
<1>2. engine'[Home[w]] = Started(engine[Home[w]], FusedKey(w), job[w].iv)
  BY <1>1 DEF fuse_init, Started, FusedKey, IEngines
<1>3. /\ engine'[Home[w]].key = FusedKey(w) /\ engine'[Home[w]].iv = job[w].iv
      /\ engine'[Home[w]].ctr = 1 /\ engine'[Home[w]].hash = << >>
      /\ engine'[Home[w]].len = 0 /\ engine'[Home[w]].on
  BY <1>1, <1>2, InitialisedEngine
<1>4. IsOpen(w) /\ IsJob(job[w]) /\ job'[w] = [job[w] EXCEPT !.at = "copy"] /\ job[w].at = "init"
  BY DEF fuse_init, IsOpen, IJobs, JobOK, NoJob
<1>5. /\ job'[w].ses = job[w].ses /\ job'[w].iv = job[w].iv /\ job'[w].body = job[w].body
      /\ job'[w].plain = job[w].plain
  BY <1>4 DEF IsJob
<1>6. Len(job[w].body) = 0 /\ job[w].body = << >>
  <2>1. Len(job[w].body) = 0 /\ IsSeq(job[w].body)
    BY <1>4 DEF ISamples, CopyOK, Progress, IsOpen
  <2> QED BY <2>1 DEF IsSeq
<1> QED BY <1>3, <1>5, <1>6 DEF Fused, EngineOf, Copy, FusedKey

LEMMA FusedContinued ==
  ASSUME IJobs, IEngines, ISamples, NEW w \in Writers, Fused(w), serialize_memcpy(w)
  PROVE  Fused(w)'
<1>1. Home[w] \in Participants /\ EngineOK(engine[Home[w]])
  BY TransformAssumption DEF IEngines
<1>2. IsOpen(w) /\ IsJob(job[w]) /\ job[w].at = "copy"
  BY DEF serialize_memcpy, IsOpen, IJobs, JobOK, NoJob
<1>3. EngineOf(w, engine[Home[w]]) /\ Copy(w) /\ Progress(w)
  BY <1>2 DEF Fused, ISamples, CopyOK, IsOpen
<1>a. PICK e, j, p : e = engine[Home[w]] /\ j = Len(job[w].body) + 1 /\ p = PieceRead(w, j)
  OBVIOUS
<1>b. PICK f : f = IF j = 1 THEN e.on ELSE job[w].fused
  OBVIOUS
<1>c. PICK cell : cell = IF f THEN Ct(e.key, e.iv, e.ctr, p) ELSE Raw(p)
  OBVIOUS
<1>4. f = TRUE
  <2>1. CASE j = 1
    BY <1>a, <1>b, <1>1, <1>3, <2>1 DEF EngineOf, EngineOK
  <2>2. CASE j # 1
    BY <1>a, <1>b, <1>3, <2>2 DEF Copy, Progress, IsSeq
  <2> QED BY <2>1, <2>2
<1>5. /\ job' = [job EXCEPT ![w].fused = f, ![w].plain = Append(@, p), ![w].body = Append(@, cell),
                            ![w].at = IF j = Pieces THEN "final" ELSE "copy"]
      /\ engine' = IF f THEN [engine EXCEPT ![Home[w]] = Absorb(@, cell)] ELSE engine
  BY <1>a, <1>b, <1>c DEF serialize_memcpy
<1>6. cell = Ct(FusedKey(w), job[w].iv, j, p)
  BY <1>a, <1>c, <1>3, <1>4 DEF EngineOf
<1>7. engine'[Home[w]] = Absorb(e, cell)
  BY <1>a, <1>1, <1>4, <1>5 DEF IEngines
<1>8. PICK at : job'[w] = [job[w] EXCEPT !.fused = f, !.plain = Append(@, p),
                                         !.body = Append(@, cell), !.at = at]
  BY <1>5 DEF IJobs
<1>9. /\ job'[w].plain = Append(job[w].plain, p) /\ job'[w].body = Append(job[w].body, cell)
      /\ job'[w].fused = f /\ job'[w].iv = job[w].iv /\ job'[w].ses = job[w].ses
  BY <1>2, <1>8 DEF IsJob
<1>10. /\ IsSeq(job[w].body) /\ IsSeq(job[w].plain)
       /\ Len(job[w].plain) = j - 1 /\ Len(job[w].body) = j - 1 /\ j \in Nat
  BY <1>a, <1>3 DEF Progress, IsSeq
<1>11. /\ Len(job'[w].body) = j /\ job'[w].body[j] = cell /\ job'[w].plain[j] = p
       /\ \A k \in 1..(j - 1) : /\ job'[w].body[k] = job[w].body[k]
                                /\ job'[w].plain[k] = job[w].plain[k]
  BY <1>9, <1>10, AppendSeq
<1>12. FusedKey(w)' = FusedKey(w)
  BY <1>9 DEF FusedKey
<1>13. EngineOf(w, engine[Home[w]])'
  <2>1. /\ Absorb(e, cell).key = e.key /\ Absorb(e, cell).iv = e.iv
        /\ Absorb(e, cell).ctr = e.ctr + 1 /\ Absorb(e, cell).hash = Append(e.hash, cell)
        /\ Absorb(e, cell).len = e.len + 1 /\ Absorb(e, cell).on = e.on
    BY <1>a, <1>1, AbsorbedEngine
  <2>2. /\ e.key = FusedKey(w) /\ e.iv = job[w].iv /\ e.ctr = j
        /\ e.hash = job[w].body /\ e.len = j - 1 /\ e.on
    BY <1>a, <1>3, <1>10 DEF EngineOf
  <2>3. engine'[Home[w]].on
    BY <1>7, <2>1, <2>2
  <2>4. /\ engine'[Home[w]].key = FusedKey(w)' /\ engine'[Home[w]].iv = job'[w].iv
        /\ engine'[Home[w]].hash = job'[w].body
    BY <1>7, <1>9, <1>12, <2>1, <2>2
  <2>5. engine'[Home[w]].ctr = Len(job'[w].body) + 1 /\ engine'[Home[w]].len = Len(job'[w].body)
    BY <1>7, <1>10, <1>11, <2>1, <2>2
  <2> QED BY <2>3, <2>4, <2>5 DEF EngineOf
<1>14. Copy(w)'
  <2>1. ASSUME NEW k \in 1..j
        PROVE  job'[w].body[k] = Ct(FusedKey(w), job[w].iv, k, job'[w].plain[k])
    <3>1. CASE k = j
      BY <1>6, <1>11, <3>1
    <3>2. CASE k # j
      <4>1. k \in 1..(j - 1)
        BY <1>10, <3>2
      <4> QED BY <1>3, <1>10, <1>11, <4>1 DEF Copy
    <3> QED BY <3>1, <3>2
  <2> QED BY <1>4, <1>9, <1>11, <1>12, <2>1 DEF Copy
<1> QED BY <1>13, <1>14 DEF Fused

\* A job is done and its engine closed; the process has no other.
LEMMA OpenClosed ==
  ASSUME IJobs, IEngines, IOpen, NEW w \in Writers, Closed(w)
  PROVE  IOpen'
<1>1. /\ job'[w] = NoJob /\ \A v \in Writers : v # w => job'[v] = job[v]
      /\ IsOpen(w) /\ Home[w] \in Participants
  BY TransformAssumption DEF Closed, IJobs, IsOpen, NoJob
<1>2. /\ ~engine'[Home[w]].on
      /\ \A p \in Participants : p # Home[w] => engine'[p] = engine[p]
  <2>1. engine' = [engine EXCEPT ![Home[w]] = [engine[Home[w]] EXCEPT !.on = FALSE]]
    BY <1>1 DEF Closed
  <2>2. engine'[Home[w]] = [engine[Home[w]] EXCEPT !.on = FALSE]
        /\ \A p \in Participants : p # Home[w] => engine'[p] = engine[p]
    BY <1>1, <2>1 DEF IEngines
  <2>3. EngineOK(engine[Home[w]])
    BY <1>1 DEF IEngines
  <2> QED BY <2>2, <2>3, ClosedEngine
<1>3. ASSUME NEW p \in Participants, engine'[p].on
      PROVE  \E v \in Writers : Home[v] = p /\ IsOpen(v)'
  <2>1. p # Home[w] /\ engine[p].on
    BY <1>2, <1>3
  <2>2. PICK v \in Writers : Home[v] = p /\ IsOpen(v)
    BY <2>1 DEF IOpen
  <2> QED BY <1>1, <2>1, <2>2 DEF IsOpen, NoJob
<1>4. \A u, v \in Writers : IsOpen(u)' /\ IsOpen(v)' /\ Home[u] = Home[v] => u = v
  BY <1>1 DEF IOpen, IsOpen, NoJob
<1>5. ASSUME NEW v \in Writers PROVE Fused(v)'
  <2>1. CASE v = w
    BY <1>1, <2>1 DEF Fused, NoJob
  <2>2. CASE v # w
    <3>1. Home[v] \in Participants /\ Fused(v)
      BY TransformAssumption DEF IOpen
    <3>2. engine'[Home[v]] = engine[Home[v]] \/ ~IsOpen(v)
      BY <1>1, <1>2, <2>2, <3>1 DEF IOpen
    <3> QED BY <1>1, <2>2, <3>1, <3>2, FusedKept
  <2> QED BY <2>1, <2>2
<1> QED BY <1>3, <1>4, <1>5 DEF IOpen

LEMMA OpenNext ==
  ASSUME OneThread, ISessions, IJobs, ISamples, IEngines, IOpen, [Next]_vars
  PROVE  IOpen'
<1>1. ASSUME NEW s \in Senders, Encode(s) PROVE IOpen'
  <2>1. PICK level, list, subs :
          /\ level \in {"writer", "reader", "rtps"}
          /\ Turned(s, 1)
          /\ Sealed(s, level, list, subs) \/ NotSealed(s, level, list, subs)
    BY <1>1, EncodeStep
  <2>2. UNCHANGED <<engine, job>>
    BY <2>1, EncoderLeavesEngine DEF NotSealed
  <2> QED BY <2>2, OpenKept
<1>2. ASSUME NEW w \in Writers, NEW n \in PayloadSizes, encode_serialized_payload(w, n)
      PROVE  IOpen'
  <2>1. w \in Senders /\ Turned(w, Last(w)) /\ (PayloadSealed(w, n) \/ PayloadNotSealed(w, n))
    BY <1>2, PayloadStep DEF Senders
  <2>2. UNCHANGED <<engine, job>>
    BY <2>1, EncoderLeavesEngine DEF PayloadNotSealed
  <2> QED BY <2>2, OpenKept
<1>3. ASSUME NEW w \in Thunked, Write(w) \/ Resend(w) PROVE IOpen'
  <2>1. PICK by, thunk : Turned(w, Last(w)) /\ Begun(w, by, thunk)
    BY <1>3, ThunkedAreWriters, WriteStep, ResendStep
  <2>2. CASE UNCHANGED job
    BY <2>1, <2>2, OpenKept DEF Begun
  <2>3. CASE job' = [job EXCEPT ![w] = JobFor(w, by, thunk)]
    BY <2>1, <2>3, ThunkedAreWriters, OpenBegun DEF Begun, Turned
  <2> QED BY <2>1, <2>2, <2>3 DEF Begun
<1>4. ASSUME NEW w \in Thunked, fuse_init(w) \/ serialize_memcpy(w) PROVE IOpen'
  <2>1. /\ w \in Writers /\ IsOpen(w) /\ IsOpen(w)'
        /\ \A v \in Writers : v # w => job'[v] = job[v]
    <3>1. w \in Writers /\ ~Closed(w)
      BY <1>4, ThunkedAreWriters DEF fuse_init, serialize_memcpy, Closed
    <3>2. job'[w] # NoJob
      BY <1>4, <3>1, JobSteps
    <3> QED BY <1>4, <3>1, <3>2, JobSteps DEF IsOpen, NoJob
  <2>2. Fused(w)'
    BY <1>4, <2>1, FusedInitialised, FusedContinued DEF IOpen
  <2>3. \A p \in Participants : p # Home[w] => engine'[p] = engine[p]
    <3>1. PICK e : engine' = [engine EXCEPT ![Home[w]] = e] \/ UNCHANGED engine
      BY <1>4 DEF fuse_init, serialize_memcpy
    <3> QED BY <3>1 DEF IEngines
  <2> QED BY <2>1, <2>2, <2>3, OpenStep
<1>5. ASSUME NEW w \in Thunked, fuse_finalize_enc(w) PROVE IOpen'
  BY <1>5, ThunkedAreWriters, FinalizeStep, OpenClosed
<1>6. CASE UNCHANGED <<engine, job>>
  BY <1>6, OpenKept
<1> QED BY <1>1, <1>2, <1>3, <1>4, <1>5, <1>6, NextCases, OtherSteps DEF vars

-----------------------------------------------------------------------------
(* Receivers' keys.                                                        *)

\* A receiver's key is that of the session it is noted for.
KeyOK(x, k) ==
    k.session_id \in Nat =>
        k.SessionKey = compute_sessionkey(Kinds[x[1]][1], x, k.session_id)
ISpecific == \A x \in Pairs : KeyOK(x, specific[x])

\* What an encoder makes of them, with the engine off: the keys of those it
\* addresses are those of its own session.
LEMMA KeysAfterEncoder ==
  ASSUME OneThread, IOpen, ISpecific, NEW s \in Senders, Free(s),
         Rotated(s, 1).session_id \in Nat, NEW list \in SUBSET Peers(s)
  PROVE  /\ \A x \in Pairs : KeyOK(x, KeysAfter(s, list)[x])
         /\ \A r \in Addressed(s, list) :
               KeysAfter(s, list)[<<s, r>>].SessionKey =
                   compute_sessionkey(Kinds[s][1], <<s, r>>, Rotated(s, 1).session_id)
<1> DEFINE e == engine[ProcessOf(s)]
           id == Rotated(s, 1).session_id
<1>1. ~e.on
  BY Quiet
<1>2. \A r : RefreshedSession(e, s, Kinds[s][1], r, id) =
               [session_id |-> id,
                SessionKey |-> compute_sessionkey(Kinds[s][1], <<s, r>>, id)]
  BY <1>1 DEF RefreshedSession
<1>3. \A x \in Pairs :
        KeysAfter(s, list)[x] =
            IF x[1] = s /\ x[2] \in Refreshed(s, list, Rotated(s, 1), Rotates(s, 1))
            THEN RefreshedSession(e, s, Kinds[s][1], x[2], id) ELSE specific[x]
  BY DEF KeysAfter, SpecificAfter
<1>4. ASSUME NEW x \in Pairs PROVE KeyOK(x, KeysAfter(s, list)[x]) /\ x = <<x[1], x[2]>>
  <2>1. x = <<x[1], x[2]>>
    BY DEF Pairs
  <2>2. CASE x[1] = s /\ x[2] \in Refreshed(s, list, Rotated(s, 1), Rotates(s, 1))
    <3>1. KeysAfter(s, list)[x] =
            [session_id |-> id,
             SessionKey |-> compute_sessionkey(Kinds[s][1], <<s, x[2]>>, id)]
      BY <1>2, <1>3, <2>2
    <3> QED BY <2>1, <2>2, <3>1 DEF KeyOK
  <2>3. CASE ~(x[1] = s /\ x[2] \in Refreshed(s, list, Rotated(s, 1), Rotates(s, 1)))
    <3>1. KeysAfter(s, list)[x] = specific[x]
      BY <1>3, <2>3
    <3> QED BY <2>1, <3>1 DEF ISpecific
  <2> QED BY <2>2, <2>3, <2>1
<1>5. ASSUME NEW r \in Addressed(s, list)
      PROVE  KeysAfter(s, list)[<<s, r>>].SessionKey = compute_sessionkey(Kinds[s][1], <<s, r>>, id)
  <2>1. r \in Peers(s) /\ r \in Senders
    BY DEF Addressed, Peers, Senders
  <2>2. <<s, r>> \in Pairs
    BY <2>1 DEF Pairs
  <2>3. CASE r \in Refreshed(s, list, Rotated(s, 1), Rotates(s, 1))
    <3>1. KeysAfter(s, list)[<<s, r>>] =
            [session_id |-> id, SessionKey |-> compute_sessionkey(Kinds[s][1], <<s, r>>, id)]
      BY <1>2, <1>3, <2>2, <2>3
    <3> QED BY <3>1
  <2>4. CASE r \notin Refreshed(s, list, Rotated(s, 1), Rotates(s, 1))
    <3>1. specific[<<s, r>>].session_id = id
      BY <2>4 DEF Refreshed
    <3>2. KeysAfter(s, list)[<<s, r>>] = specific[<<s, r>>]
      BY <1>3, <2>2, <2>4
    <3> QED BY <2>2, <3>1, <3>2 DEF ISpecific, KeyOK
  <2> QED BY <2>3, <2>4
<1> QED BY <1>4, <1>5

LEMMA SpecificInit == ASSUME Init PROVE ISpecific
BY DEF Init, ISpecific, KeyOK, FreshSpecific, NoSession

LEMMA SpecificNext ==
  ASSUME OneThread, ISessions, IOpen, ISpecific, [Next]_vars
  PROVE  ISpecific'
<1>1. ASSUME UNCHANGED specific PROVE ISpecific'
  BY <1>1 DEF ISpecific
<1>2. ASSUME NEW s \in Senders, Encode(s) PROVE ISpecific'
  <2>1. PICK level \in {"writer", "reader", "rtps"}, list \in SUBSET Peers(s), subs \in Bodies :
          /\ Turned(s, 1)
          /\ Sealed(s, level, list, subs) \/ NotSealed(s, level, list, subs)
    BY <1>2, EncodeStep
  <2>2. CASE UNCHANGED specific
    BY <1>1, <2>2
  <2>3. CASE specific' = KeysAfter(s, list)
    <3>1. Rotated(s, 1).session_id \in Nat
      BY <2>1, FirstAndLast, TurnedSessions DEF InUse, SessionOK
    <3>2. \A x \in Pairs : KeyOK(x, KeysAfter(s, list)[x])
      BY <2>1, <3>1, KeysAfterEncoder DEF Turned
    <3> QED BY <2>3, <3>2 DEF ISpecific
  <2> QED BY <2>1, <2>2, <2>3 DEF Sealed, NotSealed
<1>3. ASSUME NEW w \in Writers, NEW n, encode_serialized_payload(w, n) PROVE ISpecific'
  BY <1>1, <1>3 DEF encode_serialized_payload
<1>4. ASSUME NEW w, Write(w) \/ Resend(w) \/ fuse_init(w) \/ serialize_memcpy(w)
                       \/ fuse_finalize_enc(w)
      PROVE  ISpecific'
  BY <1>1, <1>4 DEF Write, Resend, fuse_init, serialize_memcpy, fuse_finalize_enc
<1> QED BY <1>1, <1>2, <1>3, <1>4, NextCases, OtherSteps DEF vars

-----------------------------------------------------------------------------
(* Messages.                                                               *)

\* The session key a message names, and the material it is derived from.
KeyOf(m) == compute_sessionkey(m.kind, m.key_id, m.session_id)
FromMaterial(m) ==
    /\ m.from \in Senders /\ m.level \in {"writer", "reader", "rtps", "payload"}
    /\ \E i \in DOMAIN Kinds[m.from] : m.key_id = <<m.from, i>> /\ m.kind = Kinds[m.from][i]

\* Protected by an encoder, or by the fast path.
Conventional(m) ==
    /\ m.body = Cells(m.kind, KeyOf(m), m.iv, m.plain)
    /\ m.common_mac = MacOf(m.kind, KeyOf(m), m.iv, m.body)
FusedForm(m) ==
    /\ IsSeq(m.body) /\ Len(m.body) # 0 /\ Len(m.plain) = Len(m.body)
    /\ \A j \in 1..Len(m.body) : m.body[j] = Ct(<<32, KeyOf(m)>>, m.iv, j, m.plain[j])
    /\ m.common_mac = Mac(<<32, KeyOf(m)>>, m.iv, Len(m.body), m.body)

\* A MAC is for an addressed receiver, under that receiver's key of the session.
MacFor(m, t) ==
    \E r \in m.addressed :
        /\ r \in Peers(m.from) /\ t.id = SpecificId(m.from, r)
        /\ t.mac = SpecificMac(m.kind, compute_sessionkey(m.kind, <<m.from, r>>, m.session_id),
                               m.iv, m.common_mac)

Genuine(m) ==
    /\ FromMaterial(m) /\ IsSeq(m.plain)
    /\ Conventional(m) \/ FusedForm(m)
    /\ \A t \in m.macs : MacFor(m, t)
IMessages == \A m \in network : Genuine(m)

LEMMA OnePiece == \A x : IsSeq(<< x >>)
BY DEF IsSeq

LEMMA SealedGenuine ==
  ASSUME OneThread, ISessions, IOpen, ISpecific, NEW s \in Senders, Turned(s, 1),
         NEW level \in {"writer", "reader", "rtps"}, NEW list \in SUBSET Peers(s), NEW subs
  PROVE  Genuine(SealedMessage(s, level, list, subs))
<1> DEFINE ses == Rotated(s, 1)
           kind == Kinds[s][1]
           iv == Drawn(ses)
<1>1. InUse(ses, s, 1) /\ 1 \in DOMAIN Kinds[s]
  BY FirstAndLast, TurnedSessions
<1>2. ses.SessionKey = compute_sessionkey(kind, <<s, 1>>, ses.session_id)
      /\ ses.session_id \in Nat
  BY <1>1 DEF InUse, SessionOK
<1>3. PICK m : m = SealedMessage(s, level, list, subs)
  OBVIOUS
<1>4. /\ m.from = s /\ m.level = level /\ m.kind = kind /\ m.key_id = <<s, 1>>
      /\ m.session_id = ses.session_id /\ m.iv = iv
      /\ m.body = Copied(engine[ProcessOf(s)], kind, SealedBody(s))
      /\ m.common_mac = SealedMac(s) /\ m.macs = MacsFor(s, list)
      /\ m.plain = << <<s, drawn + 1>> >> /\ m.addressed = Addressed(s, list)
  BY <1>3 DEF SealedMessage, Message
<1>5. KeyOf(m) = ses.SessionKey
  BY <1>2, <1>4 DEF KeyOf
<1>6. m.body = SealedBody(s)
  <2>1. ~engine[ProcessOf(s)].on
    BY Quiet DEF Turned
  <2> QED BY <1>4, <2>1 DEF Copied
<1>7. Conventional(m)
  BY <1>4, <1>5, <1>6 DEF Conventional, SealedBody, SealedMac
<1>8. FromMaterial(m)
  BY <1>1, <1>4 DEF FromMaterial
<1>9. ASSUME NEW t \in m.macs PROVE MacFor(m, t)
  <2>1. PICK r \in Addressed(s, list) :
          t = [id |-> SpecificId(s, r),
               mac |-> SpecificMac(kind, KeysAfter(s, list)[<<s, r>>].SessionKey, iv, SealedMac(s))]
    BY <1>4 DEF MacsFor
  <2>2. KeysAfter(s, list)[<<s, r>>].SessionKey =
          compute_sessionkey(kind, <<s, r>>, ses.session_id)
    BY <1>2, KeysAfterEncoder DEF Turned
  <2>3. r \in Peers(s)
    BY DEF Addressed
  <2> QED BY <1>4, <2>1, <2>2, <2>3 DEF MacFor
<1>10. IsSeq(m.plain)
  BY <1>4, OnePiece
<1> QED BY <1>3, <1>7, <1>8, <1>9, <1>10 DEF Genuine

LEMMA PayloadGenuine ==
  ASSUME OneThread, ISessions, IOpen, NEW w \in Writers, Turned(w, Last(w)), NEW n
  PROVE  Genuine(PayloadMessage(w, n))
<1> DEFINE i == Last(w)
           ses == Rotated(w, i)
           kind == Kinds[w][i]
<1>1. InUse(ses, w, i) /\ i \in DOMAIN Kinds[w] /\ w \in Senders
  BY FirstAndLast, TurnedSessions DEF Senders
<1>2. ses.SessionKey = compute_sessionkey(kind, <<w, i>>, ses.session_id)
  BY <1>1 DEF InUse
<1>3. PICK m : m = PayloadMessage(w, n)
  OBVIOUS
<1>4. /\ m.from = w /\ m.level = "payload" /\ m.kind = kind /\ m.key_id = <<w, i>>
      /\ m.session_id = ses.session_id /\ m.iv = Drawn(ses)
      /\ m.body = Copied(engine[Home[w]], kind, PayloadBody(w))
      /\ m.common_mac = MacOf(kind, ses.SessionKey, Drawn(ses), PayloadBody(w))
      /\ m.macs = {} /\ m.plain = << <<w, drawn + 1>> >>
  BY <1>3 DEF PayloadMessage, Message
<1>5. KeyOf(m) = ses.SessionKey
  BY <1>2, <1>4 DEF KeyOf
<1>6. m.body = PayloadBody(w)
  <2>1. ~engine[Home[w]].on
    BY <1>1, Quiet, Processes DEF Turned
  <2> QED BY <1>4, <2>1 DEF Copied
<1>7. Conventional(m)
  BY <1>4, <1>5, <1>6 DEF Conventional, PayloadBody
<1>8. FromMaterial(m)
  BY <1>1, <1>4 DEF FromMaterial
<1> QED BY <1>3, <1>4, <1>7, <1>8, OnePiece DEF Genuine

LEMMA ClosedGenuine ==
  ASSUME ISessions, IJobs, ISamples, IOpen, NEW w \in Writers, Closed(w)
  PROVE  Genuine(JobMessage(w))
<1>1. /\ job[w].at = "final" /\ IsOpen(w) /\ JobOK(w) /\ Fused(w) /\ CopyOK(w)
      /\ w \in Senders /\ Last(w) \in DOMAIN Kinds[w]
  BY FirstAndLast DEF Closed, IsOpen, NoJob, IJobs, IOpen, ISamples, Senders
<1>2. /\ InUse(job[w].ses, w, Last(w)) /\ EngineOf(w, engine[Home[w]]) /\ Copy(w) /\ Progress(w)
  BY <1>1 DEF IsOpen, JobOK, Fused, CopyOK
<1>3. PICK m : m = JobMessage(w)
  OBVIOUS
<1>4. /\ m.from = w /\ m.level = "payload" /\ m.kind = Kinds[w][Last(w)]
      /\ m.key_id = <<w, Last(w)>> /\ m.session_id = job[w].ses.session_id
      /\ m.iv = job[w].iv /\ m.body = job[w].body /\ m.common_mac = EngineTag(engine[Home[w]])
      /\ m.macs = {} /\ m.plain = job[w].plain
  BY <1>3 DEF JobMessage, Message
<1>5. FusedKey(w) = <<32, KeyOf(m)>>
  BY <1>2, <1>4 DEF InUse, KeyOf, FusedKey
<1>6. m.common_mac = Mac(<<32, KeyOf(m)>>, m.iv, Len(m.body), m.body)
  BY <1>2, <1>4, <1>5 DEF EngineTag, EngineOf
<1>7. IsSeq(m.plain) /\ IsSeq(m.body) /\ Len(m.body) # 0 /\ Len(m.plain) = Len(m.body)
  BY <1>1, <1>2, <1>4, Counts DEF Progress
<1>8. FusedForm(m)
  BY <1>2, <1>4, <1>5, <1>6, <1>7 DEF FusedForm, Copy
<1>9. FromMaterial(m)
  BY <1>1, <1>4 DEF FromMaterial
<1> QED BY <1>3, <1>4, <1>7, <1>8, <1>9 DEF Genuine

LEMMA MessagesNext ==
  ASSUME OneThread, ISessions, IJobs, ISamples, IOpen, ISpecific, IMessages, [Next]_vars
  PROVE  IMessages'
<1> SUFFICES ASSUME NEW m \in network' PROVE Genuine(m)
  BY DEF IMessages, Genuine, FromMaterial, Conventional, FusedForm, MacFor
<1>1. CASE m \in network
  BY <1>1 DEF IMessages
<1> QED BY <1>1, NetworkNext, SealedGenuine, PayloadGenuine, ClosedGenuine

\* Everything above together.
IChannel ==
    /\ ISessions /\ IJobs /\ ISamples /\ IEngines
    /\ IOpen /\ ISpecific /\ IMessages

LEMMA ChannelInvariant == ASSUME OneThread PROVE Spec => []IChannel
<1>1. Init => IChannel
  <2>1. Init => IMessages
    BY DEF Init, IMessages
  <2> QED BY <2>1, JobsInit, SamplesInit, EnginesInit, OpenInit, SpecificInit DEF IChannel
<1>2. IChannel /\ [Next]_vars => IChannel'
  BY JobsNext, SamplesNext, EnginesNext, OpenNext, SpecificNext, MessagesNext DEF IChannel
<1> QED BY <1>1, <1>2, PTL DEF Spec

\* Every receiver's MAC is made with the receiver's key of the very session in
\* the message's header, whichever path has rotated the session last, as long
\* as no encoder runs beside an open fast path of its process.
THEOREM MacsAreCurrent == ASSUME OneThread PROVE Spec => []MacsCurrent
<1>1. IChannel => MacsCurrent
  BY DEF IChannel, IMessages, Genuine, MacFor, MacsCurrent
<1> QED BY <1>1, ChannelInvariant, PTL

-----------------------------------------------------------------------------
(* What a receiver makes of a genuine message.                             *)

LEMMA DecryptsOwn ==
  ASSUME NEW key, NEW iv, NEW j, NEW p
  PROVE  Decrypt(key, iv, j, Ct(key, iv, j, p)) = p
BY DEF Decrypt, Ct

\* A MAC that agrees was made with the same key; so the material is the one the
\* header names, and what is handed over is what was protected.
LEMMA OpenedGenuine ==
  ASSUME NEW m, Genuine(m), NEW s, NEW i, NEW kind,
         kind = Kinds[s][i], NEW key, key = compute_sessionkey(kind, <<s, i>>, m.session_id),
         m.common_mac = MacOf(kind, key, m.iv, m.body)
  PROVE  s = m.from /\ deserialize_SecureDataBody(kind, key, m) = m.plain
<1>1. m.common_mac = MacOf(kind, key, m.iv, m.body)
      /\ deserialize_SecureDataBody(kind, key, m) =
           [j \in DOMAIN m.body |->
              IF Encrypts(kind) THEN Decrypt(Aes(kind, key), m.iv, j, m.body[j])
              ELSE m.body[j].pt]
  BY DEF deserialize_SecureDataBody
<1>2. Aes(kind, key)[2] = KeyOf(m)
  <2>1. m.common_mac.key = Aes(kind, key)
    BY <1>1 DEF MacOf, Mac
  <2>2. CASE Conventional(m)
    <3>1. m.common_mac.key = Aes(m.kind, KeyOf(m))
      BY <2>2 DEF Conventional, MacOf, Mac
    <3> QED BY <2>1, <3>1 DEF Aes
  <2>3. CASE FusedForm(m)
    <3>1. m.common_mac.key = <<32, KeyOf(m)>>
      BY <2>3 DEF FusedForm, Mac
    <3> QED BY <2>1, <3>1
  <2> QED BY <2>2, <2>3 DEF Genuine
<1>3. key = KeyOf(m)
  BY <1>2 DEF Aes
<1>4. m.key_id = <<s, i>>
  BY <1>3 DEF KeyOf, compute_sessionkey
<1>5. s = m.from /\ kind = m.kind
  BY <1>4 DEF Genuine, FromMaterial
<1>6. m.plain = [j \in 1..Len(m.plain) |-> m.plain[j]]
  BY DEF Genuine, IsSeq
<1>7. CASE Conventional(m)
  <2>1. DOMAIN m.plain = 1..Len(m.plain)
    BY <1>6
  <2>2. m.body = [j \in 1..Len(m.plain) |->
                    IF Encrypts(kind) THEN Ct(Aes(kind, key), m.iv, j, m.plain[j])
                    ELSE Raw(m.plain[j])]
    BY <1>3, <1>5, <1>7, <2>1 DEF Conventional, Cells
  <2>3. CASE Encrypts(kind)
    <3>1. \A j \in 1..Len(m.plain) : m.body[j] = Ct(Aes(kind, key), m.iv, j, m.plain[j])
      BY <2>2, <2>3
    <3>2. \A j \in 1..Len(m.plain) : Decrypt(Aes(kind, key), m.iv, j, m.body[j]) = m.plain[j]
      BY <3>1, DecryptsOwn
    <3>3. DOMAIN m.body = 1..Len(m.plain)
      BY <2>2
    <3>4. deserialize_SecureDataBody(kind, key, m) = [j \in 1..Len(m.plain) |-> m.plain[j]]
      BY <1>1, <2>3, <3>2, <3>3
    <3> QED BY <1>5, <1>6, <3>4
  <2>4. CASE ~Encrypts(kind)
    <3>1. \A j \in 1..Len(m.plain) : m.body[j].pt = m.plain[j]
      BY <2>2, <2>4 DEF Raw
    <3>2. DOMAIN m.body = 1..Len(m.plain)
      BY <2>2
    <3>3. deserialize_SecureDataBody(kind, key, m) = [j \in 1..Len(m.plain) |-> m.plain[j]]
      BY <1>1, <2>4, <3>1, <3>2
    <3> QED BY <1>5, <1>6, <3>3
  <2> QED BY <2>3, <2>4
<1>8. CASE FusedForm(m)
  <2>1. Encrypts(kind)
    <3>1. m.common_mac.len = Len(m.body) /\ Len(m.body) # 0
      BY <1>8 DEF FusedForm, Mac
    <3>2. m.common_mac.len = IF Encrypts(kind) THEN Len(m.body) ELSE 0
      BY <1>1 DEF MacOf, Mac
    <3> QED BY <3>1, <3>2
  <2>2. Aes(kind, key) = <<32, KeyOf(m)>>
    <3>1. m.common_mac.key = Aes(kind, key)
      BY <1>1 DEF MacOf, Mac
    <3> QED BY <1>8, <3>1 DEF FusedForm, Mac
  <2>3. DOMAIN m.body = 1..Len(m.plain)
    BY <1>8 DEF FusedForm, IsSeq
  <2>4. \A j \in 1..Len(m.plain) : Decrypt(Aes(kind, key), m.iv, j, m.body[j]) = m.plain[j]
    <3>1. \A j \in 1..Len(m.plain) : m.body[j] = Ct(Aes(kind, key), m.iv, j, m.plain[j])
      BY <1>8, <2>2 DEF FusedForm
    <3> QED BY <3>1, DecryptsOwn
  <2>5. deserialize_SecureDataBody(kind, key, m) = [j \in 1..Len(m.plain) |-> m.plain[j]]
    BY <1>1, <2>1, <2>3, <2>4
  <2> QED BY <1>5, <1>6, <2>5
<1> QED BY <1>7, <1>8 DEF Genuine

\* A list of MACs that has one for a handle names the handle's receiver.
LEMMA NamedReceiver ==
  ASSUME NEW m, Genuine(m), NEW x, NEW kind, m.macs # {},
         deserialize_SecureDataTag(x, kind, m)
  PROVE  x[2] \in m.addressed
<1>1. PICK t \in m.macs :
        t.mac = SpecificMac(kind, compute_sessionkey(kind, x, m.session_id), m.iv, m.common_mac)
  BY DEF deserialize_SecureDataTag
<1>2. PICK r \in m.addressed :
        t.mac = SpecificMac(m.kind, compute_sessionkey(m.kind, <<m.from, r>>, m.session_id),
                            m.iv, m.common_mac)
  BY DEF Genuine, MacFor
<1>3. t.mac.key = Aes(kind, compute_sessionkey(kind, x, m.session_id))
  BY <1>1 DEF SpecificMac, Mac
<1>4. t.mac.key = Aes(m.kind, compute_sessionkey(m.kind, <<m.from, r>>, m.session_id))
  BY <1>2 DEF SpecificMac, Mac
<1>5. compute_sessionkey(kind, x, m.session_id)
        = compute_sessionkey(m.kind, <<m.from, r>>, m.session_id)
  BY <1>3, <1>4 DEF Aes
<1>6. x = <<m.from, r>>
  BY <1>5 DEF compute_sessionkey
<1> QED BY <1>6

LEMMA AcceptedGenuine ==
  ASSUME NEW m, Genuine(m), NEW x, Decoded(x, m) # Nil
  PROVE  /\ x[1] = m.from /\ Decoded(x, m) = m.plain
         /\ m.level # "payload" /\ m.macs # {} => x[2] \in m.addressed
<1>1. ASSUME NEW i, Opened(x, i, m) # Nil PROVE x[1] = m.from /\ Opened(x, i, m) = m.plain
  BY <1>1, OpenedGenuine DEF Opened, deserialize_SecureDataBody
<1>2. CASE m.level = "payload"
  <2>1. Decoded(x, m) = decode_serialized_payload(x, m)
    BY <1>2 DEF Decoded
  <2>2. Decoded(x, m) = Opened(x, FirstOf(find_key(x, m)), m)
    BY <2>1 DEF decode_serialized_payload
  <2> QED BY <1>1, <1>2, <2>2
<1>3. CASE m.level = "rtps"
  <2>1. Decoded(x, m) = decode_rtps_message(x, m)
    BY <1>3 DEF Decoded
  <2>2. /\ deserialize_SecureDataTag(x, Kinds[x[1]][1], m)
        /\ Decoded(x, m) = Opened(x, 1, m)
    BY <2>1 DEF decode_rtps_message
  <2> QED BY <1>1, <2>2, NamedReceiver
<1>4. CASE m.level = "writer"
  <2>1. Decoded(x, m) = decode_datawriter_submessage(x, m)
    BY <1>4 DEF Decoded
  <2>2. /\ deserialize_SecureDataTag(x, m.kind, m)
        /\ Decoded(x, m) = Opened(x, FirstOf(find_key(x, m)), m)
    BY <2>1 DEF decode_datawriter_submessage
  <2> QED BY <1>1, <2>2, NamedReceiver
<1>5. CASE m.level = "reader"
  <2>1. Decoded(x, m) = decode_datareader_submessage(x, m)
    BY <1>5 DEF Decoded
  <2>2. /\ deserialize_SecureDataTag(x, m.kind, m)
        /\ Decoded(x, m) = Opened(x, FirstOf(find_key(x, m)), m)
    BY <2>1 DEF decode_datareader_submessage
  <2> QED BY <1>1, <2>2, NamedReceiver
<1> QED BY <1>2, <1>3, <1>4, <1>5 DEF Genuine, FromMaterial

\* A receiver hands over a message only as what its sender said, only as that
\* sender's, and with origin authentication only if it was named: also when the
\* message was made by the fast path, whose tag the receiver checks with the
\* kind its own material has.
THEOREM AcceptedAreGenuine == ASSUME OneThread PROVE Spec => []AcceptedIsGenuine
<1>1. IChannel => AcceptedIsGenuine
  <2> SUFFICES ASSUME IChannel, NEW m \in network, NEW x \in HandlesFor(m.level),
                      Decoded(x, m) # Nil
               PROVE  /\ x[1] = m.from /\ Decoded(x, m) = m.plain
                      /\ m.level # "payload" /\ m.macs # {} => x[2] \in m.addressed
    BY DEF AcceptedIsGenuine
  <2>1. Genuine(m)
    BY DEF IChannel, IMessages
  <2> QED BY <2>1, AcceptedGenuine
<1> QED BY <1>1, ChannelInvariant, PTL

-----------------------------------------------------------------------------
(* What was encoded opens.                                                 *)

\* Whoever writes thunks has an AES-256-GCM key last, as the fast path takes
\* for granted.
FastPathKind == \A w \in Thunked : Kinds[w][Last(w)] = "aes256_gcm"

\* Every receiver addressed finds a MAC of its own.
Answered(m) ==
    \A r \in m.addressed : \E t \in m.macs :
        /\ t.id = SpecificId(m.from, r)
        /\ t.mac = SpecificMac(m.kind, compute_sessionkey(m.kind, <<m.from, r>>, m.session_id),
                               m.iv, m.common_mac)

\* What a decoder relies on beyond Genuine.
Readable(m) ==
    /\ m.level = "rtps" => m.key_id = <<m.from, 1>>
    /\ m.level # "payload" => m.subs \in Bodies /\ m.n = PlainLength(m.subs)
    /\ m.level = "payload" => m.n \in Nat \/ m.kind = "aes256_gcm"
    /\ Conventional(m) \/ m.kind = "aes256_gcm"
    /\ Answered(m)
IReadable == \A m \in network : Readable(m)

LEMMA SealedReadable ==
  ASSUME OneThread, ISessions, IOpen, ISpecific, NEW s \in Senders, Turned(s, 1),
         NEW level \in {"writer", "reader", "rtps"}, NEW list \in SUBSET Peers(s),
         NEW subs \in Bodies
  PROVE  Readable(SealedMessage(s, level, list, subs))
<1> DEFINE ses == Rotated(s, 1)
           kind == Kinds[s][1]
           iv == Drawn(ses)
<1>1. InUse(ses, s, 1) /\ 1 \in DOMAIN Kinds[s]
  BY FirstAndLast, TurnedSessions
<1>2. ses.SessionKey = compute_sessionkey(kind, <<s, 1>>, ses.session_id)
      /\ ses.session_id \in Nat
  BY <1>1 DEF InUse, SessionOK
<1>3. PICK m : m = SealedMessage(s, level, list, subs)
  OBVIOUS
<1>4. /\ m.from = s /\ m.level = level /\ m.kind = kind /\ m.key_id = <<s, 1>>
      /\ m.session_id = ses.session_id /\ m.iv = iv
      /\ m.body = Copied(engine[ProcessOf(s)], kind, SealedBody(s))
      /\ m.common_mac = SealedMac(s) /\ m.macs = MacsFor(s, list)
      /\ m.plain = << <<s, drawn + 1>> >> /\ m.addressed = Addressed(s, list)
      /\ m.subs = subs /\ m.n = PlainLength(subs)
  BY <1>3 DEF SealedMessage, Message
<1>5. KeyOf(m) = ses.SessionKey
  BY <1>2, <1>4 DEF KeyOf
<1>6. m.body = SealedBody(s)
  <2>1. ~engine[ProcessOf(s)].on
    BY Quiet DEF Turned
  <2> QED BY <1>4, <2>1 DEF Copied
<1>7. Conventional(m)
  BY <1>4, <1>5, <1>6 DEF Conventional, SealedBody, SealedMac
<1>8. ASSUME NEW r \in m.addressed
      PROVE  \E t \in m.macs :
               /\ t.id = SpecificId(m.from, r)
               /\ t.mac = SpecificMac(m.kind,
                                      compute_sessionkey(m.kind, <<m.from, r>>, m.session_id),
                                      m.iv, m.common_mac)
  <2>1. r \in Addressed(s, list)
    BY <1>4
  <2>2. PICK t : t = [id |-> SpecificId(s, r),
                      mac |-> SpecificMac(kind, KeysAfter(s, list)[<<s, r>>].SessionKey, iv,
                                          SealedMac(s))]
    OBVIOUS
  <2>3. t \in m.macs
    BY <1>4, <2>1, <2>2 DEF MacsFor
  <2>4. KeysAfter(s, list)[<<s, r>>].SessionKey =
          compute_sessionkey(kind, <<s, r>>, ses.session_id)
    BY <1>2, <2>1, KeysAfterEncoder DEF Turned
  <2> QED BY <1>4, <2>2, <2>3, <2>4
<1>9. Answered(m)
  BY <1>8 DEF Answered
<1> QED BY <1>3, <1>4, <1>7, <1>9 DEF Readable

LEMMA PayloadReadable ==
  ASSUME OneThread, ISessions, IOpen, NEW w \in Writers, Turned(w, Last(w)),
         NEW n \in PayloadSizes
  PROVE  Readable(PayloadMessage(w, n))
<1> DEFINE i == Last(w)
           ses == Rotated(w, i)
           kind == Kinds[w][i]
<1>1. InUse(ses, w, i) /\ i \in DOMAIN Kinds[w] /\ w \in Senders
  BY FirstAndLast, TurnedSessions DEF Senders
<1>2. ses.SessionKey = compute_sessionkey(kind, <<w, i>>, ses.session_id)
  BY <1>1 DEF InUse
<1>3. PICK m : m = PayloadMessage(w, n)
  OBVIOUS
<1>4. /\ m.from = w /\ m.level = "payload" /\ m.kind = kind /\ m.key_id = <<w, i>>
      /\ m.session_id = ses.session_id /\ m.iv = Drawn(ses)
      /\ m.body = Copied(engine[Home[w]], kind, PayloadBody(w))
      /\ m.common_mac = MacOf(kind, ses.SessionKey, Drawn(ses), PayloadBody(w))
      /\ m.plain = << <<w, drawn + 1>> >> /\ m.addressed = {} /\ m.n = n
  BY <1>3 DEF PayloadMessage, Message
<1>5. KeyOf(m) = ses.SessionKey
  BY <1>2, <1>4 DEF KeyOf
<1>6. m.body = PayloadBody(w)
  <2>1. ~engine[Home[w]].on
    BY <1>1, Quiet, Processes DEF Turned
  <2> QED BY <1>4, <2>1 DEF Copied
<1>7. Conventional(m)
  BY <1>4, <1>5, <1>6 DEF Conventional, PayloadBody
<1>8. m.n \in Nat
  BY <1>4, Counts
<1> QED BY <1>3, <1>4, <1>7, <1>8 DEF Readable, Answered

LEMMA ClosedReadable ==
  ASSUME FastPathKind, NEW w \in Writers, w \in Thunked
  PROVE  Readable(JobMessage(w))
<1>1. PICK m : m = JobMessage(w)
  OBVIOUS
<1>2. m.level = "payload" /\ m.kind = Kinds[w][Last(w)] /\ m.addressed = {}
  BY <1>1 DEF JobMessage, Message
<1> QED BY <1>1, <1>2 DEF FastPathKind, Readable, Answered

LEMMA ReadableNext ==
  ASSUME OneThread, FastPathKind, ISessions, IOpen, ISpecific, IReadable, [Next]_vars
  PROVE  IReadable'
<1> SUFFICES ASSUME NEW m \in network' PROVE Readable(m)
  BY DEF IReadable, Readable, Conventional, Answered
<1>1. CASE m \in network
  BY <1>1 DEF IReadable
<1> QED BY <1>1, NetworkNext, SealedReadable, PayloadReadable, ClosedReadable

-----------------------------------------------------------------------------
(* Opening it.                                                             *)

\* A handle of the sender answers with the very material a message names, and
\* no other.
LEMMA KeyFound ==
  ASSUME NEW m, FromMaterial(m), NEW r \in Peers(m.from)
  PROVE  \E i \in DOMAIN Kinds[m.from] :
            /\ m.key_id = <<m.from, i>> /\ m.kind = Kinds[m.from][i]
            /\ find_key(<<m.from, r>>, m) = {i} /\ FirstOf(find_key(<<m.from, r>>, m)) = i
<1>1. PICK i \in DOMAIN Kinds[m.from] : m.key_id = <<m.from, i>> /\ m.kind = Kinds[m.from][i]
  BY DEF FromMaterial
<1>2. m.from \in Senders /\ r \in Senders
  BY TransformAssumption DEF FromMaterial, Peers, Senders
<1>3. i # r /\ i # 0
  <2>1. Kinds[m.from] \in Seq(TransformationKinds)
    BY <1>2, TransformAssumption
  <2> QED BY <1>1, <1>2, <2>1, DistinctIds
<1>4. SpecificId(m.from, r) # <<m.from, i>>
  BY <1>3 DEF SpecificId, ZeroId
<1>5. find_key(<<m.from, r>>, m) = {i}
  <2>1. \A k : m.key_id \in {<<m.from, k>>, SpecificId(m.from, r)} <=> k = i
    BY <1>1, <1>4
  <2> QED BY <1>1, <2>1 DEF find_key
<1>6. FirstOf({i}) = i
  <2>1. i \in Nat
    <3>1. Kinds[m.from] \in Seq(TransformationKinds)
      BY <1>2, TransformAssumption
    <3> QED BY <1>1, <3>1
  <2> QED BY <2>1 DEF FirstOf
<1> QED BY <1>1, <1>5, <1>6

\* The body opens under the key the header names.
LEMMA BodyOpens ==
  ASSUME NEW m, Genuine(m), Readable(m), NEW r, NEW i,
         m.key_id = <<m.from, i>>, m.kind = Kinds[m.from][i]
  PROVE  Opened(<<m.from, r>>, i, m) = m.plain
<1> DEFINE key == compute_sessionkey(m.kind, <<m.from, i>>, m.session_id)
<1>1. key = KeyOf(m)
  BY DEF KeyOf
<1>2. m.common_mac = MacOf(m.kind, key, m.iv, m.body)
  <2>1. CASE Conventional(m)
    BY <1>1, <2>1 DEF Conventional
  <2>2. CASE ~Conventional(m)
    <3>1. m.kind = "aes256_gcm" /\ FusedForm(m)
      BY <2>2 DEF Genuine, Readable
    <3>2. Encrypts(m.kind) /\ Aes(m.kind, key) = <<32, key>>
      BY <3>1 DEF Encrypts, Aes, KeyLength
    <3>3. m.common_mac = Mac(<<32, key>>, m.iv, Len(m.body), m.body)
      BY <1>1, <3>1 DEF FusedForm
    <3> QED BY <3>2, <3>3 DEF MacOf
  <2> QED BY <2>1, <2>2
<1>3. deserialize_SecureDataBody(m.kind, key, m) = m.plain
  BY <1>2, OpenedGenuine
<1> QED BY <1>3 DEF Opened

\* The list of MACs lets pass whom the message addresses.
LEMMA TagAccepted ==
  ASSUME NEW m, Readable(m), NEW r, m.macs = {} \/ r \in m.addressed
  PROVE  deserialize_SecureDataTag(<<m.from, r>>, m.kind, m)
BY DEF Readable, Answered, deserialize_SecureDataTag

\* The decoder arrives at the tag.
LEMMA BodyFound ==
  ASSUME NEW m, Readable(m), Expressible(m)
  PROVE  /\ m.level = "payload" => PayloadFound(m.kind, m.n)
         /\ m.level # "payload" => MessageFound(m.kind, m.subs)
<1>1. ASSUME m.level = "payload" PROVE PayloadFound(m.kind, m.n)
  <2>1. CASE m.kind = "aes256_gcm"
    BY <2>1 DEF PayloadFound, PayloadBodyFound, PayloadTagFound, PayloadTagAt, BodyEnd,
                BodyPrefix, HeaderLength, Encrypts
  <2>2. CASE m.n \in Nat
    BY <1>1, <2>2, PayloadFoundExactly DEF Expressible
  <2> QED BY <1>1, <2>1, <2>2 DEF Readable
<1>2. ASSUME m.level # "payload" PROVE MessageFound(m.kind, m.subs)
  <2>1. /\ m.subs \in Seq(Nat) /\ m.subs # << >> /\ m.n = PlainLength(m.subs) /\ m.n \in Nat
        /\ PlainBodyFound(m.subs) = m.n
    BY <1>2, PlainTextWalked, BodiesAssumption DEF Readable
  <2>2. CASE Encrypts(m.kind)
    <3>1. m.n + 7 < 65536
      BY <1>2, <2>2 DEF Expressible
    <3>2. PostfixFound(m.n) = PostfixAt(m.kind, m.n)
      BY <2>1, <2>2, <3>1, PostfixFoundExactly
    <3> QED BY <2>1, <2>2, <3>2 DEF MessageFound
  <2>3. CASE ~Encrypts(m.kind)
    <3>1. PostfixAt(m.kind, m.n) = Aligned(BodyAt + m.n)
      <4>1. BodyAt \in Nat
        BY DEF BodyAt, PrefixLength, HeaderLength
      <4>2. BodyAt + 0 + m.n = BodyAt + m.n
        BY <2>1, <4>1
      <4> QED BY <2>3, <4>2 DEF PostfixAt, BodyEnd, BodyPrefix
    <3> QED BY <2>1, <2>3, <3>1 DEF MessageFound
  <2> QED BY <2>2, <2>3
<1> QED BY <1>1, <1>2

\* Whoever has the key, arrives at the tag and accepts it opens the body.
LEMMA DecodedIsOpened ==
  ASSUME NEW x, NEW m, NEW i,
         m.level \in {"payload", "writer", "reader", "rtps"}, m.level = "rtps" => i = 1,
         exchange[x] = "known", find_key(x, m) # {}, FirstOf(find_key(x, m)) = i,
         m.kind = Kinds[x[1]][i], deserialize_SecureDataTag(x, m.kind, m),
         m.level = "payload" => PayloadFound(m.kind, m.n),
         m.level # "payload" => MessageFound(m.kind, m.subs)
  PROVE  Decoded(x, m) = Opened(x, i, m)
<1>1. CASE m.level = "payload"
  <2>1. Decoded(x, m) = decode_serialized_payload(x, m)
    BY <1>1 DEF Decoded
  <2> QED BY <1>1, <2>1 DEF decode_serialized_payload
<1>2. CASE m.level = "writer"
  <2>1. Decoded(x, m) = decode_datawriter_submessage(x, m)
    BY <1>2 DEF Decoded
  <2> QED BY <1>2, <2>1 DEF decode_datawriter_submessage
<1>3. CASE m.level = "reader"
  <2>1. Decoded(x, m) = decode_datareader_submessage(x, m)
    BY <1>3 DEF Decoded
  <2> QED BY <1>3, <2>1 DEF decode_datareader_submessage
<1>4. CASE m.level = "rtps"
  <2>1. Decoded(x, m) = decode_rtps_message(x, m)
    BY <1>4 DEF Decoded
  <2>2. i = 1 /\ m.kind = Kinds[x[1]][1]
    BY <1>4
  <2> QED BY <1>4, <2>1, <2>2 DEF decode_rtps_message
<1> QED BY <1>1, <1>2, <1>3, <1>4

LEMMA EncodedOpens ==
  ASSUME NEW m, Genuine(m), Readable(m), Submessage(m), NEW r \in Peers(m.from),
         exchange[<<m.from, r>>] = "known", Expressible(m), m.macs = {} \/ r \in m.addressed
  PROVE  Decoded(<<m.from, r>>, m) = m.plain
<1>1. PICK i \in DOMAIN Kinds[m.from] :
        /\ m.key_id = <<m.from, i>> /\ m.kind = Kinds[m.from][i]
        /\ find_key(<<m.from, r>>, m) = {i} /\ FirstOf(find_key(<<m.from, r>>, m)) = i
  BY KeyFound DEF Genuine
<1>2. Opened(<<m.from, r>>, i, m) = m.plain
  BY <1>1, BodyOpens
<1>3. PICK x : x = <<m.from, r>>
  OBVIOUS
<1>4. deserialize_SecureDataTag(x, m.kind, m)
  BY <1>3, TagAccepted
<1>5. /\ m.level = "payload" => PayloadFound(m.kind, m.n)
      /\ m.level # "payload" => MessageFound(m.kind, m.subs)
  BY BodyFound
<1>6. /\ exchange[x] = "known" /\ find_key(x, m) # {} /\ FirstOf(find_key(x, m)) = i
      /\ m.kind = Kinds[x[1]][i]
  BY <1>1, <1>3
<1>7. m.level = "rtps" => i = 1
  BY <1>1 DEF Readable
<1>8. m.level \in {"payload", "writer", "reader", "rtps"}
  BY DEF Genuine, FromMaterial
<1>9. Decoded(x, m) = Opened(x, i, m)
  BY <1>4, <1>5, <1>6, <1>7, <1>8, DecodedIsOpened
<1> QED BY <1>2, <1>3, <1>9

\* Whatever has been encoded opens, to what was encoded, at every receiver it
\* was meant for, however late, and however often keys have changed since: by
\* the fast path or not, for any number of submessages and any sizes the
\* format can express, if whoever writes thunks has an AES-256-GCM key last.
THEOREM EncodedAreOpened == ASSUME OneThread, FastPathKind PROVE Spec => []Opens
<1>1. Init => IReadable /\ ISubmessages
  BY DEF Init, IReadable, ISubmessages
<1>2. IChannel /\ IReadable /\ ISubmessages /\ [Next]_vars => (IReadable /\ ISubmessages)'
  BY ReadableNext, SubmessagesNext DEF IChannel
<1>3. IChannel /\ IReadable /\ ISubmessages => Opens
  <2> SUFFICES ASSUME IChannel, IReadable, ISubmessages, NEW m \in network,
                      NEW r \in Peers(m.from), exchange[<<m.from, r>>] = "known",
                      Expressible(m), m.macs = {} \/ r \in m.addressed
               PROVE  Decoded(<<m.from, r>>, m) = m.plain
    BY DEF Opens
  <2>1. Genuine(m) /\ Readable(m) /\ Submessage(m)
    BY DEF IChannel, IMessages, IReadable, ISubmessages
  <2> QED BY <2>1, EncodedOpens
<1> QED BY <1>1, <1>2, <1>3, ChannelInvariant, PTL DEF Spec

=============================================================================
