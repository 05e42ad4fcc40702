-------------------------- MODULE SecureTransform --------------------------
(***************************************************************************)
(* The cryptographic transform of the ROS2 path, AESGCMGMAC_Transform.cpp: *)
(* session keys that rotate, receiver-specific keys that follow them,      *)
(* payloads, submessages and RTPS messages protected and opened, and the   *)
(* fast path that encrypts a sample out of the application's memory with   *)
(* the one engine of the process.                                          *)
(*                                                                         *)
(* A sender is a DataWriter, a DataReader (of ACKNACKs) or a participant.  *)
(* Each encoder holds its sender's mutex from beginning to end, so that it *)
(* is one step; the fast path is several, because the engine it drives is  *)
(* not under that mutex, nor is the application's memory.  Messages are    *)
(* kept in a set: any of them may be lost, repeated or overtaken before a  *)
(* receiver opens it.  Decoders keep no state, so they are operators, and  *)
(* the properties ask what they make of every message at every moment.     *)
(***************************************************************************)
EXTENDS SecureLayout, GcmTerms, FiniteSets

CONSTANTS
    Participants, Writers, Readers,
    Home,           \* Home[e]: the participant of a writer or reader
    Matched,        \* the pairs <<writer, reader>> that are matched
    Kinds,          \* Kinds[s]: the kinds of the key materials of s, in order
    OriginAuth,     \* the senders that give receivers keys of their own
    Thunked,        \* the writers whose type serializes a thunk
    max_blocks_per_session,
    Pieces,         \* in how many pieces the fast path reads a sample
    PayloadSizes,   \* bytes of the samples met
    Bodies,         \* the plain submessages met: sequences of header lengths
    OneThread,      \* assumption: no encoder runs beside an open fast path
    Turns,          \* bound: the submessages or RTPS messages of each sender
    MaxPayloads,    \* bound: the payloads
    Introduced,     \* bound: the pairs whose keys have been exchanged before
    MaxMessages,    \* bound: encoders called
    MaxVersions     \* bound: contents the application gives its sample

Senders == Writers \cup Readers \cup Participants

ASSUME TransformAssumption ==
    /\ Home \in [Writers \cup Readers -> Participants]
    /\ Matched \subseteq Writers \X Readers
    /\ DOMAIN Kinds = Senders
    /\ \A s \in Senders : Kinds[s] \in Seq(TransformationKinds) \ {<< >>}
    /\ OriginAuth \subseteq Senders /\ Thunked \subseteq Writers
    /\ Turns \in [Senders -> Nat]
    /\ max_blocks_per_session \in Nat /\ Pieces \in Nat \ {0}
    /\ PayloadSizes \subseteq Nat
    /\ OneThread \in BOOLEAN
    /\ MaxMessages \in Nat /\ MaxPayloads \in Nat /\ MaxVersions \in Nat

\* Writers, readers and participants are different things.
ASSUME SeparateSenders ==
    Writers \cap Readers = {} /\ (Writers \cup Readers) \cap Participants = {}

\* A message has a submessage, and every one a length.
ASSUME BodiesAssumption == Bodies \subseteq Seq(Nat) \ {<< >>}

\* The id of a key material and that of a receiver's key are different.
ASSUME DistinctIds == \A s, r \in Senders : r \notin DOMAIN Kinds[s]

VARIABLES
    sessions,   \* sessions[s][i]: the session of key material i of s
    specific,   \* specific[<<s, r>>]: the session in s's handle of receiver r
    exchange,   \* exchange[<<s, r>>]: how far the key material of s for r is
    engine,     \* engine[p]: g_crypto_engine and g_fuse_active of a process
    job,        \* job[w]: the call of the fast path that w's mutex protects
    memory,     \* memory[w]: the vector the application keeps its sample in
    history,    \* history[w]: the change Fast DDS keeps, a thunk and its size
    network,    \* the messages encoded so far
    refused,    \* history: calls that failed for want of room
    drawn       \* the IVs drawn so far

vars == <<sessions, specific, exchange, engine, job, memory, history, network,
          refused, drawn>>

-----------------------------------------------------------------------------
(* Keys.                                                                   *)

ProcessOf(s) == IF s \in Participants THEN s ELSE Home[s]

Peers(s) == IF s \in Writers THEN {r \in Readers : <<s, r>> \in Matched}
            ELSE IF s \in Readers THEN {w \in Writers : <<w, s>> \in Matched}
            ELSE Participants \ {s}

Pairs == {x \in Senders \X Senders : x[2] \in Peers(x[1])}

\* Sender key ids name the material; the id of a receiver-specific key names
\* the pair.  ZeroId is c_transformKeyIdZero: no origin authentication.
ZeroId == <<0, 0>>
SpecificId(s, r) == IF s \in OriginAuth THEN <<s, r>> ELSE ZeroId

\* HMAC of salt and session id under a master key, which is named by the id
\* that goes with it.  A key of another length is another key.
compute_sessionkey(kind, master, session_id) ==
    [length |-> KeyLength(kind), master |-> master, session |-> session_id]

\* The cipher EVP is initialised with: AES-128 or AES-256, under a key.
Aes(kind, key) == <<KeyLength(kind), key>>

\* Before the first message: an exhausted session, and receivers' sessions of
\* no session at all.
NoSession == -1
FreshSession == [session_id |-> 0, session_block_counter |-> max_blocks_per_session,
                 SessionKey |-> Nil]
FreshSpecific == [session_id |-> NoSession, SessionKey |-> Nil]

\* Mutant: the counter is compared too late.
RotatedLate(s, i) ==
    LET ses == sessions[s][i] IN
    IF ses.session_block_counter > max_blocks_per_session
    THEN [session_id |-> ses.session_id + 1, session_block_counter |-> 1,
          SessionKey |-> compute_sessionkey(Kinds[s][i], <<s, i>>, ses.session_id + 1)]
    ELSE [ses EXCEPT !.session_block_counter = @ + 1]

\* How many messages a session holds.  The counter is compared before it is
\* incremented, so that even a limit of none lets one through.
BlockLimit == IF max_blocks_per_session = 0 THEN 1 ELSE max_blocks_per_session

\* The session a message of s under its i-th material goes out in: a full one
\* is left for the next, with a new key and an empty counter.
Rotates(s, i) == sessions[s][i].session_block_counter >= max_blocks_per_session
Rotated(s, i) ==
    LET ses == sessions[s][i] IN
    IF Rotates(s, i)
    THEN [session_id |-> ses.session_id + 1, session_block_counter |-> 1,
          SessionKey |-> compute_sessionkey(Kinds[s][i], <<s, i>>, ses.session_id + 1)]
    ELSE [ses EXCEPT !.session_block_counter = @ + 1]

\* Session id and eight random bytes, which are never drawn twice.
Drawn(ses) == [session |-> ses.session_id, suffix |-> drawn + 1]

-----------------------------------------------------------------------------
(* serialize_SecureDataBody and serialize_SecureDataTag.  CryptoFusionPass *)
(* rewrites functions by their names, and theirs contain "serialize" and,  *)
(* by their parameter, "Cdr": the copy of an authenticated-only body and   *)
(* the store of a receiver's session id go through the engine whenever an  *)
(* operation happens to be open in the process.                            *)

Cells(kind, key, iv, plain) ==
    [j \in DOMAIN plain |-> IF Encrypts(kind) THEN Ct(Aes(kind, key), iv, j, plain[j])
                            ELSE Raw(plain[j])]

\* The MAC of a body: over its ciphertext, or over it as additional data.
MacOf(kind, key, iv, cells) ==
    Mac(Aes(kind, key), iv, IF Encrypts(kind) THEN Len(cells) ELSE 0, cells)

\* What the hooked copy leaves in the message.
Copied(e, kind, cells) ==
    IF Encrypts(kind) \/ ~e.on THEN cells
    ELSE [j \in DOMAIN cells |-> Ct(e.key, e.iv, e.ctr + j - 1, cells[j].pt)]

\* What the hooks leave in the engine: the copied cells and the stored ids.
Hooked(e, kind, cells, stores) ==
    IF ~e.on THEN e
    ELSE LET copied == IF Encrypts(kind) THEN << >> ELSE Copied(e, kind, cells) IN
         [e EXCEPT !.hash = @ \o copied \o [j \in 1..stores |-> Blank],
                   !.ctr = @ + Len(copied) + stores,
                   !.len = @ + Len(copied) + stores]

\* The receivers that get a MAC of their own: those whose key is there.  The
\* loop ends at the first zero key id; one sender's are zero together.
Addressed(s, list) ==
    {r \in list : s \in OriginAuth /\ exchange[<<s, r>>] # "none"}

\* Mutant: the key of the first session is kept.
RefreshedOnce(s, list, ses, update) ==
    {r \in Addressed(s, list) : specific[<<s, r>>].session_id = NoSession}

\* Of these, the ones whose key is that of another session.
Refreshed(s, list, ses, update) ==
    {r \in Addressed(s, list) :
        update \/ specific[<<s, r>>].session_id # ses.session_id}

\* A refreshed receiver session.  A participant's key is computed from the id
\* just stored, an entity's from the parameter.
RefreshedSession(e, s, kind, r, id) ==
    LET stored == IF e.on THEN Junk ELSE id IN
    [session_id |-> stored,
     SessionKey |-> compute_sessionkey(kind, <<s, r>>,
                                       IF s \in Participants THEN stored ELSE id)]

SpecificAfter(e, s, kind, list, ses, update) ==
    [x \in Pairs |-> IF x[1] = s /\ x[2] \in Refreshed(s, list, ses, update)
                     THEN RefreshedSession(e, s, kind, x[2], ses.session_id)
                     ELSE specific[x]]

\* A receiver's MAC: over the common one, under the same IV.
SpecificMac(kind, key, iv, common_mac) == Mac(Aes(kind, key), iv, 0, <<common_mac>>)

\* A message on the network.  The last four fields are not in it: what was
\* protected, for whom, which version of the sample, and whether for the
\* first time.
Message(s, level, i, ses, iv, n, subs, body, common_mac, macs, plain, addressed, version, first) ==
    [from |-> s, level |-> level, kind |-> Kinds[s][i], key_id |-> <<s, i>>,
     session_id |-> ses.session_id, iv |-> iv, n |-> n, subs |-> subs, body |-> body,
     common_mac |-> common_mac, macs |-> macs,
     plain |-> plain, addressed |-> addressed, version |-> version, first |-> first]

-----------------------------------------------------------------------------
(* Encoders.                                                               *)

NoJob == [at |-> "none"]
OpenJobs(p) == {w \in Writers : Home[w] = p /\ job[w] # NoJob}

\* The sender's mutex is free.
Free(s) ==
    /\ drawn < MaxMessages
    /\ s \in Writers => job[s] = NoJob
    /\ OneThread => OpenJobs(ProcessOf(s)) = {}

\* Protect a plain text of s with its first key and send it to a list of
\* receivers, if the buffer the middleware has prepared is long enough.
Protect(s, level, list, subs, size) ==
    LET ses    == Rotated(s, 1)
        update == Rotates(s, 1)
        kind   == Kinds[s][1]
        iv     == Drawn(ses)
        n      == PlainLength(subs)
        e      == engine[ProcessOf(s)]
        plain  == << <<s, drawn + 1>> >>
        cells  == Cells(kind, ses.SessionKey, iv, plain)
        mac    == MacOf(kind, ses.SessionKey, iv, cells)
        to     == Addressed(s, list)
        keys   == SpecificAfter(e, s, kind, list, ses, update)
        macs   == {[id  |-> SpecificId(s, r),
                    mac |-> SpecificMac(kind, keys[<<s, r>>].SessionKey, iv, mac)] : r \in to}
    IN  /\ sessions' = [sessions EXCEPT ![s][1] = ses]
        /\ drawn' = drawn + 1
        /\ \/ /\ MessageFits(kind, n, Cardinality(to), size)
              /\ specific' = keys
              /\ engine' = [engine EXCEPT ![ProcessOf(s)] =
                               Hooked(e, kind, cells,
                                      Cardinality(Refreshed(s, list, ses, update)))]
              /\ network' = network \cup
                     {Message(s, level, 1, ses, iv, n, subs, Copied(e, kind, cells), mac,
                              macs, plain, to, 0, TRUE)}
              /\ UNCHANGED refused
           \/ /\ ~MessageFits(kind, n, Cardinality(to), size)
              /\ refused' = refused \cup {<<s, level, n>>}
              /\ UNCHANGED <<specific, engine, network>>
        /\ UNCHANGED <<exchange, job, memory, history>>

encode_datawriter_submessage(w, list, subs) ==
    /\ Free(w)
    /\ Protect(w, "writer", list, subs,
               PlainLength(subs)
                   + calculate_extra_size_for_rtps_submessage(Cardinality(Peers(w))))

encode_datareader_submessage(r, list, subs) ==
    /\ Free(r)
    /\ Protect(r, "reader", list, subs,
               PlainLength(subs)
                   + calculate_extra_size_for_rtps_submessage(Cardinality(Peers(r))))

encode_rtps_message(p, list, subs) ==
    /\ Free(p)
    /\ Protect(p, "rtps", list, subs,
               PlainLength(subs)
                   + calculate_extra_size_for_rtps_message(Cardinality(Peers(p))))

\* A payload goes out under the last key, without receivers' MACs and without
\* a word to whoever protects submessages in the same session.
Last(s) == Len(Kinds[s])

\* The slow path of encode_serialized_payload: a conventional payload.
encode_serialized_payload(w, n) ==
    LET i     == Last(w)
        ses   == Rotated(w, i)
        kind  == Kinds[w][i]
        iv    == Drawn(ses)
        e     == engine[Home[w]]
        plain == << <<w, drawn + 1>> >>
        cells == Cells(kind, ses.SessionKey, iv, plain)
        size  == n + calculate_extra_size_for_encoded_payload(Cardinality(Peers(w)))
    IN  /\ w \notin Thunked /\ Free(w)
        /\ sessions' = [sessions EXCEPT ![w][i] = ses]
        /\ drawn' = drawn + 1
        /\ \/ /\ PayloadFits(kind, n, size)
              /\ engine' = [engine EXCEPT ![Home[w]] = Hooked(e, kind, cells, 0)]
              /\ network' = network \cup
                     {Message(w, "payload", i, ses, iv, n, << >>, Copied(e, kind, cells),
                              MacOf(kind, ses.SessionKey, iv, cells), {}, plain, {}, 0, TRUE)}
              /\ UNCHANGED refused
           \/ /\ ~PayloadFits(kind, n, size)
              /\ refused' = refused \cup {<<w, "payload", n>>}
              /\ UNCHANGED <<engine, network>>
        /\ UNCHANGED <<specific, exchange, job, memory, history>>

-----------------------------------------------------------------------------
(* The fast path.  serialize leaves a thunk of 24 bytes, which names the   *)
(* application's vector and its size then; Fast DDS keeps it and has it    *)
(* encoded, by the thread in write() and later by the one that resends.    *)

NoChange == [alloc |-> 0, n |-> 0, version |-> 0]

\* Mutant: the application goes on before write() has encoded the sample.
UpdateAnyTime(w, n) ==
    /\ memory[w].version < MaxVersions /\ n >= memory[w].n
    /\ memory' = [memory EXCEPT ![w] =
                      [alloc   |-> IF n > @.n THEN @.alloc + 1 ELSE @.alloc,
                       n       |-> n,
                       version |-> @.version + 1]]
    /\ UNCHANGED <<sessions, specific, exchange, engine, job, history, network,
                   refused, drawn>>

\* The application gives its sample other content, and room for more if need
\* be; it does so in the thread that calls write(), so not during the call.
Update(w, n) ==
    /\ memory[w].version < MaxVersions /\ n >= memory[w].n
    /\ job[w] # NoJob => job[w].by = "event"
    /\ memory' = [memory EXCEPT ![w] =
                      [alloc   |-> IF n > @.n THEN @.alloc + 1 ELSE @.alloc,
                       n       |-> n,
                       version |-> @.version + 1]]
    /\ UNCHANGED <<sessions, specific, exchange, engine, job, history, network,
                   refused, drawn>>

\* From the lock to the jump over the ciphertext.  The thunk's payload is 24
\* bytes longer than the sample, and so is the buffer prepared for it.
BeginJob(w, by, thunk) ==
    LET i    == Last(w)
        ses  == Rotated(w, i)
        size == thunk.n + 24 + calculate_extra_size_for_encoded_payload(Cardinality(Peers(w)))
    IN  /\ Free(w)
        /\ sessions' = [sessions EXCEPT ![w][i] = ses]
        /\ drawn' = drawn + 1
        /\ \/ /\ PayloadEnd("aes256_gcm", thunk.n) <= size
              /\ job' = [job EXCEPT ![w] =
                            [at |-> "init", by |-> by, ses |-> ses, iv |-> Drawn(ses),
                             thunk |-> thunk, fused |-> FALSE, plain |-> << >>,
                             body |-> << >>]]
              /\ UNCHANGED refused
           \/ /\ PayloadEnd("aes256_gcm", thunk.n) > size
              /\ refused' = refused \cup {<<w, "payload", thunk.n>>}
              /\ UNCHANGED job

\* write(): serialize makes the thunk and the application's thread encodes it.
Write(w) ==
    LET thunk == memory[w] IN
    /\ w \in Thunked /\ memory[w].version > 0
    /\ history' = [history EXCEPT ![w] = thunk]
    /\ BeginJob(w, "app", thunk)
    /\ UNCHANGED <<specific, exchange, engine, memory, network>>

\* A retransmission encodes what is in the history once more.
Resend(w) ==
    /\ w \in Thunked /\ history[w] # NoChange
    /\ BeginJob(w, "event", history[w])
    /\ UNCHANGED <<specific, exchange, engine, memory, history, network>>

fuse_init(w) ==
    /\ job[w].at = "init"
    /\ engine' = [engine EXCEPT ![Home[w]] =
                      [EngineInit(@, <<32, job[w].ses.SessionKey>>, job[w].iv)
                          EXCEPT !.len = 0, !.on = TRUE]]
    /\ job' = [job EXCEPT ![w].at = "copy"]
    /\ UNCHANGED <<sessions, specific, exchange, memory, history, network, refused, drawn>>

\* The j-th piece of the sample: what stands now at the thunk's pointer.
PieceRead(w, j) ==
    IF memory[w].alloc = job[w].thunk.alloc THEN <<w, memory[w].version, j>> ELSE Junk

\* One piece copied by fuse_inline_enc_memcpy, which asks once, when it is
\* called, whether an operation is open.
serialize_memcpy(w) ==
    LET j     == Len(job[w].body) + 1
        e     == engine[Home[w]]
        fused == IF j = 1 THEN e.on ELSE job[w].fused
        p     == PieceRead(w, j)
        cell  == IF fused THEN Ct(e.key, e.iv, e.ctr, p) ELSE Raw(p)
    IN  /\ job[w].at = "copy"
        /\ job' = [job EXCEPT ![w].fused = fused,
                              ![w].plain = Append(@, p),
                              ![w].body = Append(@, cell),
                              ![w].at = IF j = Pieces THEN "final" ELSE "copy"]
        /\ engine' = IF fused THEN [engine EXCEPT ![Home[w]] = Absorb(@, cell)] ELSE engine
        /\ UNCHANGED <<sessions, specific, exchange, memory, history, network, refused, drawn>>

\* The engine is closed, its tag becomes the common MAC, the payload is done.
fuse_finalize_enc(w) ==
    LET e == engine[Home[w]]
        x == job[w]
    IN  /\ job[w].at = "final"
        /\ network' = network \cup
               {Message(w, "payload", Last(w), x.ses, x.iv, x.thunk.n, << >>, x.body,
                        EngineTag(e), {}, x.plain, {}, x.thunk.version, x.by = "app")}
        /\ engine' = [engine EXCEPT ![Home[w]].on = FALSE]
        /\ job' = [job EXCEPT ![w] = NoJob]
        /\ UNCHANGED <<sessions, specific, exchange, memory, history, refused, drawn>>

-----------------------------------------------------------------------------
(* Key exchange, by the cryptographic key factory and exchange of Fast DDS.*)

\* The sender has made a handle and a key for the receiver.
RegisterRemote(x) ==
    /\ exchange[x] = "none"
    /\ exchange' = [exchange EXCEPT ![x] = "registered"]
    /\ UNCHANGED <<sessions, specific, engine, job, memory, history, network,
                   refused, drawn>>

\* The crypto tokens have reached the receiver.
TokenArrives(x) ==
    /\ exchange[x] = "registered"
    /\ exchange' = [exchange EXCEPT ![x] = "known"]
    /\ UNCHANGED <<sessions, specific, engine, job, memory, history, network,
                   refused, drawn>>

Known == {x \in Pairs : exchange[x] = "known"}

\* The handles a message is tried with: those of senders of its sort.
HandlesFor(level) ==
    {x \in Known : x[1] \in CASE level = "rtps"   -> Participants
                              [] level = "reader" -> Readers
                              [] OTHER            -> Writers}

-----------------------------------------------------------------------------
(* Decoders.  A handle is a pair <<s, r>>: what r holds of sender s.  The  *)
(* answer is the plain text, or Nil when the message is turned down.       *)

\* The key materials of a handle that answer to the header of a message.
find_key(x, m) ==
    {i \in DOMAIN Kinds[x[1]] :
        /\ Kinds[x[1]][i] = m.kind
        /\ m.key_id \in {<<x[1], i>>, SpecificId(x[1], x[2])}}

FirstOf(indices) == CHOOSE i \in indices : \A k \in indices : i <= k

\* No list, or one with a good MAC for this receiver.
deserialize_SecureDataTag(x, kind, m) ==
    \/ m.macs = {}
    \/ \E t \in m.macs :
          /\ t.id = SpecificId(x[1], x[2])
          /\ t.mac = SpecificMac(kind, compute_sessionkey(kind, x, m.session_id),
                                 m.iv, m.common_mac)

\* Mutant: what is deciphered is handed over before the MAC is compared.
deserialize_unverified(kind, key, m) ==
    [j \in DOMAIN m.body |->
        IF Encrypts(kind) THEN Decrypt(Aes(kind, key), m.iv, j, m.body[j])
        ELSE m.body[j].pt]

\* The common MAC is checked before anything is handed over.
deserialize_SecureDataBody(kind, key, m) ==
    IF m.common_mac # MacOf(kind, key, m.iv, m.body) THEN Nil
    ELSE [j \in DOMAIN m.body |->
            IF Encrypts(kind) THEN Decrypt(Aes(kind, key), m.iv, j, m.body[j])
            ELSE m.body[j].pt]

\* Opened with the i-th material of a handle.
Opened(x, i, m) ==
    LET kind == Kinds[x[1]][i] IN
    deserialize_SecureDataBody(kind, compute_sessionkey(kind, <<x[1], i>>, m.session_id), m)

\* What the tag's list says is not looked at.
decode_serialized_payload(x, m) ==
    IF exchange[x] = "known" /\ find_key(x, m) # {} /\ PayloadFound(m.kind, m.n)
    THEN Opened(x, FirstOf(find_key(x, m)), m)
    ELSE Nil

\* A submessage for a reader, and one for a writer: the tag's list first.
decode_datawriter_submessage(x, m) ==
    IF /\ exchange[x] = "known" /\ find_key(x, m) # {} /\ MessageFound(m.kind, m.subs)
       /\ deserialize_SecureDataTag(x, m.kind, m)
    THEN Opened(x, FirstOf(find_key(x, m)), m)
    ELSE Nil
decode_datareader_submessage(x, m) ==
    IF /\ exchange[x] = "known" /\ find_key(x, m) # {} /\ MessageFound(m.kind, m.subs)
       /\ deserialize_SecureDataTag(x, m.kind, m)
    THEN Opened(x, FirstOf(find_key(x, m)), m)
    ELSE Nil

\* The key ids of the header are not compared: a participant has one material.
decode_rtps_message(x, m) ==
    IF /\ exchange[x] = "known" /\ MessageFound(Kinds[x[1]][1], m.subs)
       /\ deserialize_SecureDataTag(x, Kinds[x[1]][1], m)
    THEN Opened(x, 1, m)
    ELSE Nil

Decoded(x, m) ==
    CASE m.level = "payload" -> decode_serialized_payload(x, m)
      [] m.level = "rtps"    -> decode_rtps_message(x, m)
      [] m.level = "writer"  -> decode_datawriter_submessage(x, m)
      [] m.level = "reader"  -> decode_datareader_submessage(x, m)

-----------------------------------------------------------------------------
(* preprocess_secure_submsg: whose submessage it is that participant p got *)
(* from participant q, and for which entity of p.  The handles are walked  *)
(* in an order nobody fixes, so the answer is one of a set.                *)

\* Mutant: whichever entity has some key.
lookup_any(p, key_id) == {x[2] : x \in {y \in Known : ProcessOf(y[2]) = p}}

\* lookup_reader and lookup_writer: entities of p with a key of that id.
lookup(p, key_id) ==
    {x[2] : x \in {y \in Known :
        ProcessOf(y[2]) = p /\ \E i \in DOMAIN Kinds[y[1]] : <<y[1], i>> = key_id}}

\* Handles of q's writers, or of its readers, under whose first key it is.
Candidates(q, entities, p, m) ==
    {[sender |-> x[1], receiver |-> r] :
        x \in {y \in Pairs : /\ y[1] \in entities /\ <<y[1], 1>> = m.key_id
                              /\ Home[y[1]] = q /\ exchange[y] = "known"},
        r \in lookup(p, m.key_id)}

\* Writers come first.
preprocess_secure_submsg(p, q, m) ==
    LET from(level, entities) ==
            {[level |-> level, sender |-> c.sender, receiver |-> c.receiver] :
                c \in Candidates(q, entities, p, m)}
        writers == from("writer", Writers)
    IN  IF writers # {} THEN writers ELSE from("reader", Readers)

-----------------------------------------------------------------------------
\* The fused engine of a process nobody has used yet.
UnusedEngine == [key |-> IdleEngine.key, iv |-> IdleEngine.iv, ctr |-> IdleEngine.ctr,
                 hash |-> IdleEngine.hash, len |-> IdleEngine.len, on |-> FALSE]

Init ==
    /\ sessions = [s \in Senders |-> [i \in DOMAIN Kinds[s] |-> FreshSession]]
    /\ specific = [x \in Pairs |-> FreshSpecific]
    /\ exchange = [x \in Pairs |-> IF x \in Introduced THEN "known" ELSE "none"]
    /\ engine = [p \in Participants |-> UnusedEngine]
    /\ job = [w \in Writers |-> NoJob]
    /\ memory = [w \in Writers |-> NoChange]
    /\ history = [w \in Writers |-> NoChange]
    /\ network = {} /\ refused = {} /\ drawn = 0

\* Nothing is left to happen within the bounds.
Finished ==
    /\ drawn = MaxMessages /\ \A w \in Writers : job[w] = NoJob
    /\ UNCHANGED vars

HasTurn(s) == Cardinality({m \in network : m.from = s /\ m.level # "payload"}) < Turns[s]
PayloadsLeft == Cardinality({m \in network : m.level = "payload"}) < MaxPayloads

Encode(s) ==
    HasTurn(s) /\ \E list \in SUBSET Peers(s), subs \in Bodies :
        \/ s \in Writers /\ Len(subs) = 1 /\ encode_datawriter_submessage(s, list, subs)
        \/ s \in Readers /\ Len(subs) = 1 /\ encode_datareader_submessage(s, list, subs)
        \/ s \in Participants /\ encode_rtps_message(s, list, subs)

FastPath(w) ==
    \/ PayloadsLeft /\ (Write(w) \/ Resend(w))
    \/ fuse_init(w) \/ serialize_memcpy(w) \/ fuse_finalize_enc(w)

Next ==
    \/ \E s \in Senders : Encode(s)
    \/ \E w \in Writers, n \in PayloadSizes : PayloadsLeft /\ encode_serialized_payload(w, n)
    \/ \E w \in Thunked, n \in PayloadSizes : Update(w, n)
    \/ \E w \in Thunked : FastPath(w)
    \/ \E x \in Pairs : RegisterRemote(x) \/ TokenArrives(x)
    \/ Finished

Spec == Init /\ [][Next]_vars

-----------------------------------------------------------------------------
(* Properties.                                                             *)

\* What the encoders and the fast path keep between two calls is well formed:
\* a counter never passes its session's limit, an open operation and the mutex
\* that protects it go together, and every IV drawn belongs to one message.
TypeOK ==
    /\ \A s \in Senders : \A i \in DOMAIN Kinds[s] :
          /\ sessions[s][i].session_id \in Nat
          /\ sessions[s][i].session_block_counter \in 0..BlockLimit
    /\ \A x \in Pairs : /\ exchange[x] \in {"none", "registered", "known"}
                        /\ specific[x].session_id \in Nat \cup {NoSession, Junk}
    /\ \A p \in Participants : engine[p].on \in BOOLEAN
    /\ \A w \in Writers : /\ job[w].at \in {"none", "init", "copy", "final"}
                          /\ memory[w].version \in 0..MaxVersions
                          /\ history[w].version \in 0..memory[w].version
    /\ \A m \in network : m.iv.suffix \in 1..drawn
    /\ drawn \in 0..MaxMessages

\* A session key protects no more messages than max_blocks_per_session: the
\* payload path and the submessage path share a session when there is one key
\* material, and each rotates it for both.
SessionBlocks ==
    \A m \in network :
        Cardinality({o \in network : o.key_id = m.key_id /\ o.session_id = m.session_id})
            <= BlockLimit

\* Every receiver's MAC is made with the receiver's key of the very session in
\* the message's header, whichever path has rotated the session last.
MacsCurrent ==
    \A m \in network : \A t \in m.macs :
        \E r \in Peers(m.from) :
            /\ t.id = SpecificId(m.from, r)
            /\ t.mac = SpecificMac(m.kind,
                                   compute_sessionkey(m.kind, <<m.from, r>>, m.session_id),
                                   m.iv, m.common_mac)

\* Lengths the format can express: a 16-bit length of SEC_BODY, and for an
\* authenticated-only payload no padding before the length of the list.
Expressible(m) ==
    IF m.level = "payload" THEN Encrypts(m.kind) \/ m.n % 4 = 0
    ELSE ~Encrypts(m.kind) \/ m.n + 7 < 65536

\* Whatever has been encoded opens, to what was encoded, at every receiver it
\* was meant for, however late, and however often keys have changed since.
Opens ==
    \A m \in network : \A r \in Peers(m.from) :
        (/\ exchange[<<m.from, r>>] = "known" /\ Expressible(m)
         /\ m.macs = {} \/ r \in m.addressed)
            => Decoded(<<m.from, r>>, m) = m.plain

\* A receiver hands over a message only as what its sender said, and only as
\* that sender's; with origin authentication, only if it was named.
AcceptedIsGenuine ==
    \A m \in network : \A x \in HandlesFor(m.level) :
        LET text == Decoded(x, m) IN
        text # Nil =>
            /\ x[1] = m.from /\ text = m.plain
            /\ m.level # "payload" /\ m.macs # {} => x[2] \in m.addressed

\* A protected submessage reaches an entity that is matched with its sender,
\* as what it is, and finds one if some entity has the sender's key.
Routed ==
    \A m \in {o \in network : o.level \in {"writer", "reader"}} : \A p \in Participants :
        LET to == preprocess_secure_submsg(p, Home[m.from], m) IN
        /\ \A o \in to : /\ o.level = m.level /\ o.sender = m.from
                         /\ o.receiver \in Peers(m.from) /\ Home[o.receiver] = p
        /\ (\E x \in Known : x[1] = m.from /\ Home[x[2]] = p) => to # {}

\* write() sends the content the sample had when it was called, although the
\* bytes are read through a pointer only when the payload is encrypted.
SentAsWritten ==
    \A m \in network :
        m.level = "payload" /\ m.from \in Thunked /\ m.first =>
            m.plain = [j \in 1..Pieces |-> <<m.from, m.version, j>>]

\* The room added to a plain buffer is always enough.
NothingRefused == refused = {}

\* "Control traffic stays plaintext": an authenticated-only message shows what
\* it says.
ControlStaysPlain ==
    \A m \in network :
        m.level # "payload" /\ ~Encrypts(m.kind) =>
            \A j \in DOMAIN m.body : m.body[j] = Raw(m.plain[j])
=============================================================================
