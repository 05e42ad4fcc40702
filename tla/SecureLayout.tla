---------------------------- MODULE SecureLayout ----------------------------
(***************************************************************************)
(* Where AESGCMGMAC_Transform.cpp puts the parts of a protected payload,   *)
(* submessage or RTPS message, and where its decoders look for them.       *)
(* Positions count bytes from the beginning of the output buffer.  The     *)
(* encoders never write down how long an authenticated-only body is, and   *)
(* the padding before the length of the tag's list is left to Fast CDR, so *)
(* a decoder has to arrive at the tag by arithmetic of its own.            *)
(***************************************************************************)
EXTENDS Integers, Sequences

TransformationKinds == {"aes128_gcm", "aes256_gcm", "aes128_gmac", "aes256_gmac"}

\* do_encryption and use_256_bits of the body routines.
Encrypts(kind) == kind \in {"aes128_gcm", "aes256_gcm"}
KeyLength(kind) == IF kind \in {"aes256_gcm", "aes256_gmac"} THEN 32 ELSE 16

\* Cdr::alignment: the next position that is a multiple of four.
Aligned(x) == 4 * ((x + 3) \div 4)

\* The 16-bit length fields of submessage headers.
Short(x) == x % 65536

-----------------------------------------------------------------------------
(* Encoding.                                                               *)

\* Kind, key id, session id and the suffix of the IV.
HeaderLength == 20

\* id, flags and length of SEC_PREFIX, SEC_BODY, SEC_POSTFIX and the like.
PrefixLength == 4

\* What stands before an encrypted body: its length, and in a submessage
\* the SEC_BODY header.
BodyPrefix(kind, submessage) ==
    IF ~Encrypts(kind) THEN 0 ELSE IF submessage THEN 8 ELSE 4

\* Where a body of n bytes that starts at "at" ends.
BodyEnd(kind, at, n, submessage) ==
    LET end == at + BodyPrefix(kind, submessage) + n
    IN  IF submessage THEN Aligned(end) ELSE end

\* The room checks of serialize_SecureDataBody: the cipher asks for a byte
\* more than it writes, the copy for what it copies.
BodyFits(kind, at, n, submessage, size) ==
    /\ size - at - BodyPrefix(kind, submessage) >= IF Encrypts(kind) THEN n + 1 ELSE n
    /\ BodyEnd(kind, at, n, submessage) <= size

\* The common MAC, the aligned length of the list, and 20 bytes per receiver.
TagEnd(at, receivers) == Aligned(at + 16) + 4 + 20 * receivers

PayloadTagAt(kind, n) == BodyEnd(kind, HeaderLength, n, FALSE)
PayloadEnd(kind, n) == TagEnd(PayloadTagAt(kind, n), 0)
PayloadFits(kind, n, size) ==
    /\ BodyFits(kind, HeaderLength, n, FALSE, size)
    /\ PayloadEnd(kind, n) <= size

\* Submessages and RTPS messages: prefix, header, body, postfix, tag.
BodyAt == PrefixLength + HeaderLength
PostfixAt(kind, n) == BodyEnd(kind, BodyAt, n, TRUE)
MessageEnd(kind, n, receivers) == TagEnd(PostfixAt(kind, n) + PrefixLength, receivers)
MessageFits(kind, n, receivers, size) ==
    /\ BodyFits(kind, BodyAt, n, TRUE, size)
    /\ MessageEnd(kind, n, receivers) <= size

\* The length in the header of SEC_BODY: content and its own length field.
SecBodyLength(n) == Short(Aligned(Short(n + 4)))

-----------------------------------------------------------------------------
(* The room the middleware is told to add to a plain buffer.               *)

\* Mutant: the list of receivers is forgotten.
ExtraFixedOnly(fixed, discovered) == fixed

Extra(fixed, discovered) ==
    fixed + IF discovered > 10 THEN 20 * discovered ELSE 200

calculate_extra_size_for_rtps_message(discovered) ==
    Extra(PrefixLength + HeaderLength + 7 + 16 + PrefixLength + 16, discovered)
calculate_extra_size_for_rtps_submessage(discovered) ==
    Extra(PrefixLength + HeaderLength + 7 + 16 + PrefixLength + 16, discovered)
calculate_extra_size_for_encoded_payload(discovered) ==
    Extra(HeaderLength + 7 + 16 + 16, discovered)

-----------------------------------------------------------------------------
(* Decoding.  A plain RTPS message is a sequence of submessages, given by  *)
(* the lengths in their headers; every one starts at a multiple of four.   *)

\* How long the plain text is up to the end of its i-th submessage.
PlainLength(subs) ==
    LET upTo[i \in 0..Len(subs)] ==
            IF i = 0 THEN 0 ELSE Aligned(upTo[i - 1]) + PrefixLength + subs[i]
    IN  upTo[Len(subs)]

\* decode_serialized_payload: an encrypted body says how long it is; a plain
\* one is taken to be what the header and 20 bytes of tag leave over.
PayloadBodyFound(kind, n, length) ==
    IF Encrypts(kind) THEN n ELSE length - HeaderLength - (4 + 16)

PayloadTagFound(kind, n, length) ==
    HeaderLength + BodyPrefix(kind, FALSE) + PayloadBodyFound(kind, n, length)

\* predeserialize_SecureDataBody on an encrypted body: the length of SEC_BODY
\* and where the tag's submessage is looked for behind it.
SecBodyFound(n) == SecBodyLength(n)
PostfixFound(n) == Aligned(BodyAt + PrefixLength + SecBodyFound(n))

\* The same on a body that is not encrypted: the first submessage's header is
\* taken for it.  decode_rtps_message then walks on, submessage by submessage.
WalkFrom(first, subs) ==
    LET length[i \in 1..Len(subs)] ==
            IF i = 1 THEN first
            ELSE Aligned(length[i - 1]) + PrefixLength + subs[i]
    IN  length[Len(subs)]

\* Mutant: the padding between two submessages is not added up.
PlainBodyFoundTight(subs) ==
    LET length[i \in 1..Len(subs)] ==
            IF i = 1 THEN subs[1] ELSE length[i - 1] + PrefixLength + subs[i]
    IN  length[Len(subs)] + PrefixLength

PlainBodyFound(subs) == WalkFrom(subs[1], subs) + PrefixLength

\* Whether the decoder reads the very body and the very tag.
PayloadFound(kind, n) ==
    /\ PayloadBodyFound(kind, n, PayloadEnd(kind, n)) = n
    /\ PayloadTagFound(kind, n, PayloadEnd(kind, n)) = PayloadTagAt(kind, n)

MessageFound(kind, subs) ==
    LET n == PlainLength(subs) IN
    IF Encrypts(kind)
    THEN PostfixFound(n) = PostfixAt(kind, n)
    ELSE /\ PlainBodyFound(subs) = n
         /\ Aligned(BodyAt + PlainBodyFound(subs)) = PostfixAt(kind, n)
=============================================================================
