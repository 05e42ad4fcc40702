--------------------------- MODULE SecureChannel ---------------------------
(***************************************************************************)
(* What the data-sharing module promises, without keys, cells or threads:  *)
(* a chunk is a register.  A writer seals samples one after another; a     *)
(* read, which takes a while, returns one of the samples that were the     *)
(* last sealed one at some instant of the read, or zeros.  It never        *)
(* returns anything else: no mixture of two samples, no sample that was    *)
(* never sealed, and none that had been superseded when the read began.    *)
(***************************************************************************)
EXTENDS Naturals, Sequences

CONSTANTS
  Writers, Readers,
  Samples,  \* the contents a sample may have
  MaxLen,   \* the blocks of the longest one
  Zero,     \* a block of zeros
  Nil       \* no writer

VARIABLES
  content,     \* per writer: the contents of the samples it has begun, in order
  lastSealed,  \* per writer: number of its last sealed sample, 0 before the first
  reading,     \* per reader: the writer it is reading from, or Nil
  window,      \* per reader: the samples that were last sealed during this read
  sample       \* per reader: what its read returned, while the application looks at it

cvars == <<content, lastSealed, reading, window, sample>>

Init ==
  /\ content = [w \in Writers |-> << >>]
  /\ lastSealed = [w \in Writers |-> 0]
  /\ reading = [r \in Readers |-> Nil]
  /\ window = [r \in Readers |-> {}]
  /\ sample = [r \in Readers |-> << >>]

\* A writer begins its next sample; nothing is promised about it yet.
Begin(w) ==
  /\ \E d \in Samples : content' = [content EXCEPT ![w] = Append(@, d)]
  /\ UNCHANGED <<lastSealed, reading, window, sample>>

\* The sample begun last is sealed, and every read under way may return it.
Seal(w) ==
  /\ lastSealed[w] < Len(content[w])
  /\ lastSealed' = [lastSealed EXCEPT ![w] = Len(content[w])]
  /\ window' = [r \in Readers |->
       IF reading[r] = w THEN window[r] \cup {Len(content[w])} ELSE window[r]]
  /\ UNCHANGED <<content, reading, sample>>

StartRead(r, w) ==
  /\ reading[r] = Nil
  /\ reading' = [reading EXCEPT ![r] = w]
  /\ window' = [window EXCEPT ![r] = {lastSealed[w]}]
  /\ UNCHANGED <<content, lastSealed, sample>>

\* What the read under way may return (zeros of length 0 are the empty sample).
Returnable(r) ==
  {[i \in 1..n |-> Zero] : n \in 0..MaxLen}
    \cup {content[reading[r]][f] : f \in window[r] \ {0}}

EndRead(r) ==
  /\ reading[r] # Nil
  /\ \E d \in Returnable(r) : sample' = [sample EXCEPT ![r] = d]
  /\ reading' = [reading EXCEPT ![r] = Nil]
  /\ window' = [window EXCEPT ![r] = {}]
  /\ UNCHANGED <<content, lastSealed>>

\* The application is done with it.
Forget(r) ==
  /\ sample' = [sample EXCEPT ![r] = << >>]
  /\ UNCHANGED <<content, lastSealed, reading, window>>

Next ==
  \/ \E w \in Writers : Begin(w) \/ Seal(w)
  \/ \E r \in Readers : (\E w \in Writers : StartRead(r, w)) \/ EndRead(r) \/ Forget(r)

Spec == Init /\ [][Next]_cvars
=============================================================================
