----------------------------- MODULE NoiseStream -----------------------------
(***************************************************************************)
(* The encrypted stream (transport/noise_stream.rs): the two-message       *)
(* handshake of the KK pattern, then records.  Records go from `snd` to    *)
(* `rcv`; the other direction is the same state machine on state of its    *)
(* own.  Either end may be the initiator.                                  *)
(*                                                                         *)
(* A unit of the wire is one byte: <<record, position, length, base>>,     *)
(* where the record's payload is the bytes base + 1 .. of the stream.      *)
(* Encryption appears as what it promises: the reader's n-th record        *)
(* decrypts exactly when it is given the n-th record whole.                *)
(***************************************************************************)
EXTENDS Integers, Sequences, FiniteSets, FiniteSetsExt

CONSTANTS
    MaxMessage,  \* MAX_MESSAGE_LEN: ciphertext of one record
    PipeCap,     \* bytes the connection below holds
    MaxWritten,  \* bound: payload bytes written
    MaxRecords   \* bound: records, the empty ones included

LengthField == 2
TagLen == 1
MaxFrame == LengthField + MaxMessage

ASSUME NoiseConstants ==
    /\ {MaxMessage, PipeCap, MaxWritten, MaxRecords} \subseteq Nat
    /\ MaxMessage > TagLen /\ PipeCap > 0

VARIABLES
    first,     \* the initiator
    keys,      \* the static keys of the two ends match
    stage,     \* end -> "hs", "open", "failed"
    sent, took, \* handshake messages written and read
    link,      \* end -> bytes it wrote that the other has not read
    fin,       \* ends that closed
    w,         \* WriteState: the record being written, or NoWrite
    records,   \* records encrypted
    accepted,  \* payload bytes poll_write returned Ready for
    r,         \* ReadState: "record", "serve", "eof", or "error"
    scratch,   \* scratch[0 .. read_filled)
    start,     \* read_start
    expected,  \* read_expected
    payload,   \* bytes decrypted and not served
    opened,    \* records decrypted
    got        \* bytes the reader's caller has

handshakeVars == <<first, keys, stage, sent, took>>
writeVars == <<w, records, accepted>>
readVars == <<r, scratch, start, expected, payload, opened, got>>
noiseVars == <<handshakeVars, link, fin, writeVars, readVars>>

Ends == {"snd", "rcv"}
Peer(e) == IF e = "snd" THEN "rcv" ELSE "snd"
HsUnit == <<0, 0, 0, 0>>
NoWrite == [rec |-> 0, off |-> 0, len |-> 0, base |-> 0]
Bytes(base, n) == [i \in 1..n |-> base + i]

\* Who initiates, and whether each end was given the key of the other.
KeysInit == first \in Ends /\ keys \in BOOLEAN
WriteInit == w = NoWrite /\ records = 0 /\ accepted = 0
ReadInit ==
    /\ r = "record" /\ scratch = <<>> /\ start = 0 /\ expected = 0
    /\ payload = <<>> /\ opened = 0 /\ got = <<>>

NoiseInit ==
    /\ KeysInit /\ stage = [e \in Ends |-> "hs"] /\ sent = 0 /\ took = 0
    /\ link = [e \in Ends |-> <<>>] /\ fin = {}
    /\ WriteInit /\ ReadInit

-----------------------------------------------------------------------------
(* The handshake. *)

Turn == IF sent = 0 THEN first ELSE Peer(first)
Author == IF sent = 1 THEN first ELSE Peer(first)
HsFails(e) == /\ stage' = [stage EXCEPT ![e] = "failed"]
              /\ fin' = fin \cup {e}

HsWrite ==
    /\ sent = took /\ sent < 2 /\ stage[Turn] = "hs"
    /\ link' = [link EXCEPT ![Turn] = Append(@, HsUnit)]
    /\ sent' = sent + 1
    /\ stage' = [stage EXCEPT ![Turn] = IF sent' = 2 THEN "open" ELSE @]
    /\ UNCHANGED <<first, keys, took, fin, writeVars, readVars>>

HsRead ==
    LET e == Peer(Author) IN
    /\ took < sent /\ stage[e] = "hs" /\ link[Author] # <<>>
    /\ link' = [link EXCEPT ![Author] = Tail(@)]
    /\ took' = took + 1
    /\ IF keys
       THEN /\ stage' = [stage EXCEPT ![e] = IF took' = 2 THEN "open" ELSE @]
            /\ UNCHANGED fin
       ELSE HsFails(e)
    /\ UNCHANGED <<first, keys, sent, writeVars, readVars>>

\* The caller's HANDSHAKE_TIMEOUT, or the other end gone, drops the stream.
HsDropped(e) ==
    /\ stage[e] = "hs"
    /\ HsFails(e)
    /\ UNCHANGED <<first, keys, sent, took, link, writeVars, readVars>>

-----------------------------------------------------------------------------
(* Writing. *)

\* poll_write with WriteState::Idle: one record of what fits, kept by the
\* stream until all of it is below.
PayloadLenWhole(n) == n
PayloadLen(n) == Min({n, MaxMessage - TagLen})
Encrypt(n) ==
    /\ stage["snd"] = "open" /\ "snd" \notin fin /\ w = NoWrite
    /\ records < MaxRecords /\ accepted + PayloadLen(n) <= MaxWritten
    /\ records' = records + 1
    /\ w' = [rec |-> records + 1, off |-> 0, len |-> LengthField + PayloadLen(n) + TagLen, base |-> accepted]
    /\ UNCHANGED <<handshakeVars, link, fin, accepted, readVars>>

\* Some bytes of the record go below; the last ones complete the write.
NoiseUnits(rec, from, n) == [i \in 1..n |-> <<rec.rec, from + i, rec.len, rec.base>>]
\* Mutant: a write that resumes starts its record again.
ResumedFromStart(n) == IF w.off + n = w.len THEN w.len ELSE n
Resumed(n) == w.off + n
Push(n) ==
    /\ w # NoWrite /\ "snd" \notin fin
    /\ n <= Min({w.len - w.off, PipeCap - Len(link["snd"])})
    /\ link' = [link EXCEPT !["snd"] = @ \o NoiseUnits(w, w.off, n)]
    /\ IF Resumed(n) = w.len
       THEN w' = NoWrite /\ accepted' = accepted + (w.len - LengthField - TagLen)
       ELSE w' = [w EXCEPT !.off = Resumed(n)] /\ UNCHANGED accepted
    /\ UNCHANGED <<handshakeVars, fin, records, readVars>>

\* poll_shutdown: a record half written stays half written.
Shutdown ==
    /\ stage["snd"] = "open" /\ "snd" \notin fin
    /\ fin' = fin \cup {"snd"}
    /\ w' = NoWrite
    /\ UNCHANGED <<handshakeVars, link, records, accepted, readVars>>

-----------------------------------------------------------------------------
(* Reading: one iteration of poll_read's loop, with `room` bytes left in   *)
(* the caller's buffer.                                                    *)

Reading == stage["rcv"] = "open" /\ r = "record"
Unserved == SubSeq(scratch, start + 1, Len(scratch))
Declared == IF expected = 0 /\ Len(Unserved) >= LengthField THEN Unserved[1][3] ELSE expected
\* Mutant: a record that ends the buffer is not seen as whole.
WholeAndMore == Declared # 0 /\ Len(Unserved) > Declared
Whole == Declared # 0 /\ Len(Unserved) >= Declared
Record == SubSeq(Unserved, 1, Declared)
Decrypts == /\ Record[1][3] = Declared
            /\ \A i \in 1..Declared : Record[i][1] = opened + 1 /\ Record[i][2] = i

Decode(room) ==
    /\ Reading /\ Whole
    /\ start' = start + Declared /\ expected' = 0
    /\ LET n == Declared - LengthField - TagLen
           plain == Bytes(Record[1][4], n) IN
       IF ~Decrypts THEN r' = "error" /\ UNCHANGED <<payload, opened, got>>
       ELSE /\ opened' = opened + 1
            /\ IF n > 0 /\ room >= n
               THEN got' = got \o plain /\ UNCHANGED <<r, payload>>
               ELSE /\ payload' = plain
                    /\ r' = IF n > 0 THEN "serve" ELSE "record"
                    /\ UNCHANGED got
    /\ UNCHANGED <<handshakeVars, link, fin, writeVars, scratch>>

Serve(room) ==
    /\ r = "serve"
    /\ LET n == Min({room, Len(payload)}) IN
       /\ got' = got \o SubSeq(payload, 1, n)
       /\ payload' = SubSeq(payload, n + 1, Len(payload))
       /\ r' = IF n = Len(payload) THEN "record" ELSE "serve"
    /\ UNCHANGED <<handshakeVars, link, fin, writeVars, scratch, start, expected, opened>>

\* The scratch buffer as the read below finds it: emptied when all of it
\* was used, moved to the front when it is full.
CompactedNever == IF Len(scratch) = start THEN Unserved ELSE scratch
Compacted == IF Len(scratch) = start \/ Len(scratch) = MaxFrame THEN Unserved ELSE scratch
Offset == IF Compacted = scratch THEN start ELSE 0

Fill(n) ==
    /\ Reading /\ ~Whole
    /\ n <= Min({Len(link["snd"]), MaxFrame - Len(Compacted)})
    /\ scratch' = Compacted \o SubSeq(link["snd"], 1, n)
    /\ start' = Offset /\ expected' = Declared
    /\ link' = [link EXCEPT !["snd"] = SubSeq(@, n + 1, Len(@))]
    /\ UNCHANGED <<handshakeVars, fin, writeVars, r, payload, opened, got>>

\* A read of no bytes is the end of the stream.
AtEnd == (link["snd"] = <<>> /\ "snd" \in fin) \/ MaxFrame = Len(Compacted)
FillEnds ==
    /\ Reading /\ ~Whole /\ AtEnd
    /\ r' = "eof" /\ scratch' = Compacted /\ start' = Offset /\ expected' = Declared
    /\ UNCHANGED <<handshakeVars, link, fin, writeVars, payload, opened, got>>

Sizes == 1..MaxMessage
NoiseReads == \/ \E n \in 1..MaxFrame : Fill(n)
              \/ FillEnds
              \/ \E room \in Sizes : Decode(room) \/ Serve(room)
NoiseNext ==
    \/ HsWrite \/ HsRead \/ \E e \in Ends : HsDropped(e)
    \/ \E n \in 0..MaxMessage : Encrypt(n)
    \/ \E n \in 1..MaxFrame : Push(n)
    \/ Shutdown
    \/ NoiseReads

-----------------------------------------------------------------------------
(* Properties. *)

\* Every variable keeps its shape; the scratch buffer never outgrows one
\* frame and read_start never passes read_filled.
NoiseTypeOK ==
    /\ stage \in [Ends -> {"hs", "open", "failed"}] /\ fin \subseteq Ends
    /\ took <= sent /\ sent <= 2
    /\ accepted <= MaxWritten /\ records <= MaxRecords
    /\ w.off <= w.len /\ w.len <= MaxFrame
    /\ r \in {"record", "serve", "eof", "error"}
    /\ Len(scratch) <= MaxFrame /\ start <= Len(scratch)
    /\ (r = "serve") = (payload # <<>>)
    /\ expected = 0 \/ expected > LengthField

\* However the record's bytes are cut on the way - a write that stops half
\* way and resumes, reads that end in a header, a buffer full of the next
\* record's start - every record decrypts and the bytes arrive once, in
\* order.
StreamIntact ==
    /\ r # "error"
    /\ got \o payload = Bytes(0, Len(got) + Len(payload))

\* The reader is told the stream ended only when the writer closed it, and
\* then it has every byte the writer was told was taken.
EndIsReal ==
    r = "eof" => "snd" \in fin /\ Len(got) = accepted

NoisePushes == \E n \in 1..MaxFrame : Push(n)

\* Under a reader that keeps reading and a writer that keeps pushing, a
\* byte the writer was told was taken reaches the other end's caller.
TakenArrives ==
    []<>(stage["rcv"] = "open" => Len(got) = accepted)

NoiseSpec ==
    NoiseInit /\ [][NoiseNext]_noiseVars /\ WF_noiseVars(NoiseReads) /\ WF_noiseVars(NoisePushes)

\* The safety of the stream: types, the writer's bytes and no others, and no
\* false end.
NoiseSafe == NoiseTypeOK /\ StreamIntact /\ EndIsReal
=============================================================================
