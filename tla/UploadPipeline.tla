--------------------------- MODULE UploadPipeline ---------------------------
(***************************************************************************)
(* infra/storage/storagehttp: one multipart upload.  Parts that are not the*)
(* file are skipped within a budget; the file part goes through a chain of *)
(* validators, each of which reads from the stream and returns the stream  *)
(* for the next one: MaxFileSize cuts it, AllowedMIMETypes and             *)
(* ImageDimensions read a header and put it back, the uploadsec adapter    *)
(* spools it to a temporary file, validates and replays that.  What comes  *)
(* out is stored.  A stream is the sequence of the units it will yield.    *)
(***************************************************************************)
EXTENDS Integers, Sequences, SequencesExt

CONSTANTS MaxBody,       \* bound on the size of the file, in units
          MaxChain,      \* bound on the number of validators
          SizeLimit,     \* MaxFileSize
          SniffSize,     \* how much a header validator reads
          SpoolLimit,    \* maxSpoolBytes
          SkipLimit,     \* MaxTotalSkippedBytes
          PartLimit      \* maxPartDiscard

ASSUME UploadAssumption ==
    {MaxBody, MaxChain, SizeLimit, SniffSize, SpoolLimit, SkipLimit, PartLimit} \subseteq Nat

VARIABLES
    sent,      \* the file as the client sends it
    validators,     \* the validators still to run
    stream,    \* the reader: its units, whether it then fails, and whom it closes
    spools,    \* the temporary files: "open", "closed" (still on disk), "removed"
    skippedB,  \* bytes of skipped parts
    outcome,   \* "parts", "running", "stored", "refused"
    object     \* what the backend stored

uploadState == <<sent, validators, stream, spools, skippedB, outcome, object>>
uploadVars == uploadState

ValidatorKinds == {"size", "sniff", "image", "spool"}
NoCloser == 0
NothingStoredYet == <<>>
Units(n) == [i \in 1..n |-> i]
StreamOf(u, c) == [units |-> u, fails |-> FALSE, closes |-> c]

UploadInit ==
    /\ \E n \in 0..MaxBody : sent = Units(n)
    /\ validators \in BoundedSeq(ValidatorKinds, MaxChain)
    /\ stream = StreamOf(<<>>, NoCloser) /\ spools = <<>> /\ skippedB = 0
    /\ outcome = "parts" /\ object = NothingStoredYet

\* A part that is not the file: read up to the smaller of its own limit and the
\* rest of the budget, and one unit more to see that it is too large.
SkipPart ==
    /\ outcome = "parts"
    /\ \E size \in 0..(PartLimit + 1) :
         LET limit == IF PartLimit > SkipLimit - skippedB THEN SkipLimit - skippedB ELSE PartLimit
         IN  IF skippedB >= SkipLimit THEN outcome' = "refused" /\ UNCHANGED skippedB
             ELSE /\ size > 0 /\ skippedB' = skippedB + (IF size > limit THEN limit + 1 ELSE size)
                  /\ outcome' = IF size > limit THEN "refused" ELSE "parts"
    /\ UNCHANGED <<sent, validators, stream, spools, object>>

\* storePart: the file part is the first stream.
FilePart ==
    /\ outcome = "parts" /\ outcome' = "running" /\ stream' = StreamOf(sent, NoCloser)
    /\ UNCHANGED <<sent, validators, spools, skippedB, object>>

\* Closing a reader closes the spool it owns; the file stays on disk.
Closed(s) == [i \in DOMAIN spools |-> IF i = s.closes /\ spools[i] = "open" THEN "closed" ELSE spools[i]]

\* ApplyValidators closes the reader that a validator refused.
Refuse == outcome' = "refused" /\ spools' = Closed(stream) /\ UNCHANGED stream

Next1(kind) == Len(validators) > 0 /\ Head(validators) = kind /\ outcome = "running" /\ validators' = Tail(validators)

\* MaxFileSize: the stream fails after SizeLimit units; the new reader closes
\* nothing.
LimitSize ==
    /\ Next1("size")
    /\ stream' = [units |-> SubSeq(stream.units, 1, IF Len(stream.units) > SizeLimit THEN SizeLimit ELSE Len(stream.units)),
                  fails |-> stream.fails \/ Len(stream.units) > SizeLimit, closes |-> NoCloser]
    /\ UNCHANGED <<sent, spools, skippedB, outcome, object>>

\* Fault model of Prepended: the header that was read is not put back.
PrependNothing(n) == [stream EXCEPT !.units = SubSeq(@, n + 1, Len(@))]

\* prependReader: the header and then the rest, with the closer of the rest.
Prepended(n) == [stream EXCEPT !.units = SubSeq(@, 1, n) \o SubSeq(@, n + 1, Len(@))]

\* AllowedMIMETypes and ImageDimensions: a stream that fails within the header
\* is refused, and so is a file they do not like.
ReadHeader ==
    /\ Next1("sniff") \/ Next1("image")
    /\ LET n == IF Len(stream.units) > SniffSize THEN SniffSize ELSE Len(stream.units)
       IN  \/ Refuse
           \/ /\ ~(stream.fails /\ Len(stream.units) < SniffSize)
              /\ stream' = Prepended(n) /\ UNCHANGED <<spools, outcome>>
    /\ UNCHANGED <<sent, skippedB, object>>

\* Fault model of Replayed: the spool is replayed from where validation left it.
ReplayedFrom(p) == SubSeq(stream.units, p + 1, Len(stream.units))

\* The spool is rewound, wherever validation left it.
Replayed(p) == stream.units

\* Fault model of SpoolFits: a stream as long as the limit is cut, not refused.
SpoolFitsAny == TRUE

SpoolFits == ~stream.fails /\ Len(stream.units) <= SpoolLimit

\* AsStorageValidator: the whole stream is spooled, validated (which reads the
\* spool up to some place p) and replayed; a refused spool is removed.
SpoolAndValidate ==
    /\ Next1("spool")
    /\ \/ /\ outcome' = "refused" /\ spools' = Append(Closed(stream), "removed") /\ UNCHANGED stream
       \/ /\ SpoolFits
          /\ \E p \in 0..Len(stream.units) : stream' = StreamOf(Replayed(p), Len(spools) + 1)
          /\ spools' = Append(spools, "open") /\ UNCHANGED outcome
    /\ UNCHANGED <<sent, skippedB, object>>

\* The backend stores the stream to its end, unless the stream fails; the
\* validated reader is closed afterwards.
StoreFile ==
    /\ outcome = "running" /\ validators = <<>> /\ spools' = Closed(stream)
    /\ \/ ~stream.fails /\ outcome' = "stored" /\ object' = stream.units
       \/ outcome' = "refused" /\ UNCHANGED object
    /\ UNCHANGED <<sent, validators, stream, skippedB>>

UploadNext ==
    \/ SkipPart \/ FilePart \/ LimitSize \/ ReadHeader \/ SpoolAndValidate \/ StoreFile

UploadSpec == UploadInit /\ [][UploadNext]_uploadVars
-----------------------------------------------------------------------------

UploadTypeOK ==
    /\ outcome \in {"parts", "running", "stored", "refused"} /\ stream.closes \in 0..Len(spools)
    /\ \A i \in DOMAIN spools : spools[i] \in {"open", "closed", "removed"}
    /\ skippedB \in 0..(SkipLimit + 1) /\ Len(validators) <= MaxChain

\* What is stored is the file that was sent, whole and in order, whichever
\* validators read from it, rewound it, cut it or replayed it on the way.
StoredIsTheUpload == outcome = "stored" => object = sent

\* "closing the returned reader guarantees those resources are released": when
\* an upload is over, no spool file is left.
SpoolsAreReleased ==
    outcome \in {"stored", "refused"} => \A i \in DOMAIN spools : spools[i] = "removed"
=============================================================================
