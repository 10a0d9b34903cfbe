------------------------------ MODULE HdrMetadata ------------------------------
(***************************************************************************)
(* The HDR10 static metadata of a file, from the first decoded frame       *)
(* through the event queue to the swap chain (ffi/ffmpeg.rs, render/hdr.rs,*)
(* app/session.rs, ffi/dxgi.rs). The worker reports it once for a file;    *)
(* the session drops an event of a superseded operation; a chain keeps     *)
(* what it was last given. Workers that were replaced go on until they     *)
(* notice. A value is "valid", or "bad" when a denominator is zero, and a  *)
(* field of the converted record is "real" or "unknown", which is zero.    *)
(***************************************************************************)
EXTENDS Integers, Sequences

CONSTANTS
    MaxOpens,  \* bound: files opened
    MaxSeeks   \* bound: seeks in all

ASSUME HdrConstants == MaxOpens \in Nat /\ MaxSeeks \in Nat

VARIABLES
    files,    \* the files opened so far: path and side data
    op,       \* the current operation: open and seek generation
    workers,  \* of each open: the run's operation, what it knows, whether it reported
    events,   \* from the workers, in order
    chain     \* kind, the metadata last set and the open it came from

hdrVars == <<files, op, workers, events, chain>>

\* Side data of a first frame; of "bad" primaries the red one is valid, another is not.
SideData == [primaries : {"absent", "valid", "bad"}, luminance : {"absent", "valid", "bad"},
             light : {"absent", "zero", "valid"}]
NoSideData == [primaries |-> "absent", luminance |-> "absent", light |-> "absent"]
HdrPaths == {"sdr", "hdr10"}
Fields == {"red", "green", "luminance", "light"}
NoMetadata == [f \in Fields |-> "none"]
Unset == [of |-> 0, metadata |-> NoMetadata]
Current == Len(files)

-----------------------------------------------------------------------------
(* build_dxgi_hdr10_metadata.                                               *)

Field(valid) == IF valid THEN "real" ELSE "unknown"

\* All the primaries or none, both luminances or none, a content light of zero is none;
\* no record at all when nothing is known.
Build(data) ==
    LET fields == [red |-> Field(data.primaries = "valid"),
                   green |-> Field(data.primaries = "valid"),
                   luminance |-> Field(data.luminance = "valid"),
                   light |-> Field(data.light = "valid")]
    IN IF \E f \in DOMAIN fields : fields[f] = "real" THEN fields ELSE NoMetadata

-----------------------------------------------------------------------------
HdrInit ==
    /\ files = <<>> /\ op = [open |-> 0, seek |-> 0] /\ workers = <<>> /\ events = <<>>
    /\ chain = [kind |-> "sdr", set |-> Unset]

\* A file is opened: its own worker, beside those before it.
HdrOpen ==
    /\ Current < MaxOpens
    /\ \E path \in HdrPaths, data \in SideData :
           /\ path = "sdr" => data = NoSideData
           /\ files' = Append(files, [path |-> path, data |-> data])
    /\ op' = [op EXCEPT !.open = @ + 1]
    /\ workers' = Append(workers, [state |-> "opening", op |-> op', known |-> FALSE,
                                   reported |-> FALSE])
    /\ UNCHANGED <<events, chain>>

Post(w, kind) == events' = Append(events, [kind |-> kind, op |-> workers[w].op, from |-> w])

\* DecodeSession::open announces the path, once.
WorkerOpens(w) ==
    /\ workers[w].state = "opening"
    /\ workers' = [workers EXCEPT ![w].state = "decoding"] /\ Post(w, "path")
    /\ UNCHANGED <<files, op, chain>>

\* receive_video_frames: the first frame that was not cancelled is looked into, on the
\* path to the HDR chain only.
WorkerInspects(w) ==
    /\ workers[w].state = "decoding" /\ ~workers[w].known /\ files[w].path = "hdr10"
    /\ workers' = [workers EXCEPT ![w].known = TRUE]
    /\ UNCHANGED <<files, op, events, chain>>

\* run_to_eof: handed over once, when there is something, under the run's own operation.
WorkerReports(w) ==
    /\ workers[w].known /\ ~workers[w].reported
    /\ workers' = [workers EXCEPT ![w].reported = TRUE]
    /\ IF files[w].data # NoSideData THEN Post(w, "metadata") ELSE UNCHANGED events
    /\ UNCHANGED <<files, op, chain>>

\* The user seeks in the file that plays.
HdrSeek ==
    /\ Current > 0 /\ op.seek < MaxSeeks /\ workers[Current].state = "decoding"
    /\ op' = [op EXCEPT !.seek = @ + 1]
    /\ UNCHANGED <<files, workers, events, chain>>

\* The worker takes the seek up: the decoder, what it knows and has reported stay.
WorkerSeeks(w) ==
    /\ w = Current /\ workers[w].state = "decoding" /\ workers[w].op # op
    /\ workers' = [workers EXCEPT ![w].op = op]
    /\ UNCHANGED <<files, op, events, chain>>

\* Mutant of IsCurrent: any operation will do.
IsCurrentAny(event) == TRUE
IsCurrent(event) == event.op = op

\* ensure_swapchain_for_path: a chain of the other kind is a new one, one of this kind stays.
SelectPath(event) ==
    /\ event.kind = "path" /\ IsCurrent(event)
    /\ chain' = IF chain.kind = files[event.from].path THEN chain
                ELSE [kind |-> files[event.from].path, set |-> Unset]

\* Mutant of Apply: the kind of the chain is not asked.
ApplyAnywhere(w) ==
    IF Build(files[w].data) = NoMetadata THEN chain
    ELSE [chain EXCEPT !.set = [of |-> w, metadata |-> Build(files[w].data)]]

\* apply_hdr10_metadata: refused by the SDR chain; nothing convertible sets nothing.
Apply(w) ==
    IF chain.kind = "sdr" \/ Build(files[w].data) = NoMetadata THEN chain
    ELSE [chain EXCEPT !.set = [of |-> w, metadata |-> Build(files[w].data)]]

KnowMetadata(event) ==
    /\ event.kind = "metadata" /\ IsCurrent(event) /\ chain' = Apply(event.from)

DropStale(event) == ~IsCurrent(event) /\ UNCHANGED chain

Drain ==
    /\ events # <<>> /\ events' = Tail(events)
    /\ LET event == Head(events) IN SelectPath(event) \/ KnowMetadata(event) \/ DropStale(event)
    /\ UNCHANGED <<files, op, workers>>

\* A failed resize or a lost device builds the chain anew, of the same kind.
Rebuild ==
    /\ chain' = [chain EXCEPT !.set = Unset] /\ chain.set # Unset
    /\ UNCHANGED <<files, op, workers, events>>

HdrNext ==
    \/ HdrOpen \/ HdrSeek \/ Drain \/ Rebuild
    \/ \E w \in 1 .. Len(workers) :
        WorkerOpens(w) \/ WorkerInspects(w) \/ WorkerReports(w) \/ WorkerSeeks(w)

HdrSpec == HdrInit /\ [][HdrNext]_hdrVars

-----------------------------------------------------------------------------
(* Properties.                                                              *)

HdrTypeOK ==
    /\ files \in Seq([path : HdrPaths, data : SideData]) /\ Len(files) <= MaxOpens
    /\ op \in [open : 0 .. MaxOpens, seek : 0 .. MaxSeeks]
    /\ Len(workers) = Len(files)
    /\ chain.kind \in HdrPaths /\ chain.set.of \in 0 .. MaxOpens
    /\ chain.set.metadata \in {NoMetadata} \cup [Fields -> {"real", "unknown"}]

\* The SDR chain is never told of HDR, whatever is still in the queue when the kind changes
\* (dxgi.rs:1125-1127).
NeverOnSdr == chain.kind = "sdr" => chain.set = Unset

\* Primaries are never a mixture of real and zero coordinates, and what is set says
\* something (hdr.rs:686-687, 667-669).
NeverMixed ==
    chain.set.metadata # NoMetadata =>
        /\ chain.set.metadata.red = chain.set.metadata.green
        /\ \E f \in Fields : chain.set.metadata[f] = "real"

\* A chain is told what is true of its kind, and nothing by halves.
MetadataFits ==
    /\ HdrTypeOK
    /\ NeverOnSdr
    /\ NeverMixed

\* The metadata of a file is not replaced by that of one opened before it: a replaced
\* worker's report finds a later operation (session.rs:1137).
NeverAnEarlierFile == [][chain'.set.of # 0 => chain'.set.of >= chain.set.of]_hdrVars

\* Once the path of the current file was taken and its queue is empty, what a chain for
\* HDR carries is of the file that plays. "HDR10 static metadata (mastering display,
\* MaxCLL/MaxFALL) is read from the stream and handed to the display pipeline"
\* (release-notes-v0.4.3.md:12-13)
OfThisFile ==
    events = <<>> /\ Current > 0 /\ workers[Current].reported => chain.set.of \in {0, Current}

\* "HDR10 static metadata passed to the display" (README.md:78)
ReachesDisplay ==
    events = <<>> /\ Current > 0 /\ workers[Current].reported /\ chain.kind = "hdr10"
            /\ Build(files[Current].data) # NoMetadata
        => chain.set.metadata = Build(files[Current].data)
=============================================================================
