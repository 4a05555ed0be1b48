------------------------------ MODULE ChdReader ------------------------------
(***************************************************************************)
(* The CHD reader behind the ROM hashes: opening a track of a disc image   *)
(* and reading sectors of it.                                              *)
(*                                                                         *)
(* A CHD stores a disc as frames, FramesPerHunk to a hunk.  The reader     *)
(* works out from the metadata where a track begins, as a frame of the     *)
(* image and as a sector of the disc, and keeps the last hunk it read.     *)
(* The image is modelled by what each frame holds, laid down here as the   *)
(* tool that writes it does (scripts/chd-reader-test.py, layout), without  *)
(* the reader's counters.                                                  *)
(*                                                                         *)
(* libchdr is external: reading a hunk may fail, and a failed read may     *)
(* have written to the reader's buffer.                                    *)
(***************************************************************************)
EXTENDS Integers, Sequences, SequencesExt

CONSTANTS Discs,         \* discs: sequences of track declarations
          FramesPerHunk, \* hunkbytes / CD_FRAME_SIZE
          Sizes,         \* bytes a caller asks for
          Wanted         \* tracks a caller asks for

\* TYPE strings of the metadata.
Types == {"MODE1", "MODE1_RAW", "MODE2", "MODE2_FORM_MIX", "MODE2_FORM1",
          "MODE2_FORM2", "MODE2_RAW", "AUDIO"}
\* What an entry declares; stored is the "V" of its PGTYPE.
Declaration == [number : Nat, type : Types, frames : Nat, pregap : Nat, stored : BOOLEAN]
\* RAPROXY_MAX_TRACKS, which no disc goes beyond; no two have the same number.
MaxTracks == 99
IsDisc(d) ==
    /\ d \in Seq(Declaration)
    /\ Len(d) \in 1..MaxTracks
    /\ \A j, k \in DOMAIN d : d[j].number = d[k].number => j = k

ASSUME DiscsAssumption == \A d \in Discs : IsDisc(d)
ASSUME HunkAssumption == FramesPerHunk \in Nat \ {0}
ASSUME SizesAssumption == Sizes \subseteq Nat \ {0}
ASSUME WantedAssumption == Wanted \subseteq Int

Padding == 4            \* RAPROXY_CHD_TRACK_PADDING
MaxSectorData == 2352   \* CD_MAX_SECTOR_DATA

-----------------------------------------------------------------------------
(* The track table.                                                        *)

HeaderSize(type) ==
    CASE type = "MODE1_RAW"                     -> 16
      [] type \in {"MODE2", "MODE2_FORM_MIX"}   -> 8
      [] type = "MODE2_RAW"                     -> 24
      [] OTHER                                  -> 0

DataSize(type) ==
    CASE type = "AUDIO"       -> MaxSectorData
      [] type = "MODE2_FORM2" -> 2324
      [] OTHER                -> 2048

IsData(t) == t.type # "AUDIO"

\* Mutant of PadUp: tracks lie end to end.
NoPadding(frame) == frame

\* A track begins at a multiple of Padding.
PadUp(frame) == ((frame + Padding - 1) \div Padding) * Padding

StoredPregap(t) == IF t.stored THEN t.pregap ELSE 0

\* One step of raproxy_read_tracks: the walk carries the next frame of the
\* image and the next sector of the disc.
AddTrack(walk, t) ==
    [tracks |-> Append(walk.tracks,
                  [number |-> t.number, type |-> t.type, frames |-> t.frames,
                   chdStart |-> walk.chdFrame + StoredPregap(t),
                   absStart |-> walk.absSector + t.pregap]),
     chdFrame |-> PadUp(walk.chdFrame + StoredPregap(t) + t.frames),
     absSector |-> walk.absSector + t.pregap + t.frames]

\* The walk, by the number of tracks it has gone past.
Walk(d) ==
    LET walk[k \in 0..Len(d)] ==
            IF k = 0 THEN [tracks |-> <<>>, chdFrame |-> 0, absSector |-> 0]
            ELSE AddTrack(walk[k - 1], d[k])
    IN  walk

ReadTracks(d) == Walk(d)[Len(d)].tracks

\* The tracks that have a name are negative, as in rc_hash.h.
FirstData == -1
LastTrack == -2
Largest == -3
FirstOfSecondSession == -4

\* The first of some tracks, 0 if there is none.
FirstOf(indices) == IF indices = {} THEN 0 ELSE Min(indices)

\* raproxy_select_track.
SelectTrack(tracks, wanted) ==
    LET data == {k \in DOMAIN tracks : IsData(tracks[k])} IN
    CASE wanted = FirstData            -> FirstOf(data)
      [] wanted = LastTrack            -> Len(tracks)
      [] wanted = Largest              ->
           FirstOf({k \in data : \A j \in data : tracks[j].frames <= tracks[k].frames})
      [] wanted = FirstOfSecondSession -> 0
      [] OTHER                         ->
           FirstOf({k \in DOMAIN tracks : tracks[k].number = wanted})

-----------------------------------------------------------------------------
(* The disc and its image, by their contents.                              *)

Repeat(x, n) == [i \in 1..n |-> x]
Body(d, k) == [i \in 1..d[k].frames |-> <<k, i>>]
Silence == <<0, 0>>

\* Sectors of the disc from sector 0 on: pregap and data, track after track.
Sectors(d) ==
    LET laid[k \in 0..Len(d)] ==
            IF k = 0 THEN <<>>
            ELSE laid[k - 1] \o Repeat(Silence, d[k].pregap) \o Body(d, k)
    IN  laid
Programme(d) == Sectors(d)[Len(d)]

\* Frames of the image: a "V" pregap is stored ahead of the data, and the image
\* is filled up to a multiple of Padding behind each track.
Filled(s) == s \o Repeat(Silence, (Padding - (Len(s) % Padding)) % Padding)
Frames(d) ==
    LET laid[k \in 0..Len(d)] ==
            IF k = 0 THEN <<>>
            ELSE Filled(laid[k - 1] \o Repeat(Silence, IF d[k].stored THEN d[k].pregap ELSE 0)
                                    \o Body(d, k))
    IN  laid
Image(d) == Frames(d)[Len(d)]

\* Where a sector's user data lies, by the fields ahead of it: sync, header,
\* subheader.
Sync == 12
Header == 4
SubHeader == 8
UserOffset(type) ==
    CASE type = "MODE1_RAW"                   -> Sync + Header
      [] type = "MODE2_RAW"                   -> Sync + Header + SubHeader
      [] type \in {"MODE2", "MODE2_FORM_MIX"} -> SubHeader
      [] OTHER                                -> 0

-----------------------------------------------------------------------------
(* A handle and its reads.                                                 *)

VARIABLES
    disc,    \* the disc in the image file
    track,   \* the track of the open handle, or NoTrack
    cached,  \* cached_hunk
    buffer,  \* the hunk the buffer holds, Unread, or Torn
    call,    \* the read under way, or the last one
    failed   \* history: a hunk read of this handle has failed

vars == <<disc, track, cached, buffer, call, failed>>

NoTrack == [number |-> 0]
Unread == -1
Torn == -2
Garbage == <<0, -1>>
IsOpen == track # NoTrack

\* reply has an entry per sector copied: the sector asked for, what the buffer
\* held there, and which of its bytes were taken.
NoCall == [step |-> "none", sector |-> 0, left |-> 0, reply |-> <<>>]

Copied == [sector : Nat, content : Nat \X Int, skip : Nat, bytes : Nat]

Hunks == (Len(Image(disc)) + FramesPerHunk - 1) \div FramesPerHunk

TypeOK ==
    /\ disc \in Discs
    /\ IsOpen => track \in Range(ReadTracks(disc))
    /\ cached \in Unread..(Hunks - 1)
    /\ buffer \in Torn..(Hunks - 1)
    /\ call \in [step : {"none", "read", "done", "failed"}, sector : Nat, left : Nat,
                reply : Seq(Copied)]
    /\ failed \in BOOLEAN

\* raproxy_chd_open_track: nothing is opened for a track that is not there.
OpenTrack(wanted) ==
    LET tracks == ReadTracks(disc)
        index == SelectTrack(tracks, wanted)
    IN
    /\ ~IsOpen
    /\ index # 0
    /\ track' = tracks[index]
    /\ cached' = Unread
    /\ buffer' = Unread
    /\ call' = NoCall
    /\ failed' = FALSE
    /\ UNCHANGED disc

CloseTrack ==
    /\ IsOpen
    /\ call.step # "read"
    /\ track' = NoTrack
    /\ cached' = Unread
    /\ buffer' = Unread
    /\ call' = NoCall
    /\ failed' = FALSE
    /\ UNCHANGED disc

\* raproxy_chd_read_sector is called.
ReadSector(sector, size) ==
    /\ IsOpen
    /\ call.step # "read"
    /\ call' = [step |-> "read", sector |-> sector, left |-> size, reply |-> <<>>]
    /\ UNCHANGED <<disc, track, cached, buffer, failed>>

\* Mutant of InTrack: the last sector is left out.
InTrackButLast ==
    call.sector >= track.absStart /\ call.sector - track.absStart + 1 < track.frames

\* raproxy_copy_sector.
InTrack == call.sector >= track.absStart /\ call.sector - track.absStart < track.frames
Frame == track.chdStart + call.sector - track.absStart
Hunk == Frame \div FramesPerHunk
Chunk == IF call.left < DataSize(track.type) THEN call.left ELSE DataSize(track.type)

\* What a buffer that holds hunk h, or was torn, has at the frame.
Content(h) == IF h = Hunk THEN Image(disc)[Frame + 1] ELSE Garbage

\* The loop of read_sector goes on behind the bytes copied.
Copy(h) ==
    call' = [call EXCEPT !.sector = @ + 1,
                         !.left = @ - Chunk,
                         !.reply = Append(@, [sector |-> call.sector, content |-> Content(h),
                                              skip |-> HeaderSize(track.type), bytes |-> Chunk])]

Copying == IsOpen /\ call.step = "read" /\ call.left > 0 /\ InTrack

CopyCached ==
    /\ Copying
    /\ Hunk = cached
    /\ Copy(buffer)
    /\ UNCHANGED <<disc, track, cached, buffer, failed>>

ReadHunk ==
    /\ Copying
    /\ Hunk # cached
    /\ cached' = Hunk
    /\ buffer' = Hunk
    /\ Copy(Hunk)
    /\ UNCHANGED <<disc, track, failed>>

\* chd_read fails, and may have torn the buffer; cached_hunk is left alone.
ReadHunkFails ==
    /\ Copying
    /\ Hunk # cached
    /\ buffer' \in {buffer, Torn}
    /\ call' = [call EXCEPT !.step = "failed"]
    /\ failed' = TRUE
    /\ UNCHANGED <<disc, track, cached>>

\* Everything is copied, or the next sector is not the track's.
ReadEnds ==
    /\ IsOpen
    /\ call.step = "read"
    /\ call.left = 0 \/ ~InTrack
    /\ call' = [call EXCEPT !.step = "done"]
    /\ UNCHANGED <<disc, track, cached, buffer, failed>>

Init ==
    /\ disc \in Discs
    /\ track = NoTrack
    /\ cached = Unread
    /\ buffer = Unread
    /\ call = NoCall
    /\ failed = FALSE

Next ==
    \/ \E wanted \in Wanted : OpenTrack(wanted)
    \/ CloseTrack
    \/ \E sector \in 0..Len(Programme(disc)), size \in Sizes : ReadSector(sector, size)
    \/ CopyCached \/ ReadHunk \/ ReadHunkFails \/ ReadEnds

Spec == Init /\ [][Next]_vars

-----------------------------------------------------------------------------
(* Properties.                                                             *)

IsUserData(chunk) ==
    /\ chunk.content = Programme(disc)[chunk.sector + 1]
    /\ chunk.skip = UserOffset(track.type)

\* "read_sector returns USER DATA" (chd_cdreader.c): every byte handed to
\* rc_hash is user data of the sector it asked for, by the disc's layout and
\* not by the reader's own counters, until a hunk read fails.  After that it
\* may be garbage from a torn buffer, never another sector's data.
SoundReadsAreUserData ==
    \A k \in DOMAIN call.reply :
        \/ IsUserData(call.reply[k])
        \/ failed /\ call.reply[k].content = Garbage

\* A read stops short only at the end of its track, or at a failure: what it
\* leaves out is no data of the track's.
ReadsSpanTheTrack ==
    call.step = "done" /\ call.left > 0 =>
        \/ call.sector >= Len(Programme(disc))
        \/ LET here == Programme(disc)[call.sector + 1] IN
           here = Silence \/ disc[here[1]].number # track.number

-----------------------------------------------------------------------------
(* The inductive invariant.                                                *)

\* The buffer holds the hunk it is said to hold, unless a read has torn it, and
\* no handle is left without a trace.
CacheIsTrue ==
    /\ buffer = cached \/ (failed /\ buffer = Torn)
    /\ ~IsOpen => call = NoCall /\ cached = Unread /\ ~failed

ReaderIInv == TypeOK /\ CacheIsTrue /\ SoundReadsAreUserData /\ ReadsSpanTheTrack
=============================================================================
