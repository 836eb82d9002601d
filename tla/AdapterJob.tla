------------------------------ MODULE AdapterJob ------------------------------
(* One intake job as the adapters carry it out: the process that is handed  *)
(* the request, every time it opens the referenced original, what it leaves *)
(* in the attempt's directory, and the import of its result.  The original  *)
(* is a file outside the program's control: somebody may overwrite it at    *)
(* any moment, and restore it.                                              *)
(*                                                                          *)
(* What a model answers about a still, a page or a stretch of sound is a    *)
(* function of the bytes it is given, recorded with those bytes.  Any step  *)
(* of the adapter may fail, or its process die; the checks are guards.      *)
EXTENDS Scenes, Transcript, ClockText

CONSTANTS
  Contents,     \* what the file at the original's path may hold
  Worlds,       \* what each content has recorded: see IsRecording
  Jobs,         \* [kind, asked, interval, dedup, gap, overnight, vectors]
  MaxEdits, MaxAttempts,
  MayRestore    \* can the asked bytes come back in the middle of an attempt?

\* What a container and a recognizer tell in order: frames from the first on,
\* none at the millisecond of another nor after the end; segments by their
\* starts, so that one may end within an earlier one.
IsRecording(r) ==
  /\ r.claimed \in Nat /\ r.rate \in Nat
  /\ r.stream \subseteq Nat /\ \A e, f \in r.stream : e = f
  /\ r.frames \in Seq(Range(r.frames))
  /\ \A f \in Range(r.frames) : f.at \in 0..(DecodableEnd(r.claimed, r.stream) - 1) /\ f.cut \in BOOLEAN
  /\ r.frames # << >> => r.frames[1].at = 0
  /\ \A i, j \in DOMAIN r.frames : i < j => r.frames[i].at < r.frames[j].at
  /\ r.words \in Seq(Range(r.words))
  /\ \A w \in Range(r.words) :
       w.from \in Nat /\ w.to \in Nat /\ w = [from |-> w.from, to |-> w.to, said |-> w.said]
  /\ \A i, j \in DOMAIN r.words : i < j => r.words[i].from <= r.words[j].from

ASSUME JobAssumption ==
  /\ MayRestore \in BOOLEAN /\ MaxEdits \in Nat /\ MaxAttempts \in Nat \ {0}
  /\ \A w \in Worlds : DOMAIN w = Contents /\ \A c \in Contents : IsRecording(w[c])
  /\ \A j \in Jobs :
       /\ j.kind \in {"video", "audio", "document"} /\ j.asked \in Contents
       /\ j.interval \in Nat /\ j.dedup \in Nat /\ j.gap \in Nat
       /\ j.overnight \in BOOLEAN /\ j.vectors \in BOOLEAN

VARIABLES
  world, job,       \* chosen once
  file, edits,      \* the original's bytes now, how often they were changed
  attempt, pc,      \* the step the adapter, and then the import, takes next
  work,             \* what the process has in memory
  disk,             \* the attempt's directory
  held              \* the imported result: none, or one

jobVars == <<world, job, file, edits, attempt, pc, work, disk, held>>

Route == [
  video    |-> <<"verify", "hash", "duration", "stream", "rate", "cut", "analyze",
                 "sound", "listen", "embed", "batch", "index", "publish",
                 "check", "import", "done">>,
  audio    |-> <<"verify", "sound", "listen", "batch", "publish",
                 "check", "import", "done">>,
  document |-> <<"verify", "recognize", "map", "batch", "publish",
                 "check", "import", "done">>]

Steps(kind) == ToSet(Route[kind])
Stopped == {"done", "failed"}

NoRows == [scenes |-> {}, gaps |-> {}, stills |-> {}, objects |-> {}, captions |-> {},
           clocks |-> {}, statements |-> {}, silences |-> {}, regions |-> {}]

Blank == [identity |-> {}, heard |-> {}, claimed |-> 0, stream |-> {}, rate |-> 0,
          scenes |-> {}, docir |-> {}, rows |-> NoRows, vectors |-> {}, located |-> {},
          result |-> {}]

EmptyDisk == [stills |-> << >>, docir |-> {}, batch |-> {}, index |-> {}]

JobInit ==
  /\ world \in Worlds /\ job \in Jobs
  /\ file = job.asked /\ edits = 0
  /\ attempt = 1 /\ pc = "verify"
  /\ work = Blank /\ disk = EmptyDisk
  /\ held = {}

\* The step s of this kind of job, and on to the one after it.
At(s) ==
  LET route == Route[job.kind] IN
  /\ pc = s
  /\ \E i \in DOMAIN route : route[i] = s /\ pc' = route[i + 1]
  /\ UNCHANGED <<world, job, file, edits, attempt>>

Recorded == world[file]
InMemory == UNCHANGED <<disk, held>>

----------------------------------------------------------------------------
(* Opening the original.  Each of these reads the file anew.                *)

\* verify_original, before anything else.
Verify == At("verify") /\ file = job.asked /\ work' = work /\ InMemory

\* The hash the scenes' source will carry: not compared with the request here.
HashOriginal ==
  /\ At("hash")
  /\ work' = [work EXCEPT !.identity = {file}] /\ InMemory

ProbeDuration ==
  /\ At("duration") /\ Recorded.claimed > 0
  /\ work' = [work EXCEPT !.claimed = Recorded.claimed] /\ InMemory

ProbeStream ==
  /\ At("stream")
  /\ work' = [work EXCEPT !.stream = Recorded.stream] /\ InMemory

ProbeRate ==
  /\ At("rate")
  /\ work' = [work EXCEPT !.rate = Recorded.rate] /\ InMemory

\* ffmpeg numbers its stills from 1 and overwrites; higher numbers that an
\* earlier attempt left in the same directory stay.
Overwritten(old, new) == new \o SubSeq(old, Len(new) + 1, Len(old))

CutScenes ==
  LET samples == Samples(Recorded.frames, job.interval, job.dedup, work.rate)
      times == Reported(samples)
  IN /\ At("cut") /\ times # << >>
     /\ work' = [work EXCEPT !.scenes = ScenesOf(times, DecodableEnd(work.claimed, work.stream))]
     /\ disk' = [disk EXCEPT !.stills =
                   Overwritten(@, [i \in DOMAIN samples |-> samples[i].still])]
     /\ held' = held

\* The audio adapter's own hash of the original ...
HashSound ==
  /\ At("sound")
  /\ work' = [work EXCEPT !.heard = {file}] /\ InMemory

\* merge_soundtrack: scenes and speech must carry the same hash.
SameOriginal(w) == w.identity \in {{}, w.heard}

\* ... and then ffmpeg pulls the sound out of the file once more.
Listen ==
  /\ At("listen")
  /\ IsMappable(Recorded.words) /\ SameOriginal(work)
  /\ work' = [work EXCEPT
       !.identity = IF @ = {} THEN work.heard ELSE @,
       !.rows.statements = Statements(Recorded.words),
       !.rows.silences = Silences(Recorded.words, job.gap)]
  /\ InMemory

\* With --resume the OCR product may keep the pages it finds in the directory.
Recognize ==
  /\ At("recognize")
  /\ \E d \in disk.docir \cup {[of |-> file, pages |-> Recorded.pages]} :
       /\ disk' = [disk EXCEPT !.docir = {d}]
       /\ work' = [work EXCEPT !.docir = {d}]
  /\ held' = held

\* validate_source: the pages carry the hash of the bytes they were read from.
PagesMatch(d) == d.of = file

MapDocument ==
  /\ At("map")
  /\ \E d \in work.docir :
       /\ PagesMatch(d) /\ d.pages # {}
       /\ work' = [work EXCEPT !.identity = {file}, !.rows.regions = d.pages]
  /\ InMemory

----------------------------------------------------------------------------
(* What the models say about the stills, one scene after the other.         *)

Row(scene, shows) == [n |-> scene.n, from |-> scene.from, to |-> scene.to, shows |-> shows]
StillRows == {Row(s, disk.stills[s.n]) : s \in work.scenes}

\* detect_on_scenes and caption_scenes: only the overnight tier asks.
Objects == UNION {{Row(r, o) : o \in r.shows.objects} : r \in StillRows}
Captions == {Row(r, r.shows.caption) : r \in {x \in StillRows : x.shows.caption # ""}}

\* read_clocks: at most one reading for each band of the overlay.
Read(signs) == SubSeq(signs, ParseClockText(signs)[1], ParseClockText(signs)[2])
Clocks ==
  UNION {{[n |-> r.n, from |-> r.from, to |-> r.to, band |-> b, shows |-> Read(r.shows.bands[b].signs)] :
            b \in {x \in DOMAIN r.shows.bands : ParseClockText(r.shows.bands[x].signs) # << >>}} :
         r \in StillRows}

\* scenes_to_batch refuses an analysis without scenes.
Analyze ==
  /\ At("analyze")
  /\ work.scenes # {}
  /\ work' = [work EXCEPT
       !.rows.scenes = work.scenes,
       !.rows.gaps = Dropout(DecodableEnd(work.claimed, work.stream), work.claimed, job.gap),
       !.rows.stills = StillRows,
       !.rows.objects = IF job.overnight THEN Objects ELSE {},
       !.rows.captions = IF job.overnight THEN Captions ELSE {},
       !.rows.clocks = Clocks]
  /\ InMemory

\* embed_keyframes, when the profile names an embedding model.
Embed ==
  /\ At("embed")
  /\ work' = [work EXCEPT !.vectors = IF job.vectors THEN StillRows ELSE {}]
  /\ InMemory

----------------------------------------------------------------------------
(* The result: batch, index, and last the manifest.                         *)

WriteBatch ==
  /\ At("batch")
  /\ disk' = [disk EXCEPT !.batch = {[of |-> work.identity, rows |-> work.rows]}]
  /\ UNCHANGED <<work, held>>

WriteIndex ==
  /\ At("index")
  /\ disk' = [disk EXCEPT !.index = IF work.vectors = {} THEN @ ELSE {work.vectors}]
  /\ UNCHANGED <<work, held>>

\* Each still's location is the first file with its bytes.
FileOf(still) == {i \in DOMAIN disk.stills : disk.stills[i] = still.shows}
Publish ==
  /\ At("publish")
  /\ \A s \in work.rows.stills : FileOf(s) # {}
  /\ work' = [work EXCEPT !.located = {[n |-> s.n, file |-> Min(FileOf(s))] : s \in work.rows.stills}]
  /\ InMemory

\* Mutant: the original is not hashed again before the import.
AnyFile(f) == TRUE

\* verify_file_identity, for the location of the original.
StillTheOriginal(f) == f = job.asked

\* commit_intake_result up to its transaction: the coordinator reads the batch,
\* compares it with the request, hashes every file the manifest locates, and
\* reads the index.
Check ==
  /\ At("check")
  /\ \E b \in disk.batch :
       /\ b.of = {job.asked}
       /\ StillTheOriginal(file)
       /\ \A s \in b.rows.stills : \E l \in work.located :
            l.n = s.n /\ disk.stills[l.file] = s.shows
       /\ work' = [work EXCEPT !.result = {b.rows},
            !.vectors = IF work.vectors = {} THEN {} ELSE UNION disk.index]
  /\ InMemory

\* A case holds each content once, so two stills with the same bytes are refused.
DistinctBytes(stills) == \A s, t \in stills : s.shows = t.shows => s = t

\* The transaction: every row, then a vector for stills it has just inserted.
Import ==
  /\ At("import")
  /\ \E rows \in work.result :
       /\ DistinctBytes(rows.stills)
       /\ \A v \in work.vectors : \E s \in rows.stills : s.n = v.n
       /\ held' = {[rows |-> rows, vectors |-> work.vectors]}
  /\ UNCHANGED <<work, disk>>

----------------------------------------------------------------------------
(* Failure, another attempt, and the world outside.                         *)

\* The process dies or a step of it fails, or the import is refused.
Fail ==
  /\ pc \notin Stopped
  /\ pc' = "failed" /\ work' = Blank
  /\ UNCHANGED <<world, job, file, edits, attempt, disk, held>>

\* The next attempt has a directory of its own, unless the window that asked
\* for it still showed an older number.
Retry ==
  /\ pc = "failed" /\ attempt < MaxAttempts
  /\ attempt' = attempt + 1 /\ pc' = "verify"
  /\ disk' \in {disk, EmptyDisk}
  /\ UNCHANGED <<world, job, file, edits, work, held>>

Overwrite(c) ==
  /\ edits < MaxEdits /\ c # file
  /\ c = job.asked => MayRestore \/ pc \in Stopped
  /\ file' = c /\ edits' = edits + 1
  /\ UNCHANGED <<world, job, attempt, pc, work, disk, held>>

Adapter ==
  \/ Verify \/ HashOriginal \/ ProbeDuration \/ ProbeStream \/ ProbeRate \/ CutScenes
  \/ Analyze \/ HashSound \/ Listen \/ Recognize \/ MapDocument \/ Embed
  \/ WriteBatch \/ WriteIndex \/ Publish

JobNext ==
  \/ Adapter \/ Check \/ Import \/ Fail \/ Retry
  \/ \E c \in Contents : Overwrite(c)

JobSpec == JobInit /\ [][JobNext]_jobVars

----------------------------------------------------------------------------
(* Properties.                                                              *)

\* Every variable keeps its shape: the steps of each job are on its route,
\* and nothing is held before the import has run.
JobTypeOK ==
  /\ world \in Worlds /\ job \in Jobs
  /\ file \in Contents /\ edits \in 0..MaxEdits /\ attempt \in 1..MaxAttempts
  /\ pc \in Steps(job.kind) \cup {"failed"}
  /\ DOMAIN work = DOMAIN Blank /\ DOMAIN disk = DOMAIN EmptyDisk
  /\ held # {} => pc = "done"

Asked == world[job.asked]
FramesAt(t) == {f \in Range(Asked.frames) : f.at = t}

\* Everything an imported result says comes from the bytes the job was queued
\* for: each still is their frame of that moment, what was seen, described and
\* indexed was seen on such a still, and the words and pages are theirs, although the
\* adapter opens the file up to six times and only compares hashes of it.
ResultShowsTheOriginal ==
  \A h \in held :
    LET r == h.rows IN
    /\ \A s \in r.stills \cup h.vectors : \E f \in FramesAt(s.from) : s.shows = f.still
    /\ \A o \in r.objects : \E f \in FramesAt(o.from) : o.shows \in f.still.objects
    /\ \A c \in r.captions : \E f \in FramesAt(c.from) : c.shows = f.still.caption
    /\ \A w \in r.statements : Asked.words[w.n] = [from |-> w.from, to |-> w.to, said |-> w.said]
    /\ r.regions \subseteq Asked.pages

\* A steady recording: frames one rate apart, all before the stream ends, and
\* the container tells both.
Steady(w) ==
  /\ w.rate > 0 /\ w.stream # {}
  /\ \A i \in 2..Len(w.frames) : w.frames[i].at = w.frames[i - 1].at + w.rate
  /\ \A e \in w.stream : e = Last(w.frames).at + w.rate

\* The scenes of an imported video divide it: every moment that can be decoded
\* lies in exactly one, a missing tail begins where the last one ends, and
\* in a steady recording no scene outlasts the interval the request asked for
\* (or one frame, if that is longer).
EveryMomentIsIndexed ==
  \A h \in held : job.kind = "video" =>
    LET scenes == h.rows.scenes
        end == DecodableEnd(Asked.claimed, Asked.stream)
    IN /\ \A t \in 0..(end - 1) : Cardinality({s \in scenes : s.from <= t /\ t < s.to}) = 1
       /\ \A g \in h.rows.gaps : Max({s.to : s \in scenes}) = g.from
       /\ Steady(Asked) /\ job.interval > 0 =>
            \A s \in scenes : s.to - s.from <= Max({job.interval, Asked.rate})

\* What an imported result has read off band b of the still s.
ReadOff(h, s, b) == {c.shows : c \in {x \in h.rows.clocks : x.n = s.n /\ x.band = b}}

\* The second end of a span may look like the offset of the first: behind a date
\* that begins with the year, digits up to 14 between a hyphen and a colon.
LooksLikeOffset(t) ==
  \E y, i \in DOMAIN t :
    /\ y < i /\ i + 2 <= Len(t)
    /\ t[y].n = 4 /\ t[y + 1].k = "-"
    /\ t[i].k = "-" /\ t[i - 1].k = "d" /\ t[i + 1].k = "d" /\ t[i + 1].v <= 14
    /\ t[i + 2].k = ":"

\* A clock reading is a whole timestamp burned into the frame that opens its
\* scene: a timestamp standing by itself is never missed, and neither the time
\* of a date that is none nor one end of a span is read, unless the other end
\* looks like its offset.
ReadingsAreWhole ==
  \A h \in held : \A s \in h.rows.stills : \A b \in DOMAIN s.shows.bands :
    LET overlay == s.shows.bands[b] IN
    IF overlay.stamp # << >>
    THEN ReadOff(h, s, b) = {SubSeq(overlay.signs, overlay.stamp[1], overlay.stamp[2])}
    ELSE LooksLikeOffset(overlay.signs) \/ ReadOff(h, s, b) = {}

\* "A range such as ... is a span, not a clock, and yields None - as does
\* anything else": no reading comes of a text without a timestamp.  It does not
\* hold: 2026-08-19 21:07:30-13:07:30 is read as one, with an offset.
SpansYieldNothing ==
  \A h \in held : \A s \in h.rows.stills : \A b \in DOMAIN s.shows.bands :
    s.shows.bands[b].stamp = << >> => ReadOff(h, s, b) = {}

\* Every stretch of the gap's length or more in which nobody is heard, from the
\* end of one spoken segment to the start of another, lies within a stretch the
\* imported result tells as silent, however the segments overlap before it.
EverySilenceIsTold ==
  \A h \in held : h.rows.statements # {} /\ job.gap > 0 =>
    \A v, w \in Range(Asked.words) :
      /\ w.from >= v.to + job.gap
      /\ \A u \in Range(Asked.words) : u.to <= v.to \/ w.from <= u.from
      => \E g \in h.rows.silences : g.from <= v.to /\ w.from <= g.to

\* "No speech was aligned between ... and ...": where an imported result says
\* so, no spoken segment of the recording reaches into the stretch.  It does not
\* hold where a segment outlasts the one after it: the silence is measured from
\* the end of that one.
NoSpeechIsSilent ==
  \A h \in held : \A g \in h.rows.silences : \A w \in Range(Asked.words) :
    w.to <= g.from \/ g.to <= w.from
=============================================================================
