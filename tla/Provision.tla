----------------------------- MODULE Provision -----------------------------
(***************************************************************************)
(* ensure_binary (src/src/conduit/_provision.py): download-on-first-use of *)
(* the `conduit` engine binary into a cache directory that every host      *)
(* process of the user shares.  Each element of Calls is one call of       *)
(* ensure_binary, made by whichever process or thread; nothing but the     *)
(* file system orders them.                                                *)
(*                                                                         *)
(* A file is a record of the version it is for, how much of the engine's   *)
(* bytes it holds and whether it is executable.  An archive is one of four *)
(* kinds: what the release published ("binary", "nobinary" for a changed   *)
(* layout, "unreadable" for something that is no archive) or "corrupt",    *)
(* any other bytes the network delivered with a good status.               *)
(***************************************************************************)
EXTENDS Naturals

CONSTANTS
  Calls,        \* calls of ensure_binary that share the cache directory
  Versions,     \* engine versions, a leading "v" already stripped
  NoVersion,    \* an argument or environment variable that is not given
  EnvVersion,   \* CONDUIT_CLIENT_ENGINE_VERSION, or NoVersion
  DefaultVersion,
  Supported,    \* calls on a platform that has a published asset name
  Asset,        \* Asset[v]: the kind of archive the release of v published
  InterruptAt   \* the steps at which KeyboardInterrupt may be raised

ArchiveKinds == {"binary", "nobinary", "unreadable", "corrupt"}
TryBody == {"write", "chmod", "replace"}
Working == {"check", "archive", "checksums", "verify", "extract",
            "maketemp", "handover", "cleanup"} \cup TryBody
Ended == {"done", "raised", "killed"}

ASSUME ProvisionAssumption ==
  /\ NoVersion \notin Versions
  /\ EnvVersion \in Versions \cup {NoVersion}
  /\ DefaultVersion \in Versions
  /\ Asset \in [Versions -> ArchiveKinds \ {"corrupt"}]
  /\ Supported \subseteq Calls
  /\ InterruptAt \subseteq Working

VARIABLES
  cache,     \* cache[v]: the file at cached_binary_path(v), or NoFile
  tmp,       \* tmp[c]: the file mkstemp made for c, or NoFile
  pc, want,  \* the step c is at; the version it resolved
  archive,   \* archive[c], sums[c]: what the two downloads of c delivered
  sums,      \*   (see GetArchive and GetChecksums)
  err        \* err[c]: the exception in flight or raised, or "none"

vars == <<cache, tmp, pc, want, archive, sums, err>>
files == <<cache, tmp>>
downloads == <<archive, sums>>

NoFile == [body |-> "nofile"]
File == [v : Versions, body : {"empty", "partial", "whole", "corrupt"}, exec : BOOLEAN]

ConduitErrors == {"client.unsupported_platform", "client.download_failed",
                  "client.checksum_mismatch", "client.malformed_release_asset"}
RawErrors == {"OSError", "UnlinkError", "IncompleteRead", "UnicodeDecodeError", "ReadError"}

TypeOK ==
  /\ cache \in [Versions -> File \cup {NoFile}]
  /\ tmp \in [Calls -> File \cup {NoFile}]
  /\ pc \in [Calls -> Working \cup Ended \cup {"idle"}]
  /\ want \in [Calls -> Versions]
  /\ archive \in [Calls -> ArchiveKinds \cup {"none"}]
  /\ sums \in [Calls -> {"none", "match", "other", "garbled"}]
  /\ err \in [Calls -> ConduitErrors \cup RawErrors \cup {"none", "interrupt"}]

Init ==
  /\ cache = [v \in Versions |-> NoFile]
  /\ tmp = [c \in Calls |-> NoFile]
  /\ pc = [c \in Calls |-> "idle"]
  /\ want = [c \in Calls |-> DefaultVersion]
  /\ archive = [c \in Calls |-> "none"]
  /\ sums = [c \in Calls |-> "none"]
  /\ err = [c \in Calls |-> "none"]

-----------------------------------------------------------------------------
Goto(c, step) == pc' = [pc EXCEPT ![c] = step]

\* An exception raised at c's step: the `finally` runs if the step is in the
\* try body, otherwise the exception leaves ensure_binary at once.
Raise(c, e) ==
  /\ err' = [err EXCEPT ![c] = e]
  /\ Goto(c, IF pc[c] \in TryBody THEN "cleanup" ELSE "raised")

\* Mutant: an argument that is not given is taken as it is.
ResolveUnchecked(arg) == arg

\* resolve_version: argument, else environment, else the pinned default.
Resolve(arg) ==
  IF arg # NoVersion THEN arg
  ELSE IF EnvVersion # NoVersion THEN EnvVersion ELSE DefaultVersion

Begin(c) ==
  /\ pc[c] = "idle"
  /\ \E arg \in Versions \cup {NoVersion} : want' = [want EXCEPT ![c] = Resolve(arg)]
  /\ Goto(c, "check")
  /\ UNCHANGED <<files, downloads, err>>

\* Mutant: the cache directory is not keyed by version.
CheckCacheAnyVersion(c) ==
  /\ pc[c] = "check"
  /\ Goto(c, IF \E v \in Versions : cache[v] # NoFile THEN "done" ELSE "archive")
  /\ UNCHANGED <<files, want, downloads, err>>

\* target.exists() and, on a miss, the platform's asset name.
CheckCache(c) ==
  /\ pc[c] = "check"
  /\ \/ /\ cache[want[c]] # NoFile
        /\ Goto(c, "done")
        /\ UNCHANGED err
     \/ /\ cache[want[c]] = NoFile
        /\ c \in Supported
        /\ Goto(c, "archive")
        /\ UNCHANGED err
     \/ /\ cache[want[c]] = NoFile
        /\ c \notin Supported
        /\ Raise(c, "client.unsupported_platform")
  /\ UNCHANGED <<files, want, downloads>>

\* _http_get: the body, an OSError (translated by the caller), or a body cut
\* short of its Content-Length, which http.client reports as IncompleteRead.
HttpError(c) == \E e \in {"client.download_failed", "IncompleteRead"} : Raise(c, e)

GetArchive(c) ==
  /\ pc[c] = "archive"
  /\ \/ /\ \E a \in {Asset[want[c]], "corrupt"} : archive' = [archive EXCEPT ![c] = a]
        /\ Goto(c, "checksums")
        /\ UNCHANGED err
     \/ HttpError(c) /\ UNCHANGED archive
  /\ UNCHANGED <<files, want, sums>>

\* The second _http_get.  checksums.txt lists the published digest; another one
\* for this archive, or none; or it is not UTF-8.
GetChecksums(c) ==
  /\ pc[c] = "checksums"
  /\ \/ /\ \E s \in {"match", "other", "garbled"} : sums' = [sums EXCEPT ![c] = s]
        /\ Goto(c, "verify")
        /\ UNCHANGED err
     \/ HttpError(c) /\ UNCHANGED sums
  /\ UNCHANGED <<files, want, archive>>

\* Mutant: the digests are not compared.
VerifyListedOnly(c) ==
  /\ pc[c] = "verify"
  /\ IF sums[c] \in {"match", "other"} THEN Goto(c, "extract") /\ UNCHANGED err
     ELSE Raise(c, "client.checksum_mismatch")
  /\ UNCHANGED <<files, want, downloads>>

\* Mutant: a mismatch downloads the release again, for as long as it takes.
VerifyOrRetry(c) ==
  /\ pc[c] = "verify"
  /\ Goto(c, IF sums[c] = "match" /\ archive[c] # "corrupt" THEN "extract" ELSE "archive")
  /\ UNCHANGED <<files, want, downloads, err>>

\* _verify_checksum: decode, find the archive's line, compare the digests.
Verify(c) ==
  LET matches == sums[c] = "match" /\ archive[c] = Asset[want[c]] IN
  /\ pc[c] = "verify"
  /\ \/ sums[c] = "garbled" /\ Raise(c, "UnicodeDecodeError")
     \/ matches /\ Goto(c, "extract") /\ UNCHANGED err
     \/ ~matches /\ sums[c] # "garbled" /\ Raise(c, "client.checksum_mismatch")
  /\ UNCHANGED <<files, want, downloads>>

\* _extract_binary.  Opening what is no archive raises tarfile.ReadError (or
\* zipfile.BadZipFile).
Extract(c) ==
  /\ pc[c] = "extract"
  /\ \/ archive[c] \in {"binary", "corrupt"} /\ Goto(c, "maketemp") /\ UNCHANGED err
     \/ archive[c] = "nobinary" /\ Raise(c, "client.malformed_release_asset")
     \/ archive[c] = "unreadable" /\ Raise(c, "ReadError")
  /\ UNCHANGED <<files, want, downloads>>

\* mkdir and mkstemp, before the try statement is entered.
MakeTemp(c) ==
  /\ pc[c] = "maketemp"
  /\ tmp' = [tmp EXCEPT ![c] = [v |-> want[c], body |-> "empty", exec |-> FALSE]]
  /\ Goto(c, "handover")
  /\ UNCHANGED <<cache, want, downloads, err>>

EnterTry(c) ==
  /\ pc[c] = "handover"
  /\ Goto(c, "write")
  /\ UNCHANGED <<files, want, downloads, err>>

\* Mutant: open(target, "wb") instead of a temporary file.
WriteInPlace(c) ==
  /\ pc[c] = "write"
  /\ \E body \in {"partial", "whole"} :
       /\ cache' = [cache EXCEPT ![want[c]] = [tmp[c] EXCEPT !.body = body, !.exec = TRUE]]
       /\ Goto(c, IF body = "whole" THEN "cleanup" ELSE "write")
  /\ UNCHANGED <<tmp, want, downloads, err>>

\* f.write and close: the bytes reach the temporary file in any number of parts.
Write(c) ==
  /\ pc[c] = "write"
  /\ \/ /\ tmp[c].body = "empty"
        /\ tmp' = [tmp EXCEPT ![c].body = "partial"]
        /\ UNCHANGED pc
     \/ /\ tmp[c].body = "partial"
        /\ tmp' = [tmp EXCEPT ![c].body = IF archive[c] = "corrupt" THEN "corrupt" ELSE "whole"]
        /\ Goto(c, "chmod")
  /\ UNCHANGED <<cache, want, downloads, err>>

Chmod(c) ==
  /\ pc[c] = "chmod"
  /\ tmp' = [tmp EXCEPT ![c].exec = TRUE]
  /\ Goto(c, "replace")
  /\ UNCHANGED <<cache, want, downloads, err>>

\* tmp_path.replace(target): one atomic rename, over whatever is there.
Replace(c) ==
  /\ pc[c] = "replace"
  /\ cache' = [cache EXCEPT ![want[c]] = tmp[c]]
  /\ tmp' = [tmp EXCEPT ![c] = NoFile]
  /\ Goto(c, "cleanup")
  /\ UNCHANGED <<want, downloads, err>>

\* Mutant: the temporary file is removed on the way to `return` only.
CleanupOnReturn(c) ==
  /\ pc[c] = "cleanup"
  /\ tmp' = IF err[c] = "none" THEN [tmp EXCEPT ![c] = NoFile] ELSE tmp
  /\ Goto(c, IF err[c] = "none" THEN "done" ELSE "raised")
  /\ UNCHANGED <<cache, want, downloads, err>>

\* Mutant: `return target` inside the finally swallows the exception.
CleanupSwallows(c) ==
  /\ pc[c] = "cleanup"
  /\ tmp' = [tmp EXCEPT ![c] = NoFile]
  /\ Goto(c, "done")
  /\ UNCHANGED <<cache, want, downloads, err>>

\* finally: unlink(missing_ok=True), then return or re-raise.
Cleanup(c) ==
  /\ pc[c] = "cleanup"
  /\ tmp' = [tmp EXCEPT ![c] = NoFile]
  /\ Goto(c, IF err[c] = "none" THEN "done" ELSE "raised")
  /\ UNCHANGED <<cache, want, downloads, err>>

\* mkdir, mkstemp, write, chmod or rename fails: disk full, no permission.  The
\* unlink of the finally can fail too (missing_ok only forgives a file that is
\* gone): its OSError, here "UnlinkError", replaces an exception in flight.
DiskError(c) ==
  /\ \/ pc[c] \in TryBody \cup {"maketemp"} /\ Raise(c, "OSError")
     \/ pc[c] = "cleanup" /\ Raise(c, "UnlinkError")
  /\ UNCHANGED <<files, want, downloads>>

\* Ctrl-C in the host process.
Interrupt(c) ==
  /\ pc[c] \in InterruptAt
  /\ Raise(c, "interrupt")
  /\ UNCHANGED <<files, want, downloads>>

\* kill -9 of the host process: nothing runs any more, files stay.
Kill(c) ==
  /\ pc[c] \in Working
  /\ Goto(c, "killed")
  /\ UNCHANGED <<files, want, downloads, err>>

Step(c) ==
  \/ CheckCache(c) \/ GetArchive(c) \/ GetChecksums(c) \/ Verify(c) \/ Extract(c)
  \/ MakeTemp(c) \/ EnterTry(c) \/ Write(c) \/ Chmod(c) \/ Replace(c) \/ Cleanup(c)
  \/ DiskError(c)

Next == \E c \in Calls : Begin(c) \/ Step(c) \/ Interrupt(c) \/ Kill(c)

\* A call that has begun keeps running; the server ends every transfer.
Spec == Init /\ [][Next]_vars /\ \A c \in Calls : WF_vars(Step(c))

-----------------------------------------------------------------------------
\* No process ever sees anything at the final path but a whole, verified,
\* executable engine of the version the directory is named after, however
\* the calls interleave and wherever one of them is killed or interrupted.
CacheWhole ==
  \A v \in Versions : cache[v] # NoFile =>
    cache[v].v = v /\ cache[v].body = "whole" /\ cache[v].exec

\* A path that was returned stays good: the cached engine is never removed and
\* never replaced by other bytes, though late calls install it again.
CacheStable ==
  [][\A v \in Versions : cache[v] # NoFile => cache'[v] = cache[v]]_cache

\* The path a call returns leads to an engine of the version it resolved.
ReturnsInstalled ==
  \A c \in Calls : pc[c] = "done" => cache[want[c]] # NoFile

\* A call that returns leaves no temporary file behind, and one that raises leaves
\* one in three cases only: Ctrl-C hit one of the two windows the try statement
\* does not cover, between mkstemp and `try` and inside `finally`, or the unlink in
\* there failed itself.
LeavesFile(c) == pc[c] \notin Ended /\ pc'[c] \in {"done", "raised"} /\ tmp'[c] # NoFile
Excused(c) ==
  /\ pc'[c] = "raised"
  /\ \/ pc[c] \in {"handover", "cleanup"} /\ err'[c] = "interrupt"
     \/ pc[c] = "cleanup" /\ err'[c] = "UnlinkError"

TempRemoved == [][\A c \in Calls : LeavesFile(c) => Excused(c)]_vars

\* No call of ensure_binary waits for another one: each returns or raises.
EveryCallEnds == \A c \in Calls : pc[c] = "check" ~> pc[c] \in Ended

\* Seen from outside, ensure_binary is the atomic cache of BinaryCache: bytes on
\* their way, temporary files and late second installs are stuttering.
Held == {v \in Versions : cache[v] # NoFile /\ cache[v].body = "whole" /\ cache[v].exec}
Asked == [c \in Calls |-> IF pc[c] = "idle" THEN NoVersion ELSE want[c]]
Answered == [c \in Calls |-> IF pc[c] = "done" THEN "path"
                            ELSE IF pc[c] = "raised" THEN "error" ELSE "none"]

Cache == INSTANCE BinaryCache WITH held <- Held, asked <- Asked, answer <- Answered

ImplementsCache == Cache!Spec

\* What the docstring's Raises section says: a failed download, verification or
\* extraction is a ConduitError.
FailuresAreConduitErrors ==
  \A c \in Calls : pc[c] = "raised" => err[c] \in ConduitErrors \cup {"OSError", "UnlinkError", "interrupt"}
=============================================================================
