-------------------------- MODULE Provision_proofs --------------------------
(* Theorems about Provision, for any calls, versions and interrupts. *)
EXTENDS Provision, TLAPS

\* Each step implies what the earlier ones established.
CallOK(c) ==
  /\ pc[c] \in (Working \ {"cleanup"}) \cup {"idle"} => err[c] = "none"
  /\ pc[c] = "extract" => archive[c] # "corrupt"
  /\ pc[c] \in {"maketemp", "handover"} \cup TryBody => archive[c] = "binary"
  /\ pc[c] \in {"handover"} \cup TryBody => tmp[c] \in File /\ tmp[c].v = want[c]
  /\ pc[c] \in {"chmod", "replace"} => tmp[c].body = "whole"
  /\ pc[c] = "replace" => tmp[c].exec
  /\ pc[c] = "cleanup" /\ err[c] = "none" => cache[want[c]] # NoFile
  /\ pc[c] = "done" => cache[want[c]] # NoFile

IInv == TypeOK /\ CacheWhole /\ \A c \in Calls : CallOK(c)

\* The invariant holds before any call.
LEMMA InitInv == Init => IInv
BY ProvisionAssumption DEF Init, IInv, TypeOK, CacheWhole, CallOK, Working, Ended, TryBody

\* Writing to the temporary file, or making it executable, leaves it a file for
\* the same version.
LEMMA WriteEffect ==
  ASSUME IInv, NEW c \in Calls, Write(c)
  PROVE  \E f \in File : /\ f.v = want[c]
                        /\ tmp' = [tmp EXCEPT ![c] = f]
                        /\ \/ pc' = pc
                           \/ pc' = [pc EXCEPT ![c] = "chmod"] /\ f.body = "whole"
<1>1. tmp[c] \in File /\ tmp[c].v = want[c] /\ archive[c] = "binary"
  BY DEF IInv, CallOK, Write, TryBody
<1>2. \A b \in {"partial", "whole"} :
        /\ [tmp[c] EXCEPT !.body = b] \in File
        /\ [tmp[c] EXCEPT !.body = b].v = want[c]
        /\ [tmp[c] EXCEPT !.body = b].body = b
  BY <1>1 DEF File
<1>3. PICK b \in {"partial", "whole"} :
        /\ tmp' = [tmp EXCEPT ![c] = [tmp[c] EXCEPT !.body = b]]
        /\ \/ pc' = pc
           \/ pc' = [pc EXCEPT ![c] = "chmod"] /\ b = "whole"
  BY <1>1 DEF Write, Goto
<1>4. QED
  BY <1>2, <1>3

\* chmod makes the finished temporary file an engine that can be installed.
LEMMA ChmodEffect ==
  ASSUME IInv, NEW c \in Calls, Chmod(c)
  PROVE  \E f \in File : /\ f.v = want[c] /\ f.body = "whole" /\ f.exec
                        /\ tmp' = [tmp EXCEPT ![c] = f]
<1>1. tmp[c] \in File /\ tmp[c].v = want[c] /\ tmp[c].body = "whole"
  BY DEF IInv, CallOK, Chmod, TryBody
<1>2. tmp' = [tmp EXCEPT ![c] = [tmp[c] EXCEPT !.exec = TRUE]]
  BY DEF Chmod
<1>3. [tmp[c] EXCEPT !.exec = TRUE] \in File
      /\ [tmp[c] EXCEPT !.exec = TRUE].v = want[c]
      /\ [tmp[c] EXCEPT !.exec = TRUE].body = "whole" /\ [tmp[c] EXCEPT !.exec = TRUE].exec
  BY <1>1 DEF File
<1>4. QED
  BY <1>2, <1>3

\* No step of a call leaves the types.
LEMMA TypeStep == IInv /\ [Next]_vars => TypeOK'
<1> SUFFICES ASSUME IInv, [Next]_vars PROVE TypeOK'
  OBVIOUS
<1>0. TypeOK /\ \A c \in Calls : CallOK(c)
  BY DEF IInv
<1> USE ProvisionAssumption DEF TypeOK, Goto, Raise, files, downloads, Working, Ended,
        TryBody, ConduitErrors, RawErrors, ArchiveKinds
<1>1. ASSUME NEW c \in Calls, Begin(c) PROVE TypeOK'
  BY <1>0, <1>1 DEF Begin, Resolve
<1>2. ASSUME NEW c \in Calls, CheckCache(c) PROVE TypeOK'
  BY <1>0, <1>2 DEF CheckCache
<1>3. ASSUME NEW c \in Calls, GetArchive(c) PROVE TypeOK'
  BY <1>0, <1>3 DEF GetArchive, HttpError
<1>4. ASSUME NEW c \in Calls, GetChecksums(c) PROVE TypeOK'
  BY <1>0, <1>4 DEF GetChecksums, HttpError
<1>5. ASSUME NEW c \in Calls, Verify(c) PROVE TypeOK'
  BY <1>0, <1>5 DEF Verify
<1>6. ASSUME NEW c \in Calls, Extract(c) PROVE TypeOK'
  BY <1>0, <1>6 DEF Extract
<1>7. ASSUME NEW c \in Calls, MakeTemp(c) PROVE TypeOK'
  BY <1>0, <1>7 DEF MakeTemp, File
<1>8. ASSUME NEW c \in Calls, EnterTry(c) PROVE TypeOK'
  BY <1>0, <1>8 DEF EnterTry
<1>9. ASSUME NEW c \in Calls, Write(c) PROVE TypeOK'
  <2>1. PICK f \in File : tmp' = [tmp EXCEPT ![c] = f]
                         /\ (pc' = pc \/ pc' = [pc EXCEPT ![c] = "chmod"])
    BY <1>9, WriteEffect
  <2>2. UNCHANGED <<cache, want, downloads, err>>
    BY <1>9 DEF Write
  <2>3. QED
    BY <1>0, <2>1, <2>2
<1>10. ASSUME NEW c \in Calls, Chmod(c) PROVE TypeOK'
  <2>1. PICK f \in File : tmp' = [tmp EXCEPT ![c] = f]
    BY <1>10, ChmodEffect
  <2>2. UNCHANGED <<cache, want, downloads, err>> /\ pc' = [pc EXCEPT ![c] = "replace"]
    BY <1>10 DEF Chmod
  <2>3. QED
    BY <1>0, <2>1, <2>2
<1>11. ASSUME NEW c \in Calls, Replace(c) PROVE TypeOK'
  BY <1>0, <1>11 DEF Replace
<1>12. ASSUME NEW c \in Calls, Cleanup(c) PROVE TypeOK'
  BY <1>0, <1>12 DEF Cleanup
<1>13. ASSUME NEW c \in Calls, DiskError(c) \/ Interrupt(c) \/ Kill(c) PROVE TypeOK'
  BY <1>0, <1>13 DEF DiskError, Interrupt, Kill
<1>14. ASSUME UNCHANGED vars PROVE TypeOK'
  BY <1>0, <1>14 DEF vars
<1>15. QED
  BY <1>0, <1>1, <1>2, <1>3, <1>4, <1>5, <1>6, <1>7, <1>8, <1>9, <1>10, <1>11, <1>12, <1>13,
     <1>14 DEF Next, Step

\* NoFile, the value for "no such path", is no file.
LEMMA FileNotNoFile == \A f \in File : f # NoFile
BY DEF File, NoFile

\* Only a rename touches the cache, and it only puts whole engines there.
LEMMA CacheStep ==
  ASSUME IInv, [Next]_vars
  PROVE  CacheWhole' /\ \A v \in Versions : cache[v] # NoFile => cache'[v] # NoFile
<1>0. TypeOK /\ CacheWhole /\ \A c \in Calls : CallOK(c)
  BY DEF IInv
<1>1. ASSUME NEW c \in Calls, Replace(c) PROVE CacheWhole' /\ \A v \in Versions : cache[v] # NoFile => cache'[v] # NoFile
  <2>1. tmp[c] \in File /\ tmp[c].v = want[c] /\ tmp[c].body = "whole" /\ tmp[c].exec
    BY <1>0, <1>1 DEF Replace, CallOK, TryBody
  <2>2. want[c] \in Versions /\ cache' = [cache EXCEPT ![want[c]] = tmp[c]]
    BY <1>0, <1>1 DEF Replace, TypeOK
  <2>3. QED
    BY <1>0, <2>1, <2>2, FileNotNoFile DEF CacheWhole, TypeOK
<1>2. CASE UNCHANGED cache
  BY <1>0, <1>2 DEF CacheWhole
<1>3. QED
  BY <1>1, <1>2 DEF Next, Step, vars, files, Begin, CheckCache, GetArchive, GetChecksums, Verify,
     Extract, MakeTemp, EnterTry, Write, Chmod, Cleanup, DiskError, Interrupt, Kill

\* A step of one call leaves the facts about the others standing.
LEMMA OtherCalls ==
  ASSUME IInv, NEW c \in Calls, NEW d \in Calls, c # d, Next,
         \A x \in Calls \ {c} :
           /\ pc'[x] = pc[x] /\ err'[x] = err[x] /\ archive'[x] = archive[x]
           /\ tmp'[x] = tmp[x] /\ want'[x] = want[x]
  PROVE  CallOK(d)'
<1>1. CallOK(d) /\ want[d] \in Versions
  BY DEF IInv, TypeOK
<1>2. \A v \in Versions : cache[v] # NoFile => cache'[v] # NoFile
  BY CacheStep
<1>3. QED
  BY <1>1, <1>2 DEF CallOK

\* Every step keeps what each call has established so far.
LEMMA CallStep == IInv /\ [Next]_vars => \A d \in Calls : CallOK(d)'
<1> SUFFICES ASSUME IInv, [Next]_vars, NEW d \in Calls PROVE CallOK(d)'
  OBVIOUS
<1>0. TypeOK /\ CallOK(d)
  BY DEF IInv
<1>a. CASE UNCHANGED vars
  BY <1>0, <1>a DEF vars, CallOK
<1>b. ASSUME NEW c \in Calls, Begin(c) \/ Step(c) \/ Interrupt(c) \/ Kill(c), c # d
      PROVE  CallOK(d)'
  <2>1. \A x \in Calls \ {c} :
           /\ pc'[x] = pc[x] /\ err'[x] = err[x] /\ archive'[x] = archive[x]
           /\ tmp'[x] = tmp[x] /\ want'[x] = want[x]
    BY <1>0, <1>b DEF TypeOK, Step, Begin, CheckCache, GetArchive, GetChecksums, Verify, Extract,
       MakeTemp, EnterTry, Write, Chmod, Replace, Cleanup, DiskError, Interrupt, Kill, Goto, Raise,
       HttpError, files, downloads
  <2>2. QED
    BY <1>b, <2>1, OtherCalls DEF Next
<1> USE <1>0 DEF TypeOK, CallOK, Goto, Raise, files, downloads, Working, TryBody
<1>1. CASE Begin(d)
  BY <1>1 DEF Begin
<1>2. CASE CheckCache(d)
  BY <1>2 DEF CheckCache
<1>3. CASE GetArchive(d)
  BY <1>3 DEF GetArchive, HttpError
<1>4. CASE GetChecksums(d)
  BY <1>4 DEF GetChecksums, HttpError
<1>5. CASE Verify(d)
  BY <1>5, ProvisionAssumption DEF Verify
<1>6. CASE Extract(d)
  BY <1>6 DEF Extract
<1>7. CASE MakeTemp(d)
  BY <1>7 DEF MakeTemp, File
<1>8. CASE EnterTry(d)
  BY <1>8 DEF EnterTry
<1>9. CASE Write(d)
  <2>1. PICK f \in File : /\ f.v = want[d]
                         /\ tmp' = [tmp EXCEPT ![d] = f]
                         /\ \/ pc' = pc
                            \/ pc' = [pc EXCEPT ![d] = "chmod"] /\ f.body = "whole"
    BY <1>9, WriteEffect
  <2>2. UNCHANGED <<cache, want, downloads, err>> /\ pc[d] = "write"
    BY <1>9 DEF Write
  <2>3. QED
    BY <2>1, <2>2
<1>10. CASE Chmod(d)
  <2>1. PICK f \in File : /\ f.v = want[d] /\ f.body = "whole" /\ f.exec
                         /\ tmp' = [tmp EXCEPT ![d] = f]
    BY <1>10, ChmodEffect
  <2>2. UNCHANGED <<cache, want, downloads, err>> /\ pc' = [pc EXCEPT ![d] = "replace"]
        /\ pc[d] = "chmod"
    BY <1>10 DEF Chmod
  <2>3. QED
    BY <2>1, <2>2
<1>11. CASE Replace(d)
  BY <1>11, FileNotNoFile DEF Replace
<1>12. CASE Cleanup(d)
  BY <1>12 DEF Cleanup
<1>13. CASE DiskError(d) \/ Interrupt(d) \/ Kill(d)
  BY <1>13 DEF DiskError, Interrupt, Kill
<1>14. QED
  BY <1>a, <1>b, <1>1, <1>2, <1>3, <1>4, <1>5, <1>6, <1>7, <1>8, <1>9, <1>10, <1>11, <1>12,
     <1>13 DEF Next, Step

-----------------------------------------------------------------------------
\* IInv is inductive: it holds in every state of every behaviour.
LEMMA Invariance == Spec => []IInv
<1>1. IInv /\ [Next]_vars => IInv'
  BY TypeStep, CacheStep, CallStep DEF IInv
<1>2. QED
  BY InitInv, <1>1, PTL DEF Spec

\* The variables of Provision keep their types.
THEOREM TypeCorrect == Spec => []TypeOK
<1>1. IInv => TypeOK
  BY DEF IInv
<1>2. QED
  BY Invariance, <1>1, PTL

\* Whatever calls overlap, fail, are interrupted or killed: the final path only
\* ever holds a whole, verified, executable engine of its version.
THEOREM CacheAlwaysWhole == Spec => []CacheWhole
<1>1. IInv => CacheWhole
  BY DEF IInv
<1>2. QED
  BY Invariance, <1>1, PTL

\* Every path ensure_binary returns leads to an installed engine.
THEOREM ReturnedIsInstalled == Spec => []ReturnsInstalled
<1>1. IInv => ReturnsInstalled
  BY DEF IInv, CallOK, ReturnsInstalled
<1>2. QED
  BY Invariance, <1>1, PTL

\* Two whole, executable engines of one version are the same file: SHA-256 fixes
\* their bytes.
LEMMA SameEngine ==
  ASSUME NEW f \in File, NEW g \in File,
         f.v = g.v, f.body = "whole", g.body = "whole", f.exec, g.exec
  PROVE  f = g
<1>1. f.exec = TRUE /\ g.exec = TRUE
  BY DEF File
<1>2. QED
  BY <1>1 DEF File

\* A late call that installs its engine over the cached one changes nothing: a
\* path once returned stays good.
THEOREM CacheNeverChanges == Spec => CacheStable
<1> DEFINE Stable == \A v \in Versions : cache[v] # NoFile => cache'[v] = cache[v]
<1>1. ASSUME IInv, [Next]_vars PROVE [Stable]_cache
  <2>0. TypeOK /\ CacheWhole /\ \A c \in Calls : CallOK(c)
    BY <1>1 DEF IInv
  <2>1. ASSUME NEW c \in Calls, Replace(c) PROVE Stable
    <3>1. /\ want[c] \in Versions /\ cache' = [cache EXCEPT ![want[c]] = tmp[c]]
          /\ tmp[c] \in File /\ tmp[c].v = want[c] /\ tmp[c].body = "whole" /\ tmp[c].exec
      BY <2>0, <2>1 DEF Replace, CallOK, TryBody, TypeOK
    <3>2. ASSUME NEW v \in Versions, cache[v] # NoFile PROVE cache'[v] = cache[v]
      <4>1. cache[v] \in File /\ cache[v].v = v /\ cache[v].body = "whole" /\ cache[v].exec
        BY <2>0, <3>2 DEF TypeOK, CacheWhole
      <4>2. v = want[c] => cache[v] = tmp[c]
        BY <3>1, <4>1, SameEngine
      <4>3. QED
        BY <2>0, <3>1, <4>2 DEF TypeOK
    <3>3. QED
      BY <3>2
  <2>2. ASSUME ~\E c \in Calls : Replace(c) PROVE UNCHANGED cache
    BY <1>1, <2>2 DEF Next, Step, vars, files, Begin, CheckCache, GetArchive, GetChecksums, Verify,
       Extract, MakeTemp, EnterTry, Write, Chmod, Cleanup, DiskError, Interrupt, Kill
  <2>3. QED
    BY <2>1, <2>2
<1>2. QED
  BY Invariance, <1>1, PTL DEF Spec, CacheStable

-----------------------------------------------------------------------------
\* A step in which c raises is seen as its error, or not yet.
LEMMA RaiseAnswers ==
  ASSUME TypeOK, UNCHANGED <<cache, want>>, NEW c \in Calls, NEW e, Raise(c, e),
         pc[c] \in Working
  PROVE  Cache!AnswerError(c) \/ UNCHANGED <<Held, Asked, Answered>>
<1>1. CASE pc[c] \in TryBody
  BY <1>1 DEF TypeOK, Raise, Goto, Held, Asked, Answered, TryBody
<1>2. CASE pc[c] \notin TryBody
  <2>1. pc' = [pc EXCEPT ![c] = "raised"]
    BY <1>2 DEF Raise, Goto
  <2>2. Asked[c] \in Versions /\ Answered[c] = "none"
    BY DEF TypeOK, Asked, Answered, Working, TryBody
  <2>3. Answered' = [Answered EXCEPT ![c] = "error"] /\ UNCHANGED <<Held, Asked>>
    BY <2>1 DEF TypeOK, Held, Asked, Answered, Working, TryBody
  <2>4. QED
    BY <2>2, <2>3, ProvisionAssumption DEF Cache!AnswerError, Cache!Waiting
<1>3. QED
  BY <1>1, <1>2

\* Every step of the download is a step of the atomic cache, or is not seen.
LEMMA RefineStep ==
  ASSUME IInv, [Next]_vars
  PROVE  [Cache!Next]_<<Held, Asked, Answered>>
<1>0. TypeOK /\ CacheWhole /\ \A c \in Calls : CallOK(c)
  BY DEF IInv
<1>1. CASE UNCHANGED vars
  BY <1>1 DEF vars, Held, Asked, Answered
<1>2. ASSUME NEW c \in Calls, Begin(c) PROVE Cache!Ask(c)
  <2>1. PICK v \in Versions : want' = [want EXCEPT ![c] = v]
    BY <1>2, ProvisionAssumption DEF Begin, Resolve
  <2>2. Asked[c] = NoVersion /\ Asked' = [Asked EXCEPT ![c] = v]
    BY <1>0, <1>2, <2>1 DEF Begin, Goto, Asked, TypeOK
  <2>3. UNCHANGED <<Held, Answered>>
    BY <1>0, <1>2 DEF Begin, Goto, Held, Answered, TypeOK, files
  <2>4. QED
    BY <2>2, <2>3 DEF Cache!Ask
<1>3. ASSUME NEW c \in Calls, CheckCache(c)
      PROVE  Cache!AnswerPath(c) \/ Cache!AnswerError(c) \/ UNCHANGED <<Held, Asked, Answered>>
  <2>1. CASE cache[want[c]] # NoFile /\ Goto(c, "done")
    <3>1. Asked[c] \in Held /\ Answered[c] = "none" /\ Asked[c] # NoVersion
      BY <1>0, <1>3, <2>1, ProvisionAssumption
         DEF CheckCache, CacheWhole, TypeOK, Held, Asked, Answered
    <3>2. Answered' = [Answered EXCEPT ![c] = "path"] /\ UNCHANGED <<Held, Asked>>
      BY <1>0, <1>3, <2>1 DEF CheckCache, Goto, TypeOK, Held, Asked, Answered, files
    <3>3. QED
      BY <3>1, <3>2 DEF Cache!AnswerPath, Cache!Waiting
  <2>2. CASE Goto(c, "archive")
    BY <1>0, <1>3, <2>2 DEF CheckCache, Goto, TypeOK, Held, Asked, Answered, files
  <2>3. CASE Raise(c, "client.unsupported_platform")
    BY <1>0, <1>3, <2>3, RaiseAnswers DEF CheckCache, files, Working
  <2>4. QED
    BY <1>3, <2>1, <2>2, <2>3 DEF CheckCache
<1>4. ASSUME NEW c \in Calls, GetArchive(c) \/ GetChecksums(c) \/ Verify(c) \/ Extract(c)
      PROVE  Cache!AnswerError(c) \/ UNCHANGED <<Held, Asked, Answered>>
  <2>1. /\ UNCHANGED <<cache, want>>
        /\ pc[c] \in {"archive", "checksums", "verify", "extract"}
    BY <1>4 DEF GetArchive, GetChecksums, Verify, Extract, files
  <2>2. \/ \E e : Raise(c, e)
        \/ \E step \in {"checksums", "verify", "extract", "maketemp"} : Goto(c, step)
    BY <1>4 DEF GetArchive, GetChecksums, Verify, Extract, HttpError
  <2>3. ASSUME NEW step \in {"checksums", "verify", "extract", "maketemp"}, Goto(c, step)
        PROVE  UNCHANGED <<Held, Asked, Answered>>
    BY <1>0, <2>1, <2>3 DEF Goto, TypeOK, Held, Asked, Answered
  <2>4. QED
    BY <1>0, <2>1, <2>2, <2>3, RaiseAnswers DEF Working
<1>5. ASSUME NEW c \in Calls, MakeTemp(c) \/ EnterTry(c) \/ Write(c) \/ Chmod(c) \/ Kill(c)
      PROVE  UNCHANGED <<Held, Asked, Answered>>
  BY <1>0, <1>5 DEF MakeTemp, EnterTry, Write, Chmod, Kill, Goto, TypeOK, Held, Asked, Answered,
     files, Working, TryBody
<1>6. ASSUME NEW c \in Calls, Replace(c) PROVE Cache!Install(c)
  <2>1. /\ tmp[c] \in File /\ tmp[c].body = "whole" /\ tmp[c].exec
        /\ want[c] \in Versions /\ cache' = [cache EXCEPT ![want[c]] = tmp[c]]
    BY <1>0, <1>6 DEF Replace, CallOK, TryBody, TypeOK
  <2>2. Held' = Held \cup {want[c]}
    BY <1>0, <2>1, FileNotNoFile DEF Held, TypeOK
  <2>3. Asked[c] = want[c] /\ Answered[c] = "none" /\ UNCHANGED <<Asked, Answered>>
    BY <1>0, <1>6 DEF Replace, Goto, Asked, Answered, TypeOK
  <2>4. QED
    BY <2>1, <2>2, <2>3, ProvisionAssumption DEF Cache!Install, Cache!Waiting
<1>7. ASSUME NEW c \in Calls, Cleanup(c) PROVE Cache!AnswerPath(c) \/ Cache!AnswerError(c)
  <2>1. Asked[c] = want[c] /\ want[c] \in Versions /\ Answered[c] = "none"
        /\ UNCHANGED <<Held, Asked>>
    BY <1>0, <1>7 DEF Cleanup, Goto, Held, Asked, Answered, TypeOK
  <2>2. CASE err[c] = "none"
    <3>1. want[c] \in Held
      BY <1>0, <1>7, <2>1, <2>2 DEF Cleanup, CallOK, CacheWhole, Held
    <3>2. Answered' = [Answered EXCEPT ![c] = "path"]
      BY <1>0, <1>7, <2>2 DEF Cleanup, Goto, Answered, TypeOK
    <3>3. QED
      BY <2>1, <3>1, <3>2, ProvisionAssumption DEF Cache!AnswerPath, Cache!Waiting
  <2>3. CASE err[c] # "none"
    <3>1. Answered' = [Answered EXCEPT ![c] = "error"]
      BY <1>0, <1>7, <2>3 DEF Cleanup, Goto, Answered, TypeOK
    <3>2. QED
      BY <2>1, <3>1, ProvisionAssumption DEF Cache!AnswerError, Cache!Waiting
  <2>4. QED
    BY <2>2, <2>3
<1>8. ASSUME NEW c \in Calls, DiskError(c) \/ Interrupt(c)
      PROVE  Cache!AnswerError(c) \/ UNCHANGED <<Held, Asked, Answered>>
  <2>1. /\ UNCHANGED <<cache, want>> /\ pc[c] \in Working
        /\ Raise(c, "OSError") \/ Raise(c, "UnlinkError") \/ Raise(c, "interrupt")
    BY <1>8, ProvisionAssumption DEF DiskError, Interrupt, files, Working, TryBody
  <2>2. QED
    BY <1>0, <2>1, RaiseAnswers
<1>9. QED
  BY <1>1, <1>2, <1>3, <1>4, <1>5, <1>6, <1>7, <1>8 DEF Next, Step, Cache!Next

\* For any number of callers and versions, the download with all its partial
\* states implements the cache in which engines appear whole and at once.
THEOREM Refinement == Spec => ImplementsCache
<1>1. Init => Cache!Init
  BY DEF Init, Cache!Init, Held, Asked, Answered
<1>2. IInv /\ [Next]_vars => [Cache!Next]_<<Held, Asked, Answered>>
  BY RefineStep
<1>3. QED
  BY <1>1, <1>2, Invariance, PTL DEF Spec, ImplementsCache, Cache!Spec

\* Where a call may have a temporary file: from mkstemp to the end of the
\* finally, and afterwards only if the call was killed or is one of those that
\* TempRemoved excepts.
MayHoldFile == {"handover", "cleanup", "raised", "killed"} \cup TryBody
NoStray(c) == tmp[c] = NoFile \/ pc[c] \in MayHoldFile

\* A step of a call leaves no file to a call that has none to hold, and a step
\* that ends a call leaves none but in the three cases.
LEMMA StrayStep ==
  ASSUME IInv, \A c \in Calls : NoStray(c), [Next]_vars, NEW x \in Calls
  PROVE  NoStray(x)' /\ (LeavesFile(x) => Excused(x))
<1> DEFINE Kept == NoStray(x)' /\ (LeavesFile(x) => Excused(x))
<1>0. TypeOK /\ NoStray(x)
  BY DEF IInv
<1> USE ProvisionAssumption DEF TypeOK, NoStray, MayHoldFile, Goto, Raise, files, downloads, Working,
        Ended, TryBody, LeavesFile, Excused
<1>1. ASSUME NEW c \in Calls, Begin(c) PROVE Kept
  BY <1>0, <1>1 DEF Begin
<1>2. ASSUME NEW c \in Calls, CheckCache(c) PROVE Kept
  BY <1>0, <1>2 DEF CheckCache
<1>3. ASSUME NEW c \in Calls, GetArchive(c) PROVE Kept
  BY <1>0, <1>3 DEF GetArchive, HttpError
<1>4. ASSUME NEW c \in Calls, GetChecksums(c) PROVE Kept
  BY <1>0, <1>4 DEF GetChecksums, HttpError
<1>5. ASSUME NEW c \in Calls, Verify(c) PROVE Kept
  BY <1>0, <1>5 DEF Verify
<1>6. ASSUME NEW c \in Calls, Extract(c) PROVE Kept
  BY <1>0, <1>6 DEF Extract
<1>7. ASSUME NEW c \in Calls, MakeTemp(c) PROVE Kept
  BY <1>0, <1>7 DEF MakeTemp
<1>8. ASSUME NEW c \in Calls, EnterTry(c) PROVE Kept
  BY <1>0, <1>8 DEF EnterTry
<1>9. ASSUME NEW c \in Calls, Write(c) PROVE Kept
  BY <1>0, <1>9 DEF Write
<1>10. ASSUME NEW c \in Calls, Chmod(c) PROVE Kept
  BY <1>0, <1>10 DEF Chmod
<1>11. ASSUME NEW c \in Calls, Replace(c) PROVE Kept
  BY <1>0, <1>11 DEF Replace
<1>12. ASSUME NEW c \in Calls, Cleanup(c) PROVE Kept
  BY <1>0, <1>12 DEF Cleanup
<1>13. ASSUME NEW c \in Calls, DiskError(c) PROVE Kept
  BY <1>0, <1>13 DEF DiskError
<1>14. ASSUME NEW c \in Calls, Interrupt(c) PROVE Kept
  BY <1>0, <1>14 DEF Interrupt
<1>15. ASSUME NEW c \in Calls, Kill(c) PROVE Kept
  BY <1>0, <1>15 DEF Kill
<1>16. CASE UNCHANGED vars
  BY <1>0, <1>16 DEF vars
<1>17. QED
  BY <1>1, <1>2, <1>3, <1>4, <1>5, <1>6, <1>7, <1>8, <1>9, <1>10, <1>11, <1>12, <1>13, <1>14, <1>15, <1>16 DEF Next, Step

\* However calls of ensure_binary interleave and fail, a call that ends leaves
\* its temporary file behind only when Ctrl-C strikes between mkstemp and the try
\* statement or in the finally, or when the unlink in there fails; and never when
\* it returns a path.
THEOREM TempsRemoved == Spec => TempRemoved
<1> DEFINE Tidy == \A c \in Calls : NoStray(c)
           Ends == \A c \in Calls : LeavesFile(c) => Excused(c)
<1>1. Init => Tidy
  BY DEF Init, NoStray
<1>2. IInv /\ Tidy /\ [Next]_vars => Tidy' /\ [Ends]_vars
  BY StrayStep
<1>3. QED
  BY Invariance, <1>1, <1>2, PTL DEF Spec, TempRemoved
=============================================================================
