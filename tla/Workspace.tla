------------------------------- MODULE Workspace -------------------------------
(***************************************************************************)
(* tools/ai_cloud_workspace.py: calls of its tools, each in a thread of    *)
(* some process, some of them started by the tool broker, which then keeps *)
(* a receipt of the file (dante/recovery.py).  No lock covers a file from  *)
(* the test whether it exists to its replacement, nor from its publication *)
(* to its receipt, and a process may die anywhere.                         *)
(*                                                                         *)
(* A call is used once, so that call keeps the history of all of them.     *)
(* The tools that only read leave nothing to model, except file_exists:    *)
(* the broker makes a receipt of the file it names.                        *)
(***************************************************************************)
EXTENDS Preflight

CONSTANTS
    Runner,         \* processes
    Call,           \* calls of tools
    File, DirOf,    \* files, and DirOf[f]: the directory f is in
    Data, Images,   \* contents, and those that are images
    Half,           \* part of a content
    Nothing

VARIABLES
    files,          \* files[f]: what is published under that name, and by which call
    part,           \* part[c]: the temporary file of call c
    call            \* call[c]: what c is doing, or Nothing

fvars == <<files, part, call>>

Refused == "refused"
Ended == {"replied", "certified", "raised", "dead"}
Content == [data: Data \cup {Half}, by: Call \cup {Nothing}]

\* dir: where the call works; grants: what the manifest that admitted it permits;
\* found: who had published the file when the call began; past: the calls for that file
\* that were over then; wrote: it has published, or made its directory; sick: the audit
\* log could not be written, or a file not removed; receipt: what the journal certifies.
CallState ==
    [tool: {"write_file", "download_image"} \cup DOMAIN Takes, by: Runner,
     dir: Dir \cup {Refused}, grants: SUBSET Permissions,
     file: File \cup {Refused}, data: Data, over: BOOLEAN,
     found: SUBSET (Call \cup {Nothing}), past: SUBSET Call,
     at: {"probe", "make", "check", "fill", "publish", "clean", "audit", "judge", "report"}
           \cup Ended,
     ok: BOOLEAN, wrote: BOOLEAN, sick: BOOLEAN, receipt: Data \cup {Half, Nothing}]

ASSUME WorkspaceConstants ==
    /\ DirOf \in [File -> Dir] /\ Data # {} /\ Images \subseteq Data
    /\ Refused \notin File \cup Dir
    /\ Half \notin Data /\ Nothing \notin Data \cup {Half} \cup Call \cup Content \cup CallState

FInit ==
    /\ files \in [File -> {Nothing} \cup [data: Data, by: {Nothing}]]
    /\ part = [c \in Call |-> Nothing]
    /\ call = [c \in Call |-> Nothing]

At(c, label) == call[c] # Nothing /\ call[c].at = label
Running(c) == call[c] # Nothing /\ call[c].at \notin Ended
Become(c, r) == call' = [call EXCEPT ![c] = r]
Step(c, label) == Become(c, [call[c] EXCEPT !.at = label])

\* What f is after c has published in it, or removed it.
Put(c, data) == files' = [files EXCEPT ![call[c].file] = [data |-> data, by |-> c]]
Remove(f) == files' = [files EXCEPT ![f] = Nothing]

\* Who has published what is in the file of a call.
Publisher(f) == IF f \in File /\ files[f] # Nothing THEN {files[f].by} ELSE {}

-----------------------------------------------------------------------------
\* _safe_path refuses, or gives a path below the root of the Tools object
\* (different names may give the same file).
Reach(root) == {f \in File : <<DirOf[f], root>> \in Under} \cup {Refused}
Below(root) == {d \in Dir : <<d, root>> \in Under} \cup {Refused}

DirectoryOf(f) == IF f = Refused THEN Refused ELSE DirOf[f]
AnyData == CHOOSE d \in Data : TRUE

\* What the broker starts, after its preflight; write_text_file replaces.
BrokeredIn(h) ==
    IF h.method \in {"write_text_file", "file_exists"}
    THEN {[tool |-> h.method, grants |-> h.grants, dir |-> DirectoryOf(f), file |-> f,
           data |-> data, over |-> TRUE] : f \in Reach(h.root), data \in Data}
    ELSE {[tool |-> h.method, grants |-> h.grants, dir |-> dir, file |-> Refused,
           data |-> AnyData, over |-> TRUE]
             : dir \in IF h.method = "ensure_workspace" THEN {h.root} ELSE Below(h.root)}

Brokered == UNION {BrokeredIn(h) : h \in {h \in Started : h.method # "list_directory"}}

\* The others are called directly, in the workspace of the task.  write_file stands
\* for save_text, save_json and download_file, which differ in the names they
\* accept; download_image never replaces.
Direct(tool, leave) ==
    {[tool |-> tool, grants |-> {}, dir |-> DirectoryOf(f), file |-> f, data |-> data,
      over |-> over] : f \in Reach(TaskRoot), data \in Data, over \in leave}

Requests == Brokered \cup Direct("write_file", BOOLEAN) \cup Direct("download_image", {FALSE})

\* finish_step is still to come.
AwaitsReceipt(c) ==
    /\ At(c, "replied")
    /\ call[c].ok /\ call[c].file \in File
    /\ call[c].tool \in DOMAIN Takes

\* The calls for f that are over.
Past(f) ==
    {d \in Call : call[d] # Nothing /\ call[d].file = f /\ call[d].at \in Ended /\ ~AwaitsReceipt(d)}

FirstStep(r) ==
    CASE r.tool = "ensure_workspace" -> "probe"
      [] r.tool = "create_directory" /\ r.dir # Refused -> "make"
      [] r.tool \in {"write_text_file", "write_file", "download_image"} /\ r.file # Refused -> "check"
      [] OTHER -> "audit"

\* The handler of c is called in a thread of process p.
Enter(c, p) ==
    /\ call[c] = Nothing
    /\ \E r \in Requests :
         Become(c, [tool |-> r.tool, by |-> p, dir |-> r.dir, grants |-> r.grants,
                    file |-> r.file, data |-> r.data, over |-> r.over,
                    found |-> Publisher(r.file), past |-> Past(r.file), at |-> FirstStep(r),
                    ok |-> r.tool = "file_exists" /\ r.file # Refused,
                    wrote |-> FALSE, sick |-> FALSE, receipt |-> Nothing])
    /\ UNCHANGED <<files, part>>

-----------------------------------------------------------------------------
(* _atomic_write, the end of download_file, and the probe.                 *)

\* Seeded fault: overwrite is not looked at.
CheckNot(c) ==
    /\ At(c, "check")
    /\ Step(c, "fill")
    /\ UNCHANGED <<files, part>>

\* target.exists() and not overwrite
Check(c) ==
    /\ At(c, "check")
    /\ Step(c, IF files[call[c].file] # Nothing /\ ~call[c].over THEN "audit" ELSE "fill")
    /\ UNCHANGED <<files, part>>

\* Seeded fault: the content is written under its final name.
FillInPlace(c) ==
    /\ At(c, "fill")
    /\ \/ /\ part[c] = Nothing
          /\ part' = [part EXCEPT ![c] = Half]
          /\ Put(c, Half)
          /\ UNCHANGED call
       \/ /\ part[c] = Half
          /\ part' = [part EXCEPT ![c] = call[c].data]
          /\ Step(c, "publish")
          /\ UNCHANGED files

\* The temporary file is created; its content comes in over seconds.
Fill(c) ==
    /\ At(c, "fill")
    /\ \/ /\ part[c] = Nothing
          /\ part' = [part EXCEPT ![c] = Half]
          /\ UNCHANGED call
       \/ /\ part[c] = Half
          /\ part' = [part EXCEPT ![c] = call[c].data]
          /\ Step(c, "publish")
    /\ UNCHANGED files

\* ensure_workspace writes a probe of its own, reads it and removes it.
Probe(c) ==
    /\ At(c, "probe")
    /\ part' = [part EXCEPT ![c] = call[c].data]
    /\ Become(c, [call[c] EXCEPT !.at = "clean", !.ok = TRUE])
    /\ UNCHANGED files

\* create_directory: the directory is made, unless it is there.
MakeDirectory(c) ==
    /\ At(c, "make")
    /\ \/ Become(c, [call[c] EXCEPT !.at = "audit", !.ok = TRUE, !.wrote = TRUE])
       \/ Step(c, "audit")
    /\ UNCHANGED <<files, part>>

\* The disk is full, the server goes silent, or sends too much or the wrong thing.
Break(c) ==
    /\ call[c] # Nothing /\ call[c].at \in {"probe", "fill", "publish"}
    /\ Step(c, "clean")
    /\ UNCHANGED <<files, part>>

\* os.replace
Publish(c) ==
    /\ At(c, "publish")
    /\ Put(c, part[c])
    /\ part' = [part EXCEPT ![c] = Nothing]
    /\ Become(c, [call[c] EXCEPT !.at = "audit", !.ok = TRUE, !.wrote = TRUE])

\* The finally clause, whose unlink may fail; that of download_file runs after its
\* reply is made.
Clean(c) ==
    /\ At(c, "clean")
    /\ \E gone \in BOOLEAN :
         /\ part' = [part EXCEPT ![c] = IF gone THEN Nothing ELSE @]
         /\ Become(c, [call[c] EXCEPT !.at = "audit", !.ok = @ /\ gone, !.sick = @ \/ ~gone])
    /\ UNCHANGED files

-----------------------------------------------------------------------------
(* The reply.                                                              *)

\* A call is logged before it is answered.  A line that cannot be written makes a
\* success an error; if that cannot be logged either, the tool raises.
Audit(c) ==
    /\ At(c, "audit")
    /\ \/ Step(c, IF call[c].tool = "download_image" THEN "judge" ELSE "replied")
       \/ /\ call[c].ok
          /\ Become(c, [call[c] EXCEPT !.ok = FALSE, !.sick = TRUE])
       \/ ~call[c].ok /\ Step(c, "raised")
    /\ UNCHANGED <<files, part>>

\* Seeded fault: a download that is no image is refused and stays.
JudgeKeeps(c) ==
    /\ At(c, "judge")
    /\ Become(c, [call[c] EXCEPT !.at = "report", !.ok = @ /\ call[c].data \in Images])
    /\ UNCHANGED <<files, part>>

\* Seeded fault: the file is removed, whether or not this call has saved anything in it.
JudgeBlindly(c) ==
    /\ At(c, "judge")
    /\ IF call[c].data \notin Images /\ call[c].file \in File
       THEN Remove(call[c].file) ELSE UNCHANGED files
    /\ Become(c, [call[c] EXCEPT !.at = "report", !.ok = @ /\ call[c].data \in Images])
    /\ UNCHANGED part

\* download_image: what was saved and is no image is removed, whatever the file
\* holds by now; if that fails, it stays.
Judge(c) ==
    /\ At(c, "judge")
    /\ LET wrong == call[c].ok /\ call[c].data \notin Images
       IN \E gone \in BOOLEAN :
            /\ IF wrong /\ gone THEN Remove(call[c].file) ELSE UNCHANGED files
            /\ Become(c, [call[c] EXCEPT !.at = "report", !.ok = @ /\ ~wrong,
                                         !.sick = @ \/ (wrong /\ ~gone)])
    /\ UNCHANGED part

\* download_image logs a second line, outside any try.
Report(c) ==
    /\ At(c, "report")
    /\ \E end \in {"replied", "raised"} : Step(c, end)
    /\ UNCHANGED <<files, part>>

\* receipt digests the file of an ok result as it is now, if it is there.
Digested(c) == IF files[call[c].file] = Nothing THEN Nothing ELSE files[call[c].file].data

\* verified_receipt: a receipt without a file says nothing.
Verifies(c) == call[c].receipt \in {Nothing, Digested(c)}

\* Seeded fault: a call that has not returned in time, and goes on, is certified.
CertifyTimedOut(c) ==
    /\ call[c] # Nothing /\ call[c].at \in {"fill", "replied"}
    /\ call[c].file \in File
    /\ call[c].tool \in DOMAIN Takes
    /\ Become(c, [call[c] EXCEPT !.at = IF @ = "replied" THEN "certified" ELSE @,
                                 !.receipt = Digested(c)])
    /\ UNCHANGED <<files, part>>

\* finish_step, if the broker still waits for the call.
Certify(c) ==
    /\ AwaitsReceipt(c)
    /\ Become(c, [call[c] EXCEPT !.at = "certified", !.receipt = Digested(c)])
    /\ UNCHANGED <<files, part>>

CallStep(c) ==
    \/ Probe(c) \/ MakeDirectory(c) \/ Check(c) \/ Fill(c) \/ Break(c) \/ Publish(c) \/ Clean(c)
    \/ Audit(c) \/ Judge(c) \/ Report(c) \/ Certify(c)

\* Process p ends: its calls are gone, and the broker that waits for some, and what
\* they have left stays.
Halt(p) ==
    /\ call' = [c \in Call |-> IF call[c] # Nothing /\ call[c].by = p /\ (Running(c) \/ AwaitsReceipt(c))
                               THEN [call[c] EXCEPT !.at = "dead"] ELSE call[c]]
    /\ UNCHANGED <<files, part>>

FNext ==
    \/ \E c \in Call : CallStep(c) \/ \E p \in Runner : Enter(c, p)
    \/ \E p \in Runner : Halt(p)

FSpec == FInit /\ [][FNext]_fvars

-----------------------------------------------------------------------------
(* Properties.                                                             *)

\* Every variable keeps its type.
FTypeOK ==
    /\ files \in [File -> Content \cup {Nothing}]
    /\ part \in [Call -> Data \cup {Half, Nothing}]
    /\ call \in [Call -> CallState \cup {Nothing}]

\* Another call has published in the file of c that was under way at the same time, or
\* that began later and may overwrite.
Others(c) ==
    {d \in Call \ {c} :
        /\ call[d] # Nothing /\ call[d].file = call[c].file /\ call[d].wrote
        /\ d \notin call[c].past
        /\ c \in call[d].past => call[d].over}

\* However calls and deaths interleave, nobody ever sees half a content under the
\* name of a file, and a temporary file outlives its call only if its process died
\* or it could not be removed (os.replace and the finally clauses).
WholeOrNothing ==
    /\ \A f \in File : files[f] = Nothing \/ files[f].data # Half
    /\ \A c \in Call : part[c] # Nothing => Running(c) \/ At(c, "dead") \/ call[c].sick

\* A reply can be relied on: after ok the content is there until a call that was under
\* way at the same time, or one that may overwrite, has written that file: no earlier call
\* and no later download takes it away.  After an error the call has left nothing in the
\* workspace, unless the audit log or the removal of a file failed.
ReplyTruthful == \A c \in Call :
    (At(c, "replied") \/ At(c, "certified")) /\ call[c].file \in File =>
        /\ call[c].ok /\ call[c].wrote /\ Others(c) = {} =>
             files[call[c].file] = [data |-> call[c].data, by |-> c]
        /\ ~call[c].ok /\ ~call[c].sick => c \notin Publisher(call[c].file)

\* A call without overwrite, a download_image that removes what it saved included,
\* never takes away what was there when it began: only a call that raced it can
\* lose its file.
NewNamesKept ==
    [][\A c \in Call, f \in File :
         /\ files'[f] # files[f]
         /\ <<call[c], part[c]>>' # <<call[c], part[c]>> /\ ~call[c].over
         => Publisher(f) \cap call[c].found = {}]_fvars

\* A receipt certifies what the call did, and verifies until a call that was under way at
\* the same time, or one that may overwrite, has published in that file: a later call
\* without overwrite does not spoil it, even one that removes what it has saved.
ReceiptStands == \A c \in Call :
    /\ call[c] # Nothing
    /\ call[c].at = "certified" \/ call[c].receipt # Nothing
    /\ Others(c) = {}
    => Verifies(c) /\ (call[c].wrote => call[c].receipt = call[c].data)

\* What the broker starts works in the workspace of its task, and it changes something
\* there only if its manifest grants that, although task, manifest and tool are
\* configured apart (a directory, the probe, a temporary file, a published one).
Confined == \A c \in Call :
    call[c] # Nothing /\ call[c].tool \in DOMAIN Takes =>
        /\ call[c].dir \in Dir => <<call[c].dir, TaskRoot>> \in Under
        /\ call[c].file \in File => <<DirOf[call[c].file], TaskRoot>> \in Under
        /\ part[c] # Nothing \/ call[c].wrote => "write_workspace" \in call[c].grants
=============================================================================
