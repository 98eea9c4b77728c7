------------------------------- MODULE Preflight -------------------------------
(***************************************************************************)
(* ToolBroker.preflight (dante/tool_broker.py): what is decided about a    *)
(* call of a workspace method before any of it is journaled or started.    *)
(* Three places must agree and are configured separately: the workspace of *)
(* the task, the filesystem scope of the manifest, and the root of the     *)
(* Tools object the handler belongs to.                                    *)
(*                                                                         *)
(* A schema is abstracted to the argument names it requires and allows;    *)
(* the rest of a manifest that is only compared with one good value (no    *)
(* secrets, no network, a version, a well-formed schema) is `sound`.       *)
(* A handler that is not a workspace method is trusted code, left out.     *)
(***************************************************************************)
CONSTANTS
    Dir,            \* directories
    Under,          \* pairs <<d, e>>: d is e or lies below it
    TaskRoot        \* Task.workspace

NoScope == "none"
Relative == "relative"
Permissions == {"read_workspace", "write_workspace"}
Names == {"relative_path", "content", "other"}

ASSUME DirectoryTree ==
    /\ Under \subseteq Dir \X Dir
    /\ \A d \in Dir : <<d, d>> \in Under
    /\ \A d, e, f \in Dir : <<d, e>> \in Under /\ <<e, f>> \in Under => <<d, f>> \in Under
    /\ TaskRoot \in Dir /\ Dir \cap {NoScope, Relative} = {}

\* workspace_method: what each method may do, and the arguments it has.
Takes == [
    ensure_workspace |-> [may |-> "write_workspace", required |-> {}, allowed |-> {}],
    create_directory |-> [may |-> "write_workspace", required |-> {"relative_path"}, allowed |-> {"relative_path"}],
    write_text_file  |-> [may |-> "write_workspace", required |-> {"relative_path", "content"},
                          allowed |-> {"relative_path", "content"}],
    file_exists      |-> [may |-> "read_workspace", required |-> {"relative_path"}, allowed |-> {"relative_path"}],
    list_directory   |-> [may |-> "read_workspace", required |-> {}, allowed |-> {"relative_path"}]]

Handler == [method: DOMAIN Takes, root: Dir]

\* The schema of a manifest: the handler's own, or one that allows more.
Schema(h, loose) ==
    [required |-> IF loose THEN {} ELSE Takes[h.method].required,
     allowed |-> IF loose THEN Names ELSE Takes[h.method].allowed]

\* paths: the permission path_permissions gives to relative_path, or none.
Manifest == [permissions: SUBSET Permissions, risk: {"R0", "R1", "R2"}, sound: BOOLEAN,
             scope: Dir \cup {NoScope}, paths: Permissions \cup {"none"}, loose: BOOLEAN]

\* The arguments given, and the path among them: relative or below some directory,
\* and straight if no "..", drive or link is on the way.
Arguments == [given: SUBSET Names, dir: Dir \cup {Relative}, straight: BOOLEAN]

-----------------------------------------------------------------------------
\* contained_path
Contained(root, args) ==
    args.straight /\ (args.dir = Relative \/ <<args.dir, root>> \in Under)

\* The registered permissions are the handler's, whatever the manifest says.
Required(h) == {Takes[h.method].may}

\* Seeded fault: the permissions of the manifest are not compared with the handler's.
PolicyIgnoresGrants(m, h) ==
    /\ m.risk \in {"R0", "R1"} /\ m.sound
    /\ m.risk = "R0" => "write_workspace" \notin Required(h)

PolicyAllows(m, h) ==
    /\ m.permissions = Required(h)
    /\ m.risk \in {"R0", "R1"} /\ m.sound
    /\ m.risk = "R0" => "write_workspace" \notin Required(h)

\* validate_schema, against the manifest and against the handler.
ValidatesArguments(m, h, args) ==
    \A s \in {Schema(h, m.loose), Schema(h, FALSE)} :
        s.required \subseteq args.given /\ args.given \subseteq s.allowed

\* The paths WorkspaceMethod declares.
HandlerPaths(h) == IF Takes[h.method].allowed = {} THEN "none" ELSE Takes[h.method].may

\* Seeded fault: the root of the handler is not compared with the scope.
ScopesDisagree(m, h, args) ==
    /\ m.scope \in Dir
    /\ <<m.scope, TaskRoot>> \in Under
    /\ m.paths = HandlerPaths(h)
    /\ m.paths # "none" => m.paths \in Required(h)
    /\ m.paths # "none" /\ "relative_path" \in args.given => Contained(m.scope, args)

\* The scope lies in the task's workspace, is the handler's own root, and holds
\* the path.
ScopesAgree(m, h, args) ==
    /\ m.scope \in Dir
    /\ <<m.scope, TaskRoot>> \in Under
    /\ h.root = m.scope /\ m.paths = HandlerPaths(h)
    /\ m.paths # "none" => m.paths \in Required(h)
    /\ m.paths # "none" /\ "relative_path" \in args.given => Contained(m.scope, args)

\* preflight returns None.
Admits(m, h, args) ==
    PolicyAllows(m, h) /\ ValidatesArguments(m, h, args) /\ ScopesAgree(m, h, args)

\* What an admitted call starts: a method, in a root, under the permissions that its
\* manifest grants.
Started ==
    {[method |-> x[1].method, root |-> x[1].root, grants |-> x[2].permissions]
        : x \in {y \in Handler \X Manifest : \E args \in Arguments : Admits(y[2], y[1], args)}}
=============================================================================
