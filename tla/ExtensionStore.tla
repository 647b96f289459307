--------------------------- MODULE ExtensionStore ---------------------------
(***************************************************************************)
(* The extensions of a node: plugins, themes and apps, each a directory    *)
(* under the extensions root with a record of its installation beside it.  *)
(* "aip2p plugins|themes|apps install|link|remove" change them, each a     *)
(* process of its own and without a lock; every install, inspection and    *)
(* start of the host first registers all that is there.                    *)
(*                                                                         *)
(* What a bundle says is data of the model.  Reading the root is one step; *)
(* replacing a directory is not.                                           *)
(***************************************************************************)
EXTENDS Naturals, FiniteSets

CONSTANTS
    Folders,      \* what people have on disk: a function from directories to bundles
    Relative,     \* directories that are named by a relative path
    Builtin,      \* the bundles that come with the program
    Operators,    \* people who run commands
    MaxCommands,  \* bound: commands
    MaxHalts      \* bound: commands that are killed

(* Bundles are records of their kind, those that come with the program stand on each
   other, and "itself" is how a command names the directory it replaces. *)
ASSUME ExtConstants ==
    /\ IsFiniteSet(DOMAIN Folders) /\ "itself" \notin DOMAIN Folders
    /\ MaxCommands \in Nat /\ MaxHalts \in Nat
    /\ \A d \in DOMAIN Folders : {"kind", "id"} \subseteq DOMAIN Folders[d]
    /\ \A b \in Builtin : b.kind = "plugin" =>
           b.base \in {""} \cup {c.id : c \in {p \in Builtin : p.kind = "plugin"}}

VARIABLES
    installed,  \* by kind and id, what is in its directory
    metas,      \* by kind and id, the directory the record names
    folders,    \* directories that are still there
    job,        \* the command of each operator
    commands, halts
extvars == <<installed, metas, folders, job, commands, halts>>

Key(b) == <<b.kind, b.id>>
Keys == {Key(Folders[d]) : d \in DOMAIN Folders}
Absent == [is |-> "absent"]
Partial == [is |-> "partial"]
Copied(b) == [is |-> "copy", bundle |-> b]
LinkTo(d) == [is |-> "link", dir |-> d]
AtRest == [pc |-> "rest"]

ExtInit ==
    /\ installed = [k \in Keys |-> Absent] /\ metas = [k \in Keys |-> "none"]
    /\ folders = DOMAIN Folders /\ job = [u \in Operators |-> AtRest] /\ commands = 0 /\ halts = 0
-----------------------------------------------------------------------------
(* A link is to a directory of somebody, or, by a relative path, to none. *)
Followed(e) ==
    IF e.is # "link" THEN e
    ELSE IF e.dir \in folders \ Relative THEN Copied(Folders[e.dir]) ELSE Absent
(* installedNames leaves out links that lead nowhere; a directory without its manifest
   fails the list it is in. *)
InstalledNames(kind) == {Followed(installed[k]) : k \in {k \in Keys : k[1] = kind}} \ {Absent}
(* ListPlugins, ListThemes, ListApps. *)
Lists(kind) == Partial \notin InstalledNames(kind)
Bundles(kind) == {e.bundle : e \in InstalledNames(kind) \ {Partial}}

IdsOfBundles(s) == {b.id : b \in s}
(* RegisterIntoRegistry: a plugin goes in when the one it is based on is in. *)
WithBased(known, pending) == known \cup {b \in pending : b.base \in IdsOfBundles(known) \cup {""}}
Resolved(known, pending) ==
    LET grow[n \in 0..Cardinality(pending)] == IF n = 0 THEN known ELSE WithBased(grow[n - 1], pending)
    IN grow[Cardinality(pending)]
RegisterIntoRegistry(skip) ==
    LET themes == {b \in Bundles("theme") : Key(b) # skip}
        plugins == {b \in Bundles("plugin") : Key(b) # skip}
        known == Resolved({b \in Builtin : b.kind = "plugin"}, plugins)
    IN [ok |-> (\A kind \in {"theme", "plugin", "app"} : Lists(kind)) /\ plugins \subseteq known,
        plugins |-> known, themes |-> themes \cup {b \in Builtin : b.kind = "theme"},
        apps |-> {b \in Bundles("app") : Key(b) # skip}]

(* A theme supports and requires a plugin under its id or that of its base. *)
Capabilities(b) == {b.id, b.base} \ {""}
ValidateSelection(plugins, theme) ==
    /\ \A p \in plugins : theme.supported = {} \/ Capabilities(p) \cap theme.supported # {}
    /\ theme.required \subseteq UNION {Capabilities(p) : p \in plugins}
(* LoadPlugins and RegisterPlugin for the plugins an app brings, RegisterTheme for its
   themes: bases are looked up before any of them is in, and no id is taken twice. *)
Brings(r, app) ==
    /\ \A p \in app.plugins : p.base \in IdsOfBundles(r.plugins) \cup {""} /\ p.id \notin IdsOfBundles(r.plugins)
    /\ \A t \in app.themes : t.id \notin IdsOfBundles(r.themes)
WithOwn(r, app) == [r EXCEPT !.plugins = @ \cup app.plugins, !.themes = @ \cup app.themes]
(* ValidateAppBundle, and Registry.Build, which also wants each plugin named once. *)
ValidateAppBundle(r, app) ==
    /\ app.uses \subseteq IdsOfBundles(r.plugins)
    /\ \E t \in r.themes : t.id = app.theme /\ ValidateSelection({p \in r.plugins : p.id \in app.uses}, t)
(* host.New for the app of this id: one that comes with the program is taken first. *)
Starts(id) ==
    LET r == RegisterIntoRegistry(<<>>)
        own == {b \in Builtin : b.kind = "app" /\ b.id = id}
        app == CHOOSE b \in r.apps : b.id = id
    IN /\ r.ok
       /\ IF own # {} THEN \E b \in own : ValidateAppBundle(r, b)
          ELSE /\ id \in IdsOfBundles(r.apps) /\ Brings(r, app)
               /\ ValidateAppBundle(WithOwn(r, app), app) /\ ~app.twice
(* "apps inspect" and "apps validate" of an installed app, "plugins inspect" and "themes
   inspect" of what is not part of an app. *)
InspectAppDir(b) ==
    LET r == RegisterIntoRegistry(Key(b)) IN r.ok /\ Brings(r, b) /\ ValidateAppBundle(WithOwn(r, b), b)
InspectApp(id) == \E b \in Bundles("app") : b.id = id /\ InspectAppDir(b)
InspectTheme(id) == \E t \in Bundles("theme") \cup Builtin : t.kind = "theme" /\ t.id = id
InspectPlugin(id) ==
    LET r == RegisterIntoRegistry(<<>>) IN
    r.ok /\ \E p \in r.plugins : p.id = id /\ p.base \in IdsOfBundles(r.plugins) \cup {""}
AppIds == {b.id : b \in {b \in Builtin \cup {Folders[d] : d \in DOMAIN Folders} : b.kind = "app"}}
-----------------------------------------------------------------------------
(* What each kind of install asks before it touches anything. *)
(* Mutant: the plugin it is based on is not looked up. *)
InstallAnyPlugin(b) == LET r == RegisterIntoRegistry(Key(b)) IN r.ok /\ b.id \notin IdsOfBundles(r.plugins)
InstallPlugin(b) ==
    LET r == RegisterIntoRegistry(Key(b)) IN
    r.ok /\ b.base \in IdsOfBundles(r.plugins) \cup {""} /\ b.id \notin IdsOfBundles(r.plugins)
InstallTheme(b) == LET r == RegisterIntoRegistry(Key(b)) IN r.ok /\ b.id \notin IdsOfBundles(r.themes)
InstallApp(b) ==
    LET r == RegisterIntoRegistry(Key(b)) IN
    /\ \A c \in Builtin : c.kind = "app" => c.id # b.id
    /\ r.ok /\ Brings(r, b) /\ ValidateAppBundle(WithOwn(r, b), b)
Accepts(b) ==
    \/ b.kind = "plugin" /\ InstallPlugin(b)
    \/ b.kind = "theme" /\ InstallTheme(b)
    \/ b.kind = "app" /\ InstallApp(b)

(* What a command changes, the others did not see when they asked. *)
Put(u, k, e, next) ==
    /\ installed' = [installed EXCEPT ![k] = e]
    /\ job' = [v \in Operators |-> IF v = u THEN next
                                   ELSE IF job[v] # AtRest THEN [job[v] EXCEPT !.alone = FALSE] ELSE job[v]]

(* Two commands for the same id at a time are left out. *)
Free(k) == \A u \in Operators : job[u] # AtRest => job[u].key # k
BeginInstall(u, d, link) ==
    /\ job[u] = AtRest /\ commands < MaxCommands /\ commands' = commands + 1
    /\ d \in folders /\ Free(Key(Folders[d])) /\ Accepts(Folders[d])
    /\ job' = [job EXCEPT ![u] = [pc |-> "clear", key |-> Key(Folders[d]), dir |-> d, link |-> link, alone |-> TRUE,
                                  started |-> {a \in AppIds : Starts(a)}]]
    /\ UNCHANGED <<installed, metas, folders, halts>>
(* An installed directory can be given too: it is the one that is removed first. *)
BeginOverItself(u, k) ==
    /\ job[u] = AtRest /\ commands < MaxCommands /\ commands' = commands + 1
    /\ Free(k) /\ Followed(installed[k]).is = "copy" /\ Accepts(Followed(installed[k]).bundle)
    /\ job' = [job EXCEPT ![u] = [pc |-> "clear", key |-> k, dir |-> "itself", link |-> FALSE, alone |-> TRUE,
                                  started |-> {a \in AppIds : Starts(a)}]]
    /\ UNCHANGED <<installed, metas, folders, halts>>
(* replaceInstalledPath. *)
ClearOld(u) ==
    /\ job[u].pc = "clear" /\ Put(u, job[u].key, Absent, [job[u] EXCEPT !.pc = IF job[u].link THEN "link" ELSE "copy"])
    /\ UNCHANGED <<metas, folders, commands, halts>>
Link(u) ==
    /\ job[u].pc = "link" /\ Put(u, job[u].key, LinkTo(job[u].dir), [job[u] EXCEPT !.pc = "record"])
    /\ UNCHANGED <<metas, folders, commands, halts>>
(* copyTree, in the order of the names: an app is one before its plugins are there. *)
CopySome(u) ==
    /\ job[u].pc = "copy" /\ job[u].dir \in folders
    /\ LET b == Folders[job[u].dir] IN
       \/ Put(u, job[u].key, Partial, [job[u] EXCEPT !.pc = "copied"])
       \/ /\ b.kind = "app"
          /\ Put(u, job[u].key, Copied([b EXCEPT !.plugins = {}, !.themes = {}]), [job[u] EXCEPT !.pc = "copied"])
    /\ UNCHANGED <<metas, folders, commands, halts>>
CopyRest(u) ==
    /\ job[u].pc = "copied" /\ job[u].dir \in folders
    /\ Put(u, job[u].key, Copied(Folders[job[u].dir]), [job[u] EXCEPT !.pc = "record"])
    /\ UNCHANGED <<metas, folders, commands, halts>>
InstallFails(u) ==
    /\ job[u].pc \in {"copy", "copied"} /\ job[u].dir \notin folders
    /\ job' = [job EXCEPT ![u] = AtRest] /\ UNCHANGED <<installed, metas, folders, commands, halts>>
WriteMetadata(u) ==
    /\ job[u].pc = "record" /\ metas' = [metas EXCEPT ![job[u].key] = job[u].dir]
    /\ job' = [job EXCEPT ![u] = AtRest] /\ UNCHANGED <<installed, folders, commands, halts>>
(* removeInstalled asks nothing. *)
RemoveInstalled(u, k) ==
    /\ job[u] = AtRest /\ commands < MaxCommands /\ commands' = commands + 1
    /\ Free(k) /\ installed[k] # Absent
    /\ Put(u, k, Absent, [pc |-> "forget", key |-> k, alone |-> TRUE])
    /\ UNCHANGED <<metas, folders, halts>>
RemoveMetadata(u) ==
    /\ job[u].pc = "forget" /\ metas' = [metas EXCEPT ![job[u].key] = "none"]
    /\ job' = [job EXCEPT ![u] = AtRest] /\ UNCHANGED <<installed, folders, commands, halts>>

(* A command that is killed, and a directory that its owner deletes. *)
Halt(u) ==
    /\ job[u] # AtRest /\ halts < MaxHalts /\ halts' = halts + 1
    /\ job' = [job EXCEPT ![u] = AtRest] /\ UNCHANGED <<installed, metas, folders, commands>>
DeleteFolder(d) ==
    /\ d \in folders /\ folders' = folders \ {d}
    /\ job' = [v \in Operators |-> IF job[v] # AtRest THEN [job[v] EXCEPT !.alone = FALSE] ELSE AtRest]
    /\ UNCHANGED <<installed, metas, commands, halts>>

ExtNext ==
    \/ \E u \in Operators :
          \/ \E d \in DOMAIN Folders, link \in BOOLEAN : BeginInstall(u, d, link)
          \/ \E k \in Keys : BeginOverItself(u, k) \/ RemoveInstalled(u, k)
          \/ ClearOld(u) \/ Link(u) \/ CopySome(u) \/ CopyRest(u) \/ InstallFails(u)
          \/ WriteMetadata(u) \/ RemoveMetadata(u) \/ Halt(u)
    \/ \E d \in DOMAIN Folders : DeleteFolder(d)
ExtSpec == ExtInit /\ [][ExtNext]_extvars
-----------------------------------------------------------------------------
ExtTypeOK ==
    /\ \A k \in Keys : installed[k] \in {Absent, Partial} \/ installed[k].is \in {"copy", "link"}
    /\ folders \subseteq DOMAIN Folders /\ halts \in 0..MaxHalts /\ commands \in 0..MaxCommands

AppsOf(id) == {b \in Bundles("app") \cup Builtin : b.kind = "app" /\ b.id = id}
(* What an app is made of, and what the plugins it brings are based on, by name. *)
PartsOf(a) == {<<"plugin", p>> : p \in a.uses \cup IdsOfBundles(a.plugins)}
              \cup {<<"theme", t>> : t \in {a.theme} \cup IdsOfBundles(a.themes)}
MadeOf(id) == {<<"app", id>>} \cup UNION {PartsOf(a) : a \in AppsOf(id)}
StandsOn(id) == UNION {{<<"plugin", p.base>> : p \in a.plugins} : a \in AppsOf(id)}
Dangling(u) == job[u].link /\ job[u].dir \in Relative
InstallBreaksNoApp ==
    \A u \in Operators : job[u].pc = "record" /\ job[u].alone =>
        /\ \A a \in job[u].started :
              job[u].key \in MadeOf(a) \/ (Dangling(u) /\ job[u].key \in StandsOn(a)) \/ Starts(a)
        /\ job[u].key[1] = "app" /\ ~Folders[job[u].dir].twice /\ ~Dangling(u) => Starts(job[u].key[2])
ValidAppsStart ==
    \A b \in Bundles("app") : b.twice \/ b \in Builtin \/
        /\ InspectApp(b.id) <=> Starts(b.id)
        /\ Starts(b.id) => /\ \A p \in b.uses \ IdsOfBundles(b.plugins) : InspectPlugin(p)
                           /\ b.theme \in IdsOfBundles(b.themes) \/ InspectTheme(b.theme)

(* An install that no other command overlaps leaves every app that started before able to
   start, apart from apps that have a part of that name: an app may bring a plugin of its
   own and does not start any more once one of the same id is installed for all.  A link by
   a relative path leads nowhere, so that it also stops apps that bring a plugin based on
   what was there.  And an app that was let in starts, unless it names a plugin twice or
   was linked by a relative path.  What "validate" says of an installed app is what the
   host does, whatever was interrupted before, and what an app that starts does not bring
   passes "inspect".  Removing what others stand on, a command that is killed while it
   copies, a linked directory that is deleted, and two installs at a time do break apps
   (extensions/store.go:109, 138, 164, 308, 447, host/host.go:53). *)
InstallBreaksNoOther == InstallBreaksNoApp /\ ValidAppsStart
=============================================================================
