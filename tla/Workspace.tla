------------------------------ MODULE Workspace ------------------------------
(***************************************************************************)
(* A local project of the CLI: its folders, the texts and link indexes of  *)
(* its entries, the commands that read and write them in several shells,   *)
(* and the copy of the project on the server that push writes, beside      *)
(* other writers.                                                          *)
(* A path is a sequence of names. A text is the path of the one entry that *)
(* it links to, or NoLink: two texts are the same when their links are.    *)
(* There are texts that do not parse, and texts with a facet that the      *)
(* vocabulary does not have.                                               *)
(* Times are left out: an index says whether its file is older than the    *)
(* text (fresh = FALSE), which is all that IsStale asks.                   *)
(***************************************************************************)
EXTENDS Integers, Sequences, FiniteSets, SequencesExt, Functions

CONSTANTS
    Names,        \* names of entries
    Folders,      \* starter folders, and where entries are assigned
    Texts,        \* what a user may write: paths or NoLink
    Malformed,    \* texts with a block that is not closed, or frontmatter that is no YAML
    Unfit,        \* texts that parse and have a facet outside the vocabulary
    Start,        \* path -> text of the entries that a run starts with
    Pushes,       \* what push is asked for: whether --delta, and the mode for conflicts
    Before,       \* paths at the server from before hashes were kept
    Shells,       \* processes of the CLI
    Budgets       \* bounds: how many creates, moves, edits, reading commands, pushes and writes of others

\* A folder's path has names, and the folders above it are there; an entry is a folder.
Tree == Folders \cup DOMAIN Start

ASSUME WorkspaceAssumption ==
    \A p \in Tree : /\ p \in Seq(Range(p)) /\ p # << >>
                    /\ \A k \in 1 .. Len(p) : SubSeq(p, 1, k) \in Tree

VARIABLES
    dirs,         \* folders under the project root
    creating,     \* names whose create has made the folder and not the files
    md,           \* path -> text, for the folders that have one: the entries
    conf,         \* path -> links.conf, for the folders that have one
    remote,       \* path -> body and hash at the server
    shell,        \* the command of each shell
    left          \* what is left of the budget

vars == <<dirs, creating, md, conf, remote, shell, left>>

NoLink == << >>

Doubts == {"text", "tree", "torn"}

\* A record is added or replaced.
Put(f, p, x) == [q \in DOMAIN f \cup {p} |-> IF q = p THEN x ELSE f[q]]

-----------------------------------------------------------------------------
(* Commands. doubt and since are auxiliary: what others have done to the   *)
(* entry ("text") or to the folders ("tree") since the command, or its     *)
(* present compilation, began.                                             *)

ReadCommand(op, todo) ==
    [op |-> op, pc |-> "next", todo |-> todo, at |-> << >>, text |-> NoLink,
     exists |-> FALSE, bundle |-> << >>, since |-> {}, doubt |-> {}]

Idle == [ReadCommand("none", << >>) EXCEPT !.pc = "done"]

\* What push --delta has read, chosen and packed; rivals: paths that others wrote since it
\* listed the server, hollow: paths whose hash there is that of another text.
Push(delta, conflict) ==
    [op |-> "push", pc |-> "next", delta |-> delta, conflict |-> conflict, local |-> << >>,
     chosen |-> {}, sent |-> << >>, rivals |-> {}, hollow |-> {}]

Ended(s) == shell[s].pc \in {"done", "refused", "pushed"}

Reading(c) == c.op \in {"compile", "show", "links"}

WorkspaceInit ==
    /\ dirs = Folders \cup DOMAIN Start /\ creating = {}
    /\ md = Start /\ conf = << >>
    /\ remote = [p \in Before |-> [text |-> NoLink, hash |-> <<"unset">>]]
    /\ shell = [s \in Shells |-> Idle]
    /\ left \in Budgets

\* The other shells see that something happened to the entry at p.
Noticed(sh, p, what) ==
    [s \in Shells |->
        IF Reading(sh[s]) /\ p \in {sh[s].at} \cup {b[1] : b \in ToSet(sh[s].bundle)}
        THEN [sh[s] EXCEPT !.since = @ \cup {what}, !.doubt = @ \cup {what}]
        ELSE sh[s]]

\* Every index and every command is in doubt about the folders.
TreeNoticed(sh) ==
    [s \in Shells |->
        IF Reading(sh[s])
        THEN [sh[s] EXCEPT !.since = @ \cup {"tree"}, !.doubt = @ \cup {"tree"}]
        ELSE sh[s]]

TreeDoubted(index) ==
    [p \in DOMAIN index |->
        IF index[p].fresh THEN [index[p] EXCEPT !.doubt = @ \cup {"tree"}] ELSE index[p]]

\* The text at p has become newer than its index.
Aged(index, p) ==
    IF p \in DOMAIN index
    THEN [index EXCEPT ![p].fresh = FALSE, ![p].doubt = @ \cap {"torn"}]
    ELSE index

Spend(what) == left[what] > 0 /\ left' = [left EXCEPT ![what] = @ - 1]

Begin(s, command, what) ==
    /\ Ended(s) /\ Spend(what)
    /\ shell' = [shell EXCEPT ![s] = command]

\* What a command has done is kept for the properties, of those they are about.
Refused(c) == IF c.op = "links" THEN [c EXCEPT !.pc = "refused"] ELSE Idle

Refuse(s) ==
    /\ shell' = [shell EXCEPT ![s] = Refused(shell[s])]
    /\ UNCHANGED <<dirs, creating, md, conf, remote, left>>

\* A command fails for what is neither in the texts nor in the folders.
Fail(s) ==
    /\ shell' = [shell EXCEPT ![s] = Idle]
    /\ UNCHANGED <<dirs, creating, md, conf, remote, left>>

-----------------------------------------------------------------------------
(* The user: create, assign, and an editor.                                *)

\* create: a folder at the root,
CreateFolder(n) ==
    /\ Spend("creates") /\ <<n>> \notin dirs
    /\ dirs' = dirs \cup {<<n>>} /\ creating' = creating \cup {n}
    /\ conf' = TreeDoubted(conf) /\ shell' = TreeNoticed(shell)
    /\ UNCHANGED <<md, remote>>

\* then its files, if the folder is still there;
CreateFiles(n) ==
    /\ n \in creating /\ <<n>> \in dirs
    /\ creating' = creating \ {n}
    /\ md' = Put(md, <<n>>, NoLink)
    /\ conf' = TreeDoubted(Aged(conf, <<n>>))
    /\ shell' = TreeNoticed(Noticed(shell, <<n>>, "text"))
    /\ UNCHANGED <<dirs, remote, left>>

\* or it fails or is killed, and leaves the folder.
CreateEnds(n) ==
    /\ n \in creating /\ creating' = creating \ {n}
    /\ UNCHANGED <<dirs, md, conf, remote, shell, left>>

\* Assign: the folder moves with all that is in it; the directory is made if it is missing.
Under(p, src) == IsPrefix(src, p)
Renamed(p, src, dest) ==
    IF Under(p, src) THEN dest \o SubSeq(p, Len(src) + 1, Len(p)) ELSE p
Moved(f, src, dest) ==
    [p \in {Renamed(q, src, dest) : q \in DOMAIN f} |->
        f[CHOOSE q \in DOMAIN f : Renamed(q, src, dest) = p]]

\* MkdirAll: the directory and those above it
Made(directory) == {SubSeq(directory, 1, k) : k \in 1 .. Len(directory)}

\* A folder at the root may be assigned to a directory that has none of its name.
MayAssign(n, directory) ==
    Spend("moves") /\ <<n>> \in dirs /\ Append(directory, n) \notin dirs

Assign(n, directory) ==
    LET src == <<n>> dest == Append(directory, n)
    IN /\ MayAssign(n, directory) /\ ~Under(directory, src)
       /\ dirs' = {Renamed(p, src, dest) : p \in dirs \cup Made(directory)}
       /\ md' = Moved(md, src, dest)
       /\ conf' = TreeDoubted(Moved(conf, src, dest))
       /\ shell' = TreeNoticed(
                     [s \in Shells |->
                        IF Reading(shell[s]) /\ Under(shell[s].at, src)
                        THEN [shell[s] EXCEPT !.since = @ \cup {"text"}, !.doubt = @ \cup {"text"}]
                        ELSE shell[s]])
       /\ UNCHANGED <<creating, remote>>

\* The folder stays where it is when the directory is inside it, or the command is killed.
AssignFails(n, directory) ==
    /\ MayAssign(n, directory)
    /\ dirs' = dirs \cup Made(directory)
    /\ conf' = TreeDoubted(conf) /\ shell' = TreeNoticed(shell)
    /\ UNCHANGED <<creating, md, remote>>

\* A text is saved: with a later time than the index, or with one that is not later (the
\* same tick of the clock, a file restored with its time).
Edit(p, text, later) ==
    /\ Spend("edits") /\ p \in DOMAIN md /\ text # md[p]
    /\ md' = [md EXCEPT ![p] = text]
    /\ conf' = IF later \/ p \notin DOMAIN conf THEN Aged(conf, p)
               ELSE [conf EXCEPT ![p].doubt = @ \cup {"text"}]
    /\ shell' = Noticed(shell, p, "text")
    /\ UNCHANGED <<dirs, creating, remote>>

-----------------------------------------------------------------------------
(* compile, render and export.                                             *)

\* WalkAll: the entries of the project, in an order.
Walk == SetToSeq(DOMAIN md)

Compile(s, todo) == Begin(s, ReadCommand("compile", todo), "reads") /\ UNCHANGED <<dirs, creating, md, conf, remote>>

\* render, and export without links, of one entry or of all
Show(s, todo) == Begin(s, ReadCommand("show", todo), "reads") /\ UNCHANGED <<dirs, creating, md, conf, remote>>

\* export --with-links-all
ExportLinks(s, p) == Begin(s, ReadCommand("links", <<p>>), "reads") /\ UNCHANGED <<dirs, creating, md, conf, remote>>

\* The command has an entry to do,
NextEntry(s) ==
    LET c == shell[s]
    IN /\ c.pc = "next" /\ Reading(c) /\ c.todo # << >>
       /\ shell' = [shell EXCEPT ![s] =
             [c EXCEPT !.at = Head(c.todo), !.todo = Tail(c.todo),
                       !.pc = IF c.op = "compile" THEN "compile" ELSE "load"]]
       /\ UNCHANGED <<dirs, creating, md, conf, remote, left>>

\* or ends: a bundle is written into the folder of its main entry, unless export.Bundle
\* fails, or the writing.
EndReading(s) ==
    LET c == shell[s]
    IN /\ c.pc = "next" /\ Reading(c) /\ c.todo = << >>
       /\ \/ IF c.op = "links" /\ c.bundle[1][1] \notin dirs THEN Refuse(s)
             ELSE /\ shell' = [shell EXCEPT ![s] =
                                 IF c.op = "links" THEN [c EXCEPT !.pc = "done"] ELSE Idle]
                  /\ UNCHANGED <<dirs, creating, md, conf, remote, left>>
          \/ Fail(s)

\* parse.Parse or filter.Filter has an error.
Faulty(text) == text \in Malformed \cup Unfit

\* loadFilteredEntry: the text is read, parsed and filtered (the view of the command may
\* itself be of a facet that the vocabulary does not have),
Load(s) ==
    LET c == shell[s]
    IN /\ c.pc = "load"
       /\ IF c.at \notin DOMAIN md THEN Refuse(s)
          ELSE \/ LET read == [c EXCEPT !.bundle = Append(@, <<c.at, md[c.at]>>)]
                  IN /\ shell' = [shell EXCEPT ![s] =
                           IF Faulty(md[c.at]) THEN Refused(read) ELSE [read EXCEPT !.pc = "check"]]
                     /\ UNCHANGED <<dirs, creating, md, conf, remote, left>>
               \/ c.bundle = << >> /\ Fail(s)

\* and the index is brought up to date when it is stale.
IsMissing(p) == p \notin DOMAIN conf   \* a slip

IsStale(p) == p \notin DOMAIN conf \/ ~conf[p].fresh

Check(s) ==
    /\ shell[s].pc = "check"
    /\ IF shell[s].at \notin DOMAIN md THEN Refuse(s)
       ELSE /\ shell' = [shell EXCEPT ![s].pc =
                           IF IsStale(shell[s].at) THEN "compile" ELSE "loaded"]
            /\ UNCHANGED <<dirs, creating, md, conf, remote, left>>

\* compileOne: the text is read and parsed, the link is looked up in the folders, the index
\* is written.
CompileRead(s) ==
    /\ shell[s].pc = "compile"
    /\ IF shell[s].at \notin DOMAIN md \/ md[shell[s].at] \in Malformed THEN Refuse(s)
       ELSE /\ shell' = [shell EXCEPT ![s].pc = "resolve", ![s].text = md[shell[s].at],
                                      ![s].since = {}]
            /\ UNCHANGED <<dirs, creating, md, conf, remote, left>>

\* FS.Resolve: whether there is a folder, with a text or without
Resolves(text) == text # NoLink /\ text \in dirs

CompileResolve(s) ==
    /\ shell[s].pc = "resolve"
    /\ shell' = [shell EXCEPT ![s].pc = "write", ![s].exists = Resolves(shell[s].text),
                              ![s].since = @ \ {"tree"}]
    /\ UNCHANGED <<dirs, creating, md, conf, remote, left>>

\* A slip: every link is taken for resolved.
IndexTrusting(c) == [to |-> c.text, resolved |-> TRUE, fresh |-> TRUE, doubt |-> c.since]

Index(c) == [to |-> c.text, resolved |-> c.exists, fresh |-> TRUE, doubt |-> c.since]

CompileWrite(s) ==
    /\ shell[s].pc = "write"
    /\ IF shell[s].at \notin dirs THEN Refuse(s)
       ELSE /\ conf' = Put(conf, shell[s].at, Index(shell[s]))
            /\ shell' = [shell EXCEPT ![s].pc = IF shell[s].op = "compile" THEN "next" ELSE "loaded",
                                      ![s].text = NoLink, ![s].exists = FALSE, ![s].since = {}]
            /\ UNCHANGED <<dirs, creating, md, remote, left>>

\* resolveBundleTargets: the resolved link of the main entry's index. A torn index is no JSON.
Targets(index) == IF index.resolved THEN <<index.to>> ELSE << >>

Loaded(s) ==
    LET c == shell[s]
    IN /\ c.pc = "loaded"
       /\ IF c.op = "show" \/ Len(c.bundle) > 1
          THEN /\ shell' = [shell EXCEPT ![s].pc = "next"]
               /\ UNCHANGED <<dirs, creating, md, conf, remote, left>>
          ELSE IF c.at \notin DOMAIN conf THEN Refuse(s)
          ELSE /\ LET index == conf[c.at]
                      read == [c EXCEPT !.doubt = @ \cup index.doubt]
                  IN shell' = [shell EXCEPT ![s] =
                         IF "torn" \in index.doubt THEN [read EXCEPT !.pc = "refused"]
                         ELSE [read EXCEPT !.pc = "next", !.todo = Targets(index)]]
               /\ UNCHANGED <<dirs, creating, md, conf, remote, left>>

\* A command is killed; while it writes the index it may leave the file empty.
Kill(s) ==
    /\ ~Ended(s) /\ Reading(shell[s])
    /\ shell' = [shell EXCEPT ![s] = Idle]
    /\ \/ conf' = conf
       \/ /\ shell[s].pc = "write" /\ shell[s].at \in dirs
          /\ conf' = Put(conf, shell[s].at, [to |-> NoLink, resolved |-> FALSE, fresh |-> TRUE,
                                             doubt |-> Doubts])
    /\ UNCHANGED <<dirs, creating, md, remote, left>>

-----------------------------------------------------------------------------
(* push.                                                                   *)

PushStart(s, delta, conflict) ==
    Begin(s, Push(delta, conflict), "pushes") /\ UNCHANGED <<dirs, creating, md, conf, remote>>

PushPc(s, pc) == shell[s].op = "push" /\ shell[s].pc = pc

\* localEntryHashes
PushHash(s) ==
    /\ PushPc(s, "next")
    /\ shell' = [shell EXCEPT ![s] = IF @.delta THEN [@ EXCEPT !.local = md, !.pc = "list"]
                                     ELSE [@ EXCEPT !.pc = "pack"]]
    /\ UNCHANGED <<dirs, creating, md, conf, remote, left>>

\* A slip: an entry without a hash is taken for unchanged.
ChosenHashed(local) ==
    {p \in DOMAIN local :
        p \notin DOMAIN remote \/ remote[p].hash \notin {<<"unset">>, <<"of", local[p]>>}}

\* classifyDelta: new, or with another hash at the server, or with none
Chosen(local) ==
    {p \in DOMAIN local : p \notin DOMAIN remote \/ remote[p].hash # <<"of", local[p]>>}

\* The hash at the server is that of a text which is not the body.
HashIsOfAnother(p) == remote[p].hash \notin {<<"unset">>, <<"of", remote[p].text>>}

\* ListEntries
PushList(s) ==
    /\ PushPc(s, "list")
    /\ LET chosen == Chosen(shell[s].local)
       IN shell' = [shell EXCEPT ![s].chosen = chosen, ![s].rivals = {},
             ![s].hollow = {p \in DOMAIN remote : HashIsOfAnother(p)},
             ![s].pc = IF chosen = {} THEN "pushed" ELSE "pack"]
    /\ UNCHANGED <<dirs, creating, md, conf, remote, left>>

\* pack.Project, pack.Selected: each folder with all that is in it
Packed(c) ==
    IF c.delta THEN Restrict(md, {p \in DOMAIN md : \E q \in c.chosen : Under(p, q)}) ELSE md

PushPack(s) ==
    /\ PushPc(s, "pack")
    /\ IF ~(shell[s].chosen \subseteq dirs) THEN Refuse(s)
       ELSE /\ shell' = [shell EXCEPT ![s].sent = Packed(shell[s]), ![s].pc = "import"]
            /\ UNCHANGED <<dirs, creating, md, conf, remote, left>>

\* The other pushes see that the server's copies at these paths changed.
Rivalled(sh, paths, but) ==
    [s \in Shells |-> IF sh[s].op = "push" /\ s \notin but
                      THEN [sh[s] EXCEPT !.rivals = @ \cup paths] ELSE sh[s]]

Stored(text) == [text |-> text, hash |-> <<"of", text>>]

\* Import applies all or nothing; with "fail" nothing when an entry is there.
PushImport(s) ==
    LET sent == shell[s].sent
    IN /\ PushPc(s, "import")
       /\ sent # << >>
       /\ shell[s].conflict = "fail" => DOMAIN sent \cap DOMAIN remote = {}
       /\ remote' = [p \in DOMAIN sent \cup DOMAIN remote |->
                        IF p \in DOMAIN sent THEN Stored(sent[p]) ELSE remote[p]]
       /\ shell' = [Rivalled(shell, DOMAIN sent, {s}) EXCEPT ![s].pc = "pushed"]
       /\ UNCHANGED <<dirs, creating, md, conf, left>>

\* An import that fails at the object store keeps the old rows, with the bodies that it
\* has overwritten by then.
PushCutShort(s) ==
    LET sent == shell[s].sent
    IN /\ PushPc(s, "import") /\ shell[s].conflict = "overwrite"
       /\ \E written \in SUBSET (DOMAIN sent \cap DOMAIN remote) :
            /\ written # {}
            /\ remote' = [p \in DOMAIN remote |->
                            IF p \in written THEN [remote[p] EXCEPT !.text = sent[p]] ELSE remote[p]]
            /\ shell' = [Rivalled(shell, written, {s}) EXCEPT ![s] = Idle]
       /\ UNCHANGED <<dirs, creating, md, conf, left>>

\* A push is refused, or fails, or is a dry run: nothing is imported.
PushFails(s) ==
    /\ shell[s].op = "push" /\ ~Ended(s)
    /\ Refuse(s)

\* Another client creates or updates an entry at the server;
RivalWrites(p, text) ==
    /\ Spend("rivals")
    /\ remote' = Put(remote, p, Stored(text))
    /\ shell' = Rivalled(shell, {p}, {})
    /\ UNCHANGED <<dirs, creating, md, conf>>

\* an update of its text and path is refused when the body has been written;
RivalIsRefused(p, text) ==
    /\ Spend("rivals") /\ p \in DOMAIN remote
    /\ remote' = [remote EXCEPT ![p].text = text]
    /\ shell' = Rivalled(shell, {p}, {})
    /\ UNCHANGED <<dirs, creating, md, conf>>

\* an entry is deleted.
RivalDeletes(p) ==
    /\ Spend("rivals") /\ p \in DOMAIN remote
    /\ remote' = Restrict(remote, DOMAIN remote \ {p})
    /\ shell' = Rivalled(shell, {p}, {})
    /\ UNCHANGED <<dirs, creating, md, conf>>

-----------------------------------------------------------------------------
UserNext ==
    \/ \E n \in Names :
          CreateFolder(n) \/ CreateFiles(n) \/ CreateEnds(n)
          \/ \E d \in Folders \cup {<<m>> : m \in Names} : Assign(n, d) \/ AssignFails(n, d)
    \/ \E p \in DOMAIN md, text \in Texts, later \in BOOLEAN : Edit(p, text, later)

ReadNext(s) ==
    \/ Compile(s, Walk)
    \/ Show(s, Walk)
    \/ \E p \in DOMAIN md : Compile(s, <<p>>) \/ Show(s, <<p>>) \/ ExportLinks(s, p)
    \/ NextEntry(s) \/ EndReading(s) \/ Load(s) \/ Check(s) \/ CompileRead(s) \/ CompileResolve(s)
    \/ CompileWrite(s) \/ Loaded(s) \/ Kill(s)

PushNext(s) ==
    \/ \E push \in Pushes : PushStart(s, push[1], push[2])
    \/ PushHash(s) \/ PushList(s) \/ PushPack(s) \/ PushImport(s) \/ PushCutShort(s)
    \/ PushFails(s)

RivalNext ==
    \E p \in DOMAIN md \cup DOMAIN remote :
       \/ \E text \in Texts : RivalWrites(p, text) \/ RivalIsRefused(p, text)
       \/ RivalDeletes(p)

WorkspaceNext ==
    \/ UserNext
    \/ \E s \in Shells : ReadNext(s) \/ PushNext(s)
    \/ RivalNext

WorkspaceSpec == WorkspaceInit /\ [][WorkspaceNext]_vars

-----------------------------------------------------------------------------
(* Properties.                                                             *)

\* An index that render and export take for fresh has the link of the text, and knows
\* whether it leads to a folder, unless the text was saved while the index was compiled or
\* with a time that is not later, folders were created or moved since, or the command that
\* wrote it was killed.
IndexIsTrue ==
    \A p \in DOMAIN conf \cap DOMAIN md :
       conf[p].fresh =>
         /\ conf[p].to = md[p] \/ conf[p].doubt \cap {"text", "torn"} # {}
         /\ conf[p].resolved = Resolves(conf[p].to) \/ conf[p].doubt # {}

\* An export --with-links-all that has read its entry bundles the entry its text links to,
\* with texts that parse and whose facets the vocabulary has; and it is refused (a view of an
\* unknown facet and a PDF that cannot be made or written aside) only when the link leads to
\* a folder that is no entry or one of the two texts does not parse or has another facet;
\* unless folders were created or moved, a text was saved, or the index that it read was
\* already in doubt.
BundleIsOfTheText ==
    \A s \in Shells :
       LET c == shell[s]
       IN c.op = "links" /\ c.bundle # << >> /\ c.doubt = {} =>
            LET text == c.bundle[1][2]
                faulty == \E i \in DOMAIN c.bundle : Faulty(c.bundle[i][2])
            IN /\ c.pc = "done" =>
                    /\ [i \in DOMAIN Tail(c.bundle) |-> Tail(c.bundle)[i][1]]
                       = IF Resolves(text) THEN <<text>> ELSE << >>
                    /\ ~faulty
               /\ c.pc = "refused" => text \in dirs \ DOMAIN md \/ faulty

\* When push --delta has ended, what it did not send is at the server with the text that
\* was hashed, unless others wrote it since the server was listed, or its hash there was
\* that of another text; and what it sent is an entry that differed, or is in the folder
\* of one.
DeltaSkipsForCause ==
    \A s \in Shells :
       LET c == shell[s]
       IN c.op = "push" /\ c.pc = "pushed" /\ c.delta =>
            /\ \A p \in DOMAIN c.local \ (DOMAIN c.sent \cup c.rivals \cup c.hollow) :
                  p \notin c.chosen => p \in DOMAIN remote /\ remote[p].text = c.local[p]
            /\ \A p \in DOMAIN c.sent : \E q \in c.chosen : Under(p, q)
=============================================================================
