-------------------------------- MODULE Prompts --------------------------------
(***************************************************************************)
(* The prompt templates and their versions (api/v1/endpoints/prompts.py):   *)
(* one template name, under which requests create, seed, update, restore    *)
(* and delete.  A request reads the template, decides, and commits; another  *)
(* may commit in between.  The name is unique; version numbers are not.     *)
(*                                                                          *)
(* Texts are named after the request that wrote them.  One template lives   *)
(* once: what is created under the name of a deleted one is another row.    *)
(***************************************************************************)
EXTENDS Naturals, Sequences, FiniteSets

CONSTANTS
    Request,    \* requests, each of which may bring a text of its own
    MaxVersion, \* bound on the version number
    None

PromptsAssumption ==
    /\ MaxVersion \in Nat \ {0}
    /\ None \notin [version : 1 .. MaxVersion, text : Request]

VARIABLES
    pc,       \* where each request is
    read,     \* the template as each request under way has read it
    template, \* the row: its version and text, or None
    history,  \* the rows of versions, in the order of their commits
    saved,    \* texts whose requests were told they are saved (history)
    races,    \* commits over a template that had changed since it was read (history)
    deleted   \* the template has been deleted (history)

vars == <<pc, read, template, history, saved, races, deleted>>

Template == [version : 1 .. MaxVersion, text : Request]

TypeOK ==
    /\ pc \in [Request -> {"idle", "create", "version", "update", "restore", "done", "failed"}]
    /\ read \in [Request -> Template \cup {None}]
    /\ template \in Template \cup {None}
    /\ history \in Seq(Template)
    /\ saved \subseteq Request
    /\ races \in Nat
    /\ deleted \in BOOLEAN

Init ==
    /\ pc = [r \in Request |-> "idle"]
    /\ read = [r \in Request |-> None]
    /\ template = None /\ history = <<>>
    /\ saved = {} /\ races = 0 /\ deleted = FALSE

Goto(r, place) == pc' = [pc EXCEPT ![r] = place]

---------------------------------------------------------------------------
(* Creation.                                                               *)

\* create_prompt finds no template of the name.
Create(r) ==
    /\ pc[r] = "idle" /\ template = None /\ ~deleted
    /\ Goto(r, "create")
    /\ UNCHANGED <<read, template, history, saved, races, deleted>>

\* The row is committed, if no other has been.
CommitCreate(r) ==
    /\ pc[r] = "create" /\ ~deleted
    /\ IF template = None
       THEN /\ template' = [version |-> 1, text |-> r]
            /\ read' = [read EXCEPT ![r] = template']
            /\ Goto(r, "version")
       ELSE Goto(r, "failed") /\ UNCHANGED <<read, template>>
    /\ UNCHANGED <<history, saved, races, deleted>>

\* Its first version is committed afterwards; that may fail, also because the template
\* is gone.
CommitVersion(r) ==
    /\ pc[r] = "version"
    /\ \/ /\ template # None
          /\ history' = Append(history, read[r])
          /\ saved' = saved \cup {r}
          /\ Goto(r, "done")
       \/ Goto(r, "failed") /\ UNCHANGED <<history, saved>>
    /\ read' = [read EXCEPT ![r] = None]
    /\ UNCHANGED <<template, races, deleted>>

\* seed_default_prompts: the template and its version in one transaction.
Seed(r) ==
    /\ pc[r] = "idle" /\ template = None /\ ~deleted
    /\ template' = [version |-> 1, text |-> r]
    /\ history' = Append(history, template')
    /\ saved' = saved \cup {r}
    /\ Goto(r, "done")
    /\ UNCHANGED <<read, races, deleted>>

---------------------------------------------------------------------------
(* Changes.                                                                *)

\* update_prompt and restore_prompt_version read the template.
ReadTemplate(r) ==
    /\ pc[r] = "idle" /\ template # None
    /\ template.version < MaxVersion
    /\ \E place \in {"update", "restore"} : Goto(r, place)
    /\ read' = [read EXCEPT ![r] = template]
    /\ UNCHANGED <<template, history, saved, races, deleted>>

\* What SQLAlchemy writes: a column set to the value that was read is not written.
Written(r, text) ==
    [version |-> read[r].version + 1,
     text |-> IF text = read[r].text THEN template.text ELSE text]

\* Mutant: a change keeps no version.
ReplaceUnkept(r, text) ==
    IF template = None
    THEN Goto(r, "failed") /\ UNCHANGED <<template, history, saved, races>>
    ELSE /\ template' = Written(r, text)
         /\ saved' = saved \cup {template'.text}
         /\ races' = races + (IF template = read[r] THEN 0 ELSE 1)
         /\ Goto(r, "done")
         /\ UNCHANGED history

\* The state that was read becomes a version, the template gets the next number and
\* the new text.  A template deleted since fails the commit.
Replace(r, text) ==
    IF template = None
    THEN Goto(r, "failed") /\ UNCHANGED <<template, history, saved, races>>
    ELSE /\ template' = Written(r, text)
         /\ history' = Append(history, read[r])
         /\ saved' = saved \cup {template'.text}
         /\ races' = races + (IF template = read[r] THEN 0 ELSE 1)
         /\ Goto(r, "done")

\* An update with a new text.  (One of other fields only is a restore of the current
\* text: UPDATE leaves the column as it is.)
Update(r) ==
    /\ pc[r] = "update"
    /\ Replace(r, r)
    /\ read' = [read EXCEPT ![r] = None]
    /\ UNCHANGED deleted

\* The rows of one number.  restore_prompt_version and get_prompt_version_detail read
\* them with scalar_one_or_none, which raises if there are several.
Numbered(v) == {i \in 1 .. Len(history) : history[i].version = v}

\* A version is restored if it has exactly one row.
Restore(r, v) ==
    /\ pc[r] = "restore"
    /\ IF Cardinality(Numbered(v)) = 1
       THEN \E i \in Numbered(v) : Replace(r, history[i].text)
       ELSE Goto(r, "failed") /\ UNCHANGED <<template, history, saved, races>>
    /\ read' = [read EXCEPT ![r] = None]
    /\ UNCHANGED deleted

\* delete_prompt; the versions go with it.
Delete(r) ==
    /\ pc[r] = "idle" /\ template # None
    /\ template' = None /\ history' = <<>>
    /\ deleted' = TRUE
    /\ Goto(r, "done")
    /\ UNCHANGED <<read, saved, races>>

Next ==
    \E r \in Request :
        \/ Create(r) \/ CommitCreate(r) \/ CommitVersion(r) \/ Seed(r)
        \/ ReadTemplate(r) \/ Update(r)
        \/ \E v \in 1 .. MaxVersion : Restore(r, v)
        \/ Delete(r)

Spec == Init /\ [][Next]_vars

---------------------------------------------------------------------------
(* Properties.                                                             *)

Kept == {t \in saved :
            \/ template # None /\ template.text = t
            \/ \E i \in 1 .. Len(history) : history[i].text = t}

\* A text that was saved is the template's or that of a version, so that it can be
\* looked up again (update_prompt: a snapshot is made before every change): each
\* commit over a template that had changed since it was read costs one text at most.
\* Without such races versions of one number have one text, too: the first is listed
\* again with the first change, but with the same text.
HistoryKeepsTexts ==
    ~deleted =>
        /\ Cardinality(saved \ Kept) <= races
        /\ races = 0 =>
              \A i, j \in 1 .. Len(history) :
                  history[i].version = history[j].version => history[i].text = history[j].text

(***************************************************************************)
(* The inductive invariant: a request that is to write has read a template;  *)
(* nothing was saved before there was one; and as long as nobody has raced,   *)
(* what is in the history, what has been read and the template itself have    *)
(* one text for each number, the template the highest.                        *)
(***************************************************************************)
ReadInv ==
    \A r \in Request :
        /\ pc[r] \in {"version", "update", "restore"} => read[r] # None
        /\ pc[r] = "version" => read[r].text = r
        /\ pc[r] \in {"update", "restore"} => read[r].version < MaxVersion

FreshInv ==
    ~deleted /\ template = None =>
        history = <<>> /\ saved = {} /\ \A r \in Request : read[r] = None

Known ==
    {template} \cup {history[i] : i \in 1 .. Len(history)}
        \cup {read[r] : r \in {q \in Request : read[q] # None}}

NumberInv ==
    ~deleted /\ template # None /\ races = 0 =>
        /\ \A k \in Known : k.version <= template.version
        /\ \A j, k \in Known : j.version = k.version => j.text = k.text

LostInv ==
    /\ IsFiniteSet(saved)
    /\ ~deleted => Cardinality(saved \ Kept) <= races

IInv == TypeOK /\ ReadInv /\ FreshInv /\ NumberInv /\ LostInv
=============================================================================
