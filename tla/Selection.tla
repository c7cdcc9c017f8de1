------------------------------ MODULE Selection ------------------------------
(*****************************************************************************)
(* The provider, model and reasoning depth of a session, and the file that   *)
(* remembers them (config.rs, provider.rs, models.rs, run.rs of zhive-cli):  *)
(* loading with the overrides of the command line, building the provider,    *)
(* the catalogue of models with its cache, switching, and writing the last   *)
(* choice back when the interface is left.  Several sessions share the file, *)
(* which a user edits as well.                                               *)
(*                                                                           *)
(* A document has a provider section or not; an entry keeps its kind, what   *)
(* its factory finds for it (key, further fields, from the file or the       *)
(* environment), model, depth and window.  The endpoint is external.         *)
(*****************************************************************************)
EXTENDS Naturals, Sequences, FiniteSets, SequencesExt

CONSTANTS
    Sessions,   \* runs of the interface
    Files,      \* documents a user may write
    Args,       \* overrides on the command line
    Builtin,    \* the default provider section
    Endpoint,   \* per listed model, window and depths
    StaticCycle,\* the depths of the built-in table
    MaxEdits    \* bound: edits by the user

VARIABLES
    configFile, \* the document at the path, or Missing
    session,    \* per session, its state
    kept,       \* per provider, the selection last chosen, or Lost
    restKept,   \* the rest of the document as last written in whole, or Lost
    userEdits   \* edits so far

selectionVars == <<configFile, session, kept, restKept, userEdits>>

Missing == [section |-> FALSE]
Lost == [model |-> "?", thinking |-> "?"]
Unset == "unset"
NoWindow == 0
Off == "off"

(* A table made by inserting keys into a document without it. *)
Blank == [kind |-> "", key |-> "none", has |-> {}, model |-> "", thinking |-> Unset, window |-> NoWindow]
FreshSession == [pc |-> "off", cfg |-> Missing, model |-> Unset, thinking |-> Off, dirty |-> FALSE,
                 cached |-> FALSE, cycle |-> <<Off>>, window |-> NoWindow, doc |-> Missing, stale |-> FALSE]

(* The run is over, its state gone. *)
Ended(how) == [FreshSession EXCEPT !.pc = how]

-----------------------------------------------------------------------------
(* The configuration.                                                       *)

(* `Config::load`: a document without the section has the default one. *)
Parsed(file) ==
    IF file.section THEN file
    ELSE [section |-> TRUE, default |-> Builtin.default, entries |-> Builtin.entries,
          ui |-> IF file = Missing THEN Builtin.ui ELSE file.ui]

(* `apply_tui_overrides`: a provider that is not there is ignored, and the  *)
(* model goes to the one that is active by then.                            *)
Overridden(cfg, args) ==
    LET name == IF args.provider \in DOMAIN cfg.entries THEN args.provider ELSE cfg.default
        placed == [cfg EXCEPT !.default = name]
    IN  IF args.model # Unset /\ name \in DOMAIN cfg.entries
        THEN [placed EXCEPT !.entries[name].model = args.model] ELSE placed

(* `resolve_key`: an inline key counts even when it is empty. *)
HasKey(e) == e.key \in {"inline", "empty", "env"}

(* The factories of `builtin_registry`. *)
Buildable(e) ==
    CASE e.kind \in {"anthropic", "openai", "xai", "mistral", "cohere", "google"} -> HasKey(e)
      [] e.kind = "azure" -> HasKey(e) /\ "resource" \in e.has
      [] e.kind = "amazon-bedrock" -> "region" \in e.has
      [] e.kind = "anthropic-aws" -> {"region", "workspace"} \subseteq e.has
      [] e.kind = "google-vertex" -> e.key \in {"inline", "env"} \/ "project" \in e.has
      [] e.kind = "scripted" -> TRUE
      [] OTHER -> FALSE

Active(cfg) == cfg.entries[cfg.default]

(* `provider::build`. *)
Builds(cfg) == cfg.default \in DOMAIN cfg.entries /\ Buildable(Active(cfg))

(* `build_catalog`: only these kinds list their models. *)
Listable(cfg) == Active(cfg).kind \in {"anthropic", "openai", "xai", "mistral"}

(* `active_model`. *)
ActiveModel(cfg) == IF Active(cfg).model = "" THEN "demo" ELSE Active(cfg).model

(* `active_thinking`, and its label parsed. *)
ActiveDepth(cfg) == IF Active(cfg).thinking = Unset THEN Off ELSE Active(cfg).thinking

Clamp(depth, cycle) == IF Contains(cycle, depth) THEN depth ELSE Off
OrElse(a, b) == IF a # NoWindow THEN a ELSE b

Init ==
    /\ configFile \in Files \cup {Missing}
    /\ session = [s \in Sessions |-> FreshSession]
    /\ kept = IF configFile.section
              THEN [n \in DOMAIN configFile.entries |->
                      [model |-> configFile.entries[n].model, thinking |-> configFile.entries[n].thinking]]
              ELSE <<>>
    /\ restKept = configFile
    /\ userEdits = 0

-----------------------------------------------------------------------------
(* A session.                                                               *)

(* A configuration that names no provider that can be built ends the run. *)
Launch(s) ==
    /\ session[s].pc = "off"
    /\ \E args \in Args :
         LET cfg == Overridden(Parsed(configFile), args)
         IN  session' = [session EXCEPT ![s] =
                IF Builds(cfg) THEN [@ EXCEPT !.pc = "boot", !.cfg = cfg] ELSE Ended("refused")]
    /\ UNCHANGED <<configFile, kept, restKept, userEdits>>

(* `resolve_active_model_info`, then `App::new`: the depth is clamped to    *)
(* the model's cycle, live or from the table, without counting as a choice. *)
ResolveInfo(s) ==
    /\ session[s].pc = "boot"
    /\ \E got \in BOOLEAN :
         LET cfg == session[s].cfg
             listed == got /\ Listable(cfg)
             row == listed /\ ActiveModel(cfg) \in DOMAIN Endpoint
             cycle == IF row THEN Endpoint[ActiveModel(cfg)].cycle ELSE StaticCycle
             found == IF row THEN Endpoint[ActiveModel(cfg)].window ELSE NoWindow
         IN  session' = [session EXCEPT ![s] =
                [@ EXCEPT !.pc = "run", !.model = ActiveModel(cfg), !.cached = listed, !.cycle = cycle,
                          !.thinking = Clamp(ActiveDepth(cfg), cycle),
                          !.window = OrElse(Active(cfg).window, found)]]
    /\ UNCHANGED <<configFile, kept, restKept, userEdits>>

(* `list`: from the cache once there is one. *)
ListModels(s) ==
    /\ session[s].pc = "run" /\ Listable(session[s].cfg) /\ ~session[s].cached
    /\ session' = [session EXCEPT ![s].cached = TRUE]
    /\ UNCHANGED <<configFile, kept, restKept, userEdits>>

(* `switch` and `apply_model_switch`: the window is the user's own, the     *)
(* cache's or the hint of the caller.                                       *)
SwitchModel(s) ==
    /\ session[s].pc = "run" /\ Listable(session[s].cfg)
    /\ \E m \in DOMAIN Endpoint, hinted \in BOOLEAN :
         LET found == IF session[s].cached \/ hinted THEN Endpoint[m].window ELSE NoWindow
         IN  session' = [session EXCEPT ![s] =
                [@ EXCEPT !.model = m, !.dirty = TRUE, !.cycle = Endpoint[m].cycle,
                          !.thinking = Clamp(@, Endpoint[m].cycle),
                          !.window = OrElse(Active(session[s].cfg).window, found)]]
    /\ UNCHANGED <<configFile, kept, restKept, userEdits>>

(* `cycle_thinking_effort`. *)
CycleThinking(s) ==
    /\ session[s].pc = "run" /\ Len(session[s].cycle) > 1
    /\ LET cycle == session[s].cycle
           at == CHOOSE i \in DOMAIN cycle : cycle[i] = session[s].thinking
       IN  session' = [session EXCEPT ![s].thinking = cycle[(at % Len(cycle)) + 1], ![s].dirty = TRUE]
    /\ UNCHANGED <<configFile, kept, restKept, userEdits>>

-----------------------------------------------------------------------------
(* Leaving.                                                                 *)

Choice(s) == [model |-> session[s].model,
              thinking |-> IF session[s].thinking = Off THEN Unset ELSE session[s].thinking]
Chosen(cfg, choice) ==
    [cfg EXCEPT !.entries[cfg.default].model = choice.model,
                !.entries[cfg.default].thinking = choice.thinking]

(* An untouched session writes nothing. *)
Quit(s) ==
    /\ session[s].pc = "run"
    /\ session' = [session EXCEPT ![s] =
                     IF @.dirty THEN [@ EXCEPT !.pc = "save", !.cfg = Chosen(@, Choice(s))]
                     ELSE Ended("done")]
    /\ UNCHANGED <<configFile, kept, restKept, userEdits>>

(* `persist_active_selection`, first half: the document is read again. *)
PersistRead(s) ==
    /\ session[s].pc = "save"
    /\ session' = [session EXCEPT ![s] = [@ EXCEPT !.pc = "write", !.doc = configFile, !.stale = FALSE]]
    /\ UNCHANGED <<configFile, kept, restKept, userEdits>>

(* The document with the two keys of the active provider put in, or all of  *)
(* the configuration where there was none.                                  *)
Persisted(doc, cfg) ==
    LET n == cfg.default
        old == IF doc.section /\ n \in DOMAIN doc.entries THEN doc.entries[n] ELSE Blank
        new == [old EXCEPT !.model = Active(cfg).model, !.thinking = Active(cfg).thinking]
    IN  IF doc = Missing THEN cfg
        ELSE [section |-> TRUE, ui |-> doc.ui,
              default |-> IF doc.section THEN doc.default ELSE Builtin.default,
              entries |-> IF doc.section
                          THEN [k \in DOMAIN doc.entries \cup {n} |-> IF k = n THEN new ELSE doc.entries[k]]
                          ELSE [k \in {n} |-> new]]

(* What the sessions, and the user, may now count on. *)
Expect(s) ==
    LET n == session[s].cfg.default
        mine == [model |-> Active(session[s].cfg).model, thinking |-> Active(session[s].cfg).thinking]
        doc == Persisted(session[s].doc, session[s].cfg)
        known == IF session[s].doc = Missing THEN DOMAIN doc.entries ELSE DOMAIN kept \cup (IF session[s].dirty THEN {n} ELSE {})
    IN  /\ kept' = [k \in known |->
                      IF k = n /\ session[s].dirty THEN mine
                      ELSE IF session[s].stale THEN Lost
                      ELSE IF session[s].doc = Missing
                      THEN [model |-> doc.entries[k].model, thinking |-> doc.entries[k].thinking]
                      ELSE kept[k]]
        /\ restKept' = IF session[s].stale THEN Lost ELSE IF session[s].doc = Missing THEN doc ELSE restKept

Wrote(s) == session' = [t \in Sessions |->
                          IF t = s THEN Ended("done")
                          ELSE [session[t] EXCEPT !.stale = (session[t].pc = "write")]]

(* Mutant: the configuration of the start is written, not the document read *)
PersistWriteAll(s) ==
    /\ session[s].pc = "write"
    /\ configFile' = session[s].cfg
    /\ Expect(s) /\ Wrote(s)
    /\ UNCHANGED userEdits

(* The second half, or a failure to write, which is only logged. *)
PersistWrite(s) ==
    /\ session[s].pc = "write"
    /\ configFile' = Persisted(session[s].doc, session[s].cfg)
    /\ Expect(s) /\ Wrote(s)
    /\ UNCHANGED userEdits

PersistFails(s) ==
    /\ session[s].pc \in {"save", "write"}
    /\ session' = [session EXCEPT ![s] = Ended("done")]
    /\ UNCHANGED <<configFile, kept, restKept, userEdits>>

(* The user edits the file; `config init` writes one where there is none. *)
EditFile ==
    /\ userEdits < MaxEdits
    /\ \E file \in Files \cup {Missing} :
         /\ configFile' = file /\ restKept' = file
         /\ kept' = IF file.section
                    THEN [n \in DOMAIN file.entries |->
                            [model |-> file.entries[n].model, thinking |-> file.entries[n].thinking]]
                    ELSE <<>>
    /\ session' = [s \in Sessions |-> [session[s] EXCEPT !.stale = (session[s].pc = "write")]]
    /\ userEdits' = userEdits + 1

Next ==
    \/ \E s \in Sessions :
         \/ Launch(s) \/ ResolveInfo(s) \/ ListModels(s) \/ SwitchModel(s) \/ CycleThinking(s)
         \/ Quit(s) \/ PersistRead(s) \/ PersistWrite(s) \/ PersistFails(s)
    \/ EditFile

Spec == Init /\ [][Next]_selectionVars

-----------------------------------------------------------------------------
(* Sessions and the document have their types. *)
TypeOK ==
    /\ configFile.section => \A n \in DOMAIN configFile.entries : configFile.entries[n].has \subseteq STRING
    /\ \A s \in Sessions :
         /\ session[s].pc \in {"off", "refused", "boot", "run", "save", "write", "done"}
         /\ session[s].pc \in {"boot", "run", "save", "write"} => session[s].cfg.section
         /\ session[s].pc \in {"run", "save"} => Contains(session[s].cycle, session[s].thinking)
    /\ userEdits \in 0..MaxEdits

(* The document holds, for each provider, the model and depth chosen last   *)
(* for it by any session or written by the user, unless a write overlapped  *)
(* another: sessions with different providers keep out of each other's way, *)
(* and a depth that boot clamped is not forgotten.                          *)
ChoicesKept ==
    \A n \in DOMAIN kept :
        kept[n] # Lost =>
            /\ configFile.section /\ n \in DOMAIN configFile.entries
            /\ configFile.entries[n].model = kept[n].model
            /\ configFile.entries[n].thinking = kept[n].thinking

(* And everything else in it stays as it was written: the default, the      *)
(* interface and the other keys of every entry.                             *)
RestUntouched ==
    restKept \notin {Lost, Missing} =>
        /\ configFile # Missing /\ configFile.ui = restKept.ui
        /\ restKept.section =>
             /\ configFile.default = restKept.default
             /\ \A n \in DOMAIN restKept.entries :
                  [configFile.entries[n] EXCEPT !.model = "", !.thinking = ""]
                    = [restKept.entries[n] EXCEPT !.model = "", !.thinking = ""]

(* The window a session compacts by is the user's own, or the one of the    *)
(* model it talks to; never that of an earlier model.                       *)
WindowOfModel ==
    \A s \in Sessions :
        session[s].pc = "run" =>
            session[s].window \in
                IF Active(session[s].cfg).window # NoWindow THEN {Active(session[s].cfg).window}
                ELSE {NoWindow} \cup {Endpoint[m].window : m \in DOMAIN Endpoint \cap {session[s].model}}

(* Selections are remembered, and only they are written. *)
SelectionKept == ChoicesKept /\ RestUntouched /\ WindowOfModel
=============================================================================
