--------------------------- MODULE CommandLanguage ---------------------------
(***************************************************************************)
(* A line typed at the command line, from its first word to what becomes   *)
(* of it: completion offers verbs and options (CommandGrammar), App.tsx    *)
(* routes the line to a handler, the handler translates it                 *)
(* (CommandParser), the client builds the request (FitRequest) and the     *)
(* runtime checks it (ModelRules).  Four descriptions of one language, in  *)
(* two programming languages, which agree but where the properties say.    *)
(***************************************************************************)
EXTENDS ModelRules

CONSTANTS
  MaxWords,      \* bound: the words of a line after its verb
  MaxOptions     \* bound: the options of a line
ASSUME BoundsAreNumbers == MaxWords \in Nat /\ MaxOptions \in Nat

VARIABLES
  line,          \* what has been typed
  outcome,       \* what Enter made of it
  active         \* whether a dataset is active
vars == <<line, outcome, active>>

Blank == [verb |-> "", words |-> << >>, options |-> NoOptions]
Typing == [kind |-> "typing"]

-----------------------------------------------------------------------------
(* What is typed: a word that means something to the verb or any other,    *)
(* and for each option the values its readers tell apart.                  *)
WordsFor(verb) ==
  CASE verb \in {"sur", "reg3"} -> {"x", "(y x)"}
    [] verb = "svy" -> {"x", "ols", "logit", "probit", "poisson"}
    [] verb = "diagnostic" -> {"x"} \cup Tests
    [] verb = "reshape" -> {"x", "long", "wide"}
    [] verb = "generate" -> {"x", "="}
    [] OTHER -> {"x"}

Values ==
  [quantile |-> {"0", "0.5", "1"}, start |-> {"4", "0 1 5"}, trim |-> {"0", "0.5"},
   grid |-> {"4", "0 1 5", "1 0 5", "1e16 10000000000000002 5", "-1e308 1e308 5"},
   maxiter |-> {"0", "4", "3000000000"}, tol |-> {"0", "1"}, arch |-> {"0", "4", "13", "3000000000"},
   garch |-> {"1", "5 4", "c c"}, ar |-> {"1", "c"}, i |-> {"1"}, ma |-> {"1"},
   endogenous |-> {"c", "c|c"}, instruments |-> {"c", "c|c"}, cluster |-> {"c", "id"}]
ValuesFor(verb, o) ==
  IF o \in {"robust", "noconstant"} THEN {}
  ELSE IF o = "lags" THEN IF verb = "xtabond" THEN {"4", "2 4", "5 4", "c c"} ELSE {"0", "4", "3000000000"}
  ELSE IF o \in DOMAIN Values THEN Values[o]
  ELSE {"c"} \cup IF o \in Offered(verb) THEN Grammars[verb].options[o].values ELSE {}
OptionsFor(verb) == Offered(verb) \cup IF verb = "svy" THEN {"fpc", "robust"} ELSE {}

ChooseVerb ==
  /\ outcome = Typing /\ line = Blank
  /\ \E verb \in CommandList \cup {"import", "nonsense"} : line' = [Blank EXCEPT !.verb = verb]
  /\ UNCHANGED <<outcome, active>>

AddWord ==
  /\ outcome = Typing /\ line.verb # "" /\ line.options = NoOptions /\ Len(line.words) < MaxWords
  /\ \E word \in WordsFor(line.verb) : line' = [line EXCEPT !.words = Append(@, word)]
  /\ UNCHANGED <<outcome, active>>

AddOption ==
  /\ outcome = Typing /\ line.verb \in CommandList /\ Cardinality(DOMAIN line.options) < MaxOptions
  /\ \E o \in OptionsFor(line.verb) \ DOMAIN line.options :
       \E value \in ValuesFor(line.verb, o) \cup {Bare} :
         line' = [line EXCEPT !.options = o :> value @@ @]
  /\ UNCHANGED <<outcome, active>>

-----------------------------------------------------------------------------
(* executeCommand of App.tsx.  Some verbs have a handler of their own;     *)
(* nearly all the others need an active dataset.                           *)
OwnVerbs == {"use", "project", "trash", "datahistory", "save", "load", "runs", "rerun",
             "export", "compare"}
requiresActiveDataset(verb) == verb \notin OwnVerbs \cup DOMAIN PostestVerbs
ViewVerbs == DOMAIN LookVerbs \ {"use"}

Command == Parsed(line).command
Entered == outcome = Typing /\ line.verb # ""
Routed == Entered /\ Parsed(line).kind = "command"
ToDefault == Routed /\ Command.verb \notin OwnVerbs
                    /\ (requiresActiveDataset(Command.verb) => active)
Ends(result) == outcome' = result /\ UNCHANGED line

EnterUnknown ==
  /\ Entered /\ Parsed(line).kind = "refused"
  /\ Ends(Parsed(line)) /\ UNCHANGED active

(* What these do is in Workspace and MessageStore; use activates a         *)
(* dataset, and a project that is opened has one or not.                   *)
EnterOwn ==
  /\ Routed /\ Command.verb \in OwnVerbs
  /\ Ends([kind |-> "own"])
  /\ \/ UNCHANGED active
     \/ Command.verb = "use" /\ active' = TRUE
     \/ Command.verb \in {"project", "load"} /\ active' \in BOOLEAN

EnterWithoutData ==
  /\ Routed /\ requiresActiveDataset(Command.verb) /\ ~active
  /\ Ends(Refused("no data")) /\ UNCHANGED active

handleDataView ==
  /\ ToDefault /\ Command.verb \in ViewVerbs
  /\ Ends([kind |-> "view"]) /\ UNCHANGED active

handleDiagnostic ==
  /\ ToDefault /\ IsDiagnosticVerb(Command.verb)
  /\ \/ Ends(DiagnosticSpec(Command))
     \/ DiagnosticSpec(Command).kind = "diagnostic" /\ Ends(Refused("no model"))
  /\ UNCHANGED active

handlePostest ==
  /\ ToDefault /\ Command.verb \in DOMAIN PostestVerbs
  /\ Ends(Refused("later")) /\ UNCHANGED active

handleDataOp ==
  /\ ToDefault /\ Command.verb \in DataOpVerbs
  /\ Ends(DataOp(Command)) /\ UNCHANGED active

(* fitModel: the runtime hands only a request it accepts to Julia.         *)
IsModel(verb) ==
  verb \notin ViewVerbs \cup DOMAIN PostestVerbs \cup DataOpVerbs /\ ~IsDiagnosticVerb(verb)
handleModel ==
  /\ ToDefault /\ IsModel(Command.verb)
  /\ LET spec == ModelSpec(Command)
         request == Request(spec)
     IN Ends(IF spec.kind # "spec" THEN spec
             ELSE [kind |-> "request", request |-> request, verdict |-> Validated(request)])
  /\ UNCHANGED active

Clear ==
  /\ outcome # Typing
  /\ line' = Blank /\ outcome' = Typing /\ UNCHANGED active

Init == line = Blank /\ outcome = Typing /\ active = FALSE
Next ==
  \/ ChooseVerb \/ AddWord \/ AddOption
  \/ EnterUnknown \/ EnterOwn \/ EnterWithoutData
  \/ handleDataView \/ handleDiagnostic \/ handlePostest \/ handleDataOp \/ handleModel
  \/ Clear
Spec == Init /\ [][Next]_vars

-----------------------------------------------------------------------------
(* An option that was given reaches the request: as a parameter, as the    *)
(* vcov, cluster or weights of the fit, in its formula, or by deciding the *)
(* type of the model.                                                      *)
Arrives(c, request, o) ==
  \/ \E p \in DOMAIN request.params :
       \/ request.params[p].of = o
       \/ request.params[p].of = "ar i ma" /\ o \in {"ar", "i", "ma"}
  \/ o = "robust" /\ request.robust
  \/ o = "cluster" /\ request.cluster
  \/ o = "weights" /\ request.weights
  \/ o = "noconstant" /\ request.formula = "without constant"
  \/ o = "method" /\ request.type \in Systems
  \/ o = "model" /\ request.type \in Weighted

(* What is left out: the vcov of the types the protocol says it is not     *)
(* forwarded for, an option another one supersedes, a value that is the    *)
(* default or none at all; and what completion offers and nothing reads.   *)
NoVcov ==
  {"panel", "dynamic_panel_gmm", "sur", "spatial_error", "spatial_slx", "spatial_sdem",
   "spatial_sac", "quantile", "nls", "threshold"} \cup Events \cup Causal \cup TimeSeries
LeftOut(c, type, o) ==
  CASE o = "robust" -> type \in NoVcov
    [] o = "noconstant" -> Len(c.words) < 2
    [] o = "lags" -> FirstInt(c.options[o]) <= 0
    [] o = "deterministic" -> c.options[o] = "constant"
    [] o \in {"maxiter", "tol"} -> FirstInt(c.options[o]) <= 0 \/ type = "arch"
    [] o = "weights" -> type \in Weighted /\ Given(c, "spatial_weights")
    [] o = "spatial_id" -> Given(c, "id")
    [] o = "method" -> type = "panel_iv"
    [] o = "cluster" -> type \in {"sur", "quantile", "nls", "threshold"} \cup Weighted
    [] OTHER -> FALSE

Sent == outcome.kind = "request"
OptionsArrive ==
  Sent => \A o \in DOMAIN line.options :
            (o \in {"robust", "noconstant"} \/ Given(line, o))
              => Arrives(line, outcome.request, o) \/ LeftOut(line, outcome.request.type, o)

(* A request carries no parameter of another family of models.             *)
OnlyFamilyParams ==
  Sent => DOMAIN outcome.request.params \subseteq SpecParams(outcome.request.type)

(* The parser checks values "as the runtime does" (commandParser.ts:507):  *)
(* the runtime refuses the value of no other parameter than those the      *)
(* parser leaves to it.  It takes any number of equations, the runtime     *)
(* eight; it has no upper bound for four integers, which the runtime reads *)
(* as i32; and it does not look at the points it expands a grid to, which  *)
(* the runtime wants finite and increasing.                                *)
LeftToTheRuntime == {"gmm_weight", "dpgmm_style", "instrument_lags", "order", "equations"}
Unbounded == {"lags", "garch_max_iter", "sur_max_iter", "nls_max_iter"}
LostInExpansion(params) ==
  {p \in DOMAIN params \cap {"threshold_grid"} :
     Overflows(Numbers(params[p].text)) \/ TooFine(Numbers(params[p].text))}
RuntimeAgrees ==
  Sent /\ outcome.verdict.kind \in {"unreadable", "invalid"}
    => outcome.verdict.fields
         \subseteq LeftToTheRuntime \cup (TooWide(outcome.request.params) \cap Unbounded)
                  \cup LostInExpansion(outcome.request.params)

(* Where completion names no missing option (getMissingRequiredOptions)   *)
(* and every option has a value, no handler refuses for want of one.  A    *)
(* name found anywhere after the comma counts as given, so a column called *)
(* id does too.                                                            *)
MissingOptions(c) == Required(c.verb) \ (DOMAIN c.options \cup {c.options[o] : o \in DOMAIN c.options})
HintIsRight ==
  /\ outcome = Refused("missing")
  /\ \A o \in DOMAIN line.options : line.options[o] \notin {Bare, "id"}
  => MissingOptions(line) # {}

(* docs/quality/manual-golden-command-coverage.md gives every command a    *)
(* line to verify it with: entered once the data is there, it is fitted.   *)
Line(verb, words, options) ==
  [verb |-> verb, words |-> [i \in 1..words |-> "x"], options |-> options]
WithColumns(options) == [o \in options |-> "c"]
Documented ==
  {Line(verb, 3, NoOptions) : verb \in {"regress", "gls", "bayesreg", "stcox"} \cup DOMAIN DiscreteVerbs}
  \cup {Line("did", 1, WithColumns({"id", "time", "treat", "post"})),
        Line("eventstudy", 1, WithColumns({"id", "time", "treat", "eventtime"})),
        Line("ipw", 3, WithColumns({"treat", "outcome"})),
        Line("coint", 2, WithColumns({"time"})),
        Line("dfuller", 1, WithColumns({"time"})),
        Line("arch", 1, "arch" :> "1" @@ WithColumns({"time"}))}
DocumentedCommandsAreFit ==
  line \in Documented /\ active /\ outcome # Typing => Sent /\ outcome.verdict.kind = "fit"

=============================================================================
