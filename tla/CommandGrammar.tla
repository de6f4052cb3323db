--------------------------- MODULE CommandGrammar ---------------------------
(***************************************************************************)
(* services/commandGrammar.ts: the verbs of the command line, the words    *)
(* each takes and the options completion offers for it.  Labels,           *)
(* descriptions and comma nodes are left out: no decision reads them.      *)
(***************************************************************************)
EXTENDS FiniteSets, Sequences

(* Tables are put together as with the operators of module TLC, written    *)
(* out here because the provers do not know those: what the first table    *)
(* has goes before what the second one has.                                *)
Layered(tables) ==
  LET above == tables[1]
      below == tables[2]
  IN [k \in DOMAIN above \cup DOMAIN below |-> IF k \in DOMAIN above THEN above[k] ELSE below[k]]
above @@ below == Layered(<<above, below>>)
key :> value == [k \in {key} |-> value]

(* A word of a command: what kind it is, whether it must be there, whether *)
(* it may be repeated, and the values it is limited to ({} for any).       *)
Word(kind, required, multiple, values) ==
  [kind |-> kind, required |-> required, multiple |-> multiple, values |-> values]
Dep           == Word("depvar", TRUE, FALSE, {})
One           == Word("indepvar", TRUE, FALSE, {})
Many          == Word("indepvar", TRUE, TRUE, {})
Maybe         == Word("indepvar", FALSE, FALSE, {})
Anything      == Word("indepvar", FALSE, TRUE, {})
Choice(vals)  == Word("indepvar", TRUE, FALSE, vals)
MayChoose(vals) == Word("indepvar", FALSE, FALSE, vals)

(* Options: whether one is required and the values it is limited to.       *)
Option(required, values) == [required |-> required, values |-> values]
Free(names)   == [o \in names |-> Option(FALSE, {})]
Must(names)   == [o \in names |-> Option(TRUE, {})]
OneOf(o, vals)     == o :> Option(FALSE, vals)
MustBeOneOf(o, vals) == o :> Option(TRUE, vals)
Flag(o)       == OneOf(o, {"true"})
NoOptions     == Free({})

Verb(category, words, options) ==
  [category |-> category, words |-> words, options |-> options]
Data(words, options) == Verb("data", words, options)
Model(extra) ==
  Verb("model", <<Dep, Many>>, Flag("robust") @@ Free({"cluster"}) @@ extra)

-----------------------------------------------------------------------------
LookVerbs ==
  [use       |-> Data(<<One>>, NoOptions),
   describe  |-> Data(<<Anything>>, NoOptions),
   browse    |-> Data(<<Anything>>, NoOptions),
   summarize |-> Data(<<Anything>>, Flag("detail")),
   tabulate  |-> Data(<<One>>, NoOptions)]

TransformVerbs ==
  [filter         |-> Data(<<Many>>, NoOptions),
   impute_missing |-> Data(<< >>, NoOptions),
   generate       |-> Data(<<Many>>, NoOptions),
   replace        |-> Data(<<One>>, Must({"value", "if"})),
   drop           |-> Data(<<Many>>, NoOptions),
   keep           |-> Data(<<Many>>, NoOptions),
   rename         |-> Data(<<One, One>>, NoOptions),
   sort           |-> Data(<<Many>>, NoOptions),
   merge          |-> Data(<<One>>, Must({"on"})
                         @@ OneOf("how", {"inner", "left", "right", "outer"})),
   reshape        |-> Data(<<Choice({"long", "wide"}), Many>>, Must({"id", "time"})),
   collapse       |-> Data(<<Many>>, Must({"by"})
                         @@ MustBeOneOf("stats", {"mean", "sum", "sd", "min", "max", "count"}))]

Instrumented == Free({"endogenous", "instruments"})
Weighting    == OneOf("weight", {"one_step", "two_step"})
SingleVerbs ==
  [regress   |-> Model(Flag("noconstant") @@ Free({"weights"})),
   qreg      |-> Model(Free({"quantile"}) @@ Flag("noconstant")),
   nls       |-> Model(OneOf("family", {"exp_growth"}) @@ Must({"start"})
                    @@ Free({"maxiter", "tol"}) @@ Flag("noconstant")),
   threg     |-> Model(Must({"qvar", "grid"}) @@ Free({"trim"}) @@ Flag("noconstant")),
   ivregress |-> Model(Instrumented),
   gmm       |-> Model(Instrumented @@ Weighting)]

SystemVerbs ==
  [sur  |-> Verb("model", <<Many>>, Flag("robust") @@ Free({"cluster", "maxiter", "tol"})),
   reg3 |-> Verb("model", <<Many>>, Must({"endogenous", "instruments"})
               @@ OneOf("method", {"3sls", "twostep"}))]

PanelVerbs ==
  [gls     |-> Model(Free({"weights"})),
   xtreg   |-> Model(Must({"id", "time"})
                  @@ MustBeOneOf("method", {"fe", "re", "fd", "between", "hdfe", "cre"})),
   xtivreg |-> Model(Must({"id", "time"}) @@ MustBeOneOf("method", {"fe"}) @@ Instrumented),
   xtabond |-> Model(Must({"id", "time", "lags"}) @@ Weighting
                  @@ OneOf("style", {"difference", "system"})
                  @@ OneOf("collapse", {"true", "false"}))]

DiscreteVerbs ==
  [v \in {"logit", "probit", "poisson", "ologit", "mlogit", "nbreg"} |-> Model(NoOptions)]

CausalVerbs ==
  [did        |-> Model(Must({"id", "time", "treat", "post"})),
   eventstudy |-> Model(Must({"id", "time", "treat", "eventtime"})),
   ipw        |-> Model(Must({"treat"}) @@ Free({"outcome", "propensity"})),
   psm        |-> Model(Must({"treat"}) @@ Free({"outcome", "propensity"})),
   aipw       |-> Model(Must({"treat"}) @@ Free({"outcome", "propensity", "outcome_model"}))]

Deterministic == OneOf("deterministic", {"constant", "trend", "none"})
TimeVerbs ==
  [arima   |-> Model(Free({"time", "ar", "i", "ma"})),
   var     |-> Model(Free({"time"}) @@ Must({"lags"})),
   dfuller |-> Model(Free({"time"}) @@ Deterministic),
   arch    |-> Model(Free({"time", "maxiter", "tol"}) @@ Must({"arch"})),
   garch   |-> Model(Free({"time", "arch", "garch", "maxiter", "tol"})),
   coint   |-> Model(Free({"time", "lags"}) @@ Deterministic
                  @@ OneOf("method", {"engle_granger", "johansen"}))]

Local == Must({"coords"}) @@ Free({"kernel", "bandwidth", "adaptive", "distance"})
SpatialVerbs ==
  [spreg    |-> Model(Must({"spatial_weights", "id"}) @@ Free({"weights", "spatial_id", "rowstd"})
                   @@ OneOf("model", {"lag", "error", "sar", "sem", "slx", "sdm", "sdem", "sac"})),
   gwr      |-> Model(Local),
   gtwr     |-> Model(Local @@ Must({"time"}) @@ Free({"time_scale"})),
   spprobit |-> Model(Must({"weights", "id"}) @@ Free({"spatial_weights", "spatial_id"}))]

OtherModels ==
  [bayesreg |-> Model(Free({"seed", "prior_scale"})),
   stcox    |-> Verb("model", <<Dep, Many>>, NoOptions),
   svy      |-> Verb("model", <<Choice({"ols", "logit", "probit", "poisson"}), Dep, Many>>,
                   Free({"strata", "psu", "weights"}))]

Tests == {"bp", "bg", "reset", "jb", "dw", "white", "vif"}
DiagnosticVerbs ==
  [diagnostic |-> Verb("diagnostic", <<Choice(Tests)>>, Free({"lags"})),
   bgodfrey   |-> Verb("diagnostic", << >>, Free({"lags"}))]
  @@ [v \in {"ovtest", "hettest", "vif", "dwstat", "hausman"} |->
        Verb("diagnostic", << >>, NoOptions)]

PostestVerbs ==
  [predict   |-> Verb("postest", <<One>>, Flag("xb") @@ Flag("residuals")),
   margins   |-> Verb("postest", << >>, OneOf("at", {"means"})),
   test      |-> Verb("postest", <<One>>, NoOptions),
   lincom    |-> Verb("postest", <<One>>, NoOptions),
   estimates |-> Verb("postest", <<Choice({"store", "restore"}), One>>, NoOptions)]

ProjectVerbs ==
  [project |-> Verb("project", <<Choice({"new", "open", "close"}), Maybe>>, NoOptions),
   save    |-> Verb("project", <<Maybe>>,
                  OneOf("paradigm", {"commands_only", "commands_and_results"})),
   load    |-> Verb("project", <<Maybe>>, NoOptions),
   runs    |-> Verb("project", << >>, NoOptions),
   rerun   |-> Verb("project", <<One>>, NoOptions),
   datahistory |-> Data(<<MayChoose({"list", "restore"}), Maybe>>, NoOptions),
   trash   |-> Verb("project", <<Choice({"list", "restore", "clear"}), Maybe>>, NoOptions)]

ExportVerbs ==
  [export  |-> Verb("export",
                  <<Choice({"markdown", "csv_tidy", "csv_glance", "csv_diagnostics", "plot"}), Maybe>>,
                  Free({"using"}) @@ OneOf("format", {"svg", "png"})),
   compare |-> Verb("postest", <<Many>>, NoOptions)]

Grammars ==
  LookVerbs @@ TransformVerbs @@ SingleVerbs @@ SystemVerbs @@ PanelVerbs @@ DiscreteVerbs
    @@ CausalVerbs @@ TimeVerbs @@ SpatialVerbs @@ OtherModels @@ DiagnosticVerbs
    @@ PostestVerbs @@ ProjectVerbs @@ ExportVerbs

CommandList == DOMAIN Grammars
Offered(verb) == DOMAIN Grammars[verb].options
Required(verb) == {o \in Offered(verb) : Grammars[verb].options[o].required}

=============================================================================
