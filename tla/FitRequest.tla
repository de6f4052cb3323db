----------------------------- MODULE FitRequest -----------------------------
(***************************************************************************)
(* From a model specification to the request that is sent: handleModel of  *)
(* commandExecutor.ts, buildFitModelRequest of runtimeClient.ts, and the   *)
(* families of types/protocol.ts that say which parameters a type has.     *)
(***************************************************************************)
EXTENDS CommandParser

Panels    == {"panel", "panel_iv"}
Events    == {"did", "event_study"}
Surveys   == {"survey_ols", "survey_logit", "survey_probit", "survey_poisson"}
Weighted  == {"spatial_lag", "spatial_error", "spatial_slx", "spatial_sdm", "spatial_sdem",
              "spatial_sac", "spatial_probit"}
Locals    == {"spatial_gwr", "spatial_gtwr"}
Durations == {"duration_cox", "aft_weibull", "aft_exponential", "aft_lognormal", "aft_loglogistic"}
Bayesian  == {"bayes_linear", "bayes_logistic", "bayes_probit", "bayes_hierarchical"}
Asymmetric == {"gjr_garch", "egarch"}
Discrete  == {"logit", "probit", "poisson", "ordered_logit", "multinomial_logit", "negbin"}
Systems   == {"sur", "system_2sls", "system_3sls"}
IvParams  == {"instruments", "endog_columns"}

(* handleModel names the parameters it hands on: the local, seasonal and   *)
(* Bayesian ones are not among them.                                       *)
NotHandedOn ==
  {"spatial_coord_columns", "spatial_distance", "gwr_kernel", "gwr_bandwidth", "gwr_adaptive",
   "gtwr_time_column", "gtwr_time_scale", "bayes_seed", "bayes_prior_scale"}
HandedOn(spec) ==
  [p \in DOMAIN spec.params \ NotHandedOn |-> spec.params[p]]

(* buildFamilyParams: the parameters a type's branch copies, and those it  *)
(* fills in.                                                               *)
SurveyCopiedNoPsu == {"weights_column", "strata_column", "fpc_column"}     \* mutant
SurveyCopied == {"weights_column", "strata_column", "psu_column", "fpc_column"}
TimeCopiedWithPanel == {"time_column", "variable", "variables", "panel_time"}   \* mutant
TimeCopied == {"time_column", "variable", "variables"}
Copied(type) ==
  CASE type \in Panels -> {"panel_id", "panel_time"}
                          \cup (IF type = "panel" THEN {"panel_method"} ELSE IvParams)
    [] type = "iv" -> IvParams
    [] type = "gmm_linear" -> IvParams \cup {"gmm_weight"}
    [] type = "dynamic_panel_gmm" ->
         {"panel_id", "panel_time", "instrument_lags", "gmm_weight", "dpgmm_style",
          "collapse_instruments"}
    [] type \in Events -> {"panel_id", "panel_time", "treated_column", "post_column",
                           "event_time_column"}
    [] type \in Causal -> {"treatment_column", "outcome_column", "propensity_formula",
                           "outcome_formula"}
    [] type \in TimeSeries \cup Asymmetric ->
         TimeCopied \cup (IF type = "arima" THEN {"order"} ELSE {})
         \cup (IF type \in {"arch", "garch"} THEN {"garch_max_iter", "garch_tol"}
               ELSE {"lags", "deterministic", "ts_method"})
         \cup (IF type = "arch" THEN {"arch_order"} ELSE {})
         \cup (IF type = "garch" THEN {"garch_p", "garch_q"} ELSE {})
    [] type \in Surveys -> SurveyCopied
    [] type = "sur" -> {"equations", "sur_max_iter", "sur_tol"}
    [] type \in Systems \ {"sur"} -> {"equations", "system_endogenous", "system_instruments"}
    [] type = "quantile" -> {"quantile_tau"}
    [] type = "nls" -> {"nls_family", "nls_start", "nls_max_iter", "nls_tol"}
    [] type = "threshold" -> {"threshold_variable", "threshold_grid", "threshold_trim_frac"}
    [] type \in Weighted -> {"spatial_weights_path", "spatial_id_column", "spatial_row_standardize"}
    [] type \in Locals ->
         {"spatial_coord_columns", "spatial_distance", "gwr_kernel", "gwr_bandwidth", "gwr_adaptive"}
         \cup (IF type = "spatial_gtwr" THEN {"gtwr_time_column", "gtwr_time_scale"} ELSE {})
    [] type \in Durations -> {"duration_time_column", "duration_event_column"}
    [] OTHER -> {}

FilledIn(type) ==
  CASE type = "dynamic_panel_gmm" -> [instrument_lags |-> Default("2 4")]
    [] type = "arima" -> [order |-> [of |-> "default", text |-> "", is |-> <<1, 0, 0>>], lags |-> Default("2")]
    [] type \in (TimeSeries \cup Asymmetric) \ {"arima", "arch", "garch"} -> [lags |-> Default("2")]
    [] type = "quantile" -> [quantile_tau |-> Default("0.5")]
    [] OTHER -> NoParams

(* Lags that are no positive number and the default terms are left out.    *)
FamilyParams(type, given) ==
  LET all == [p \in DOMAIN given \cap Copied(type) |-> given[p]] @@ FilledIn(type)
      Sent(p) == /\ p = "lags" => all[p].is[1] > 0
                 /\ p = "deterministic" => all[p].text # "constant"
  IN [p \in {q \in DOMAIN all : Sent(q)} |-> all[p]]

(* vcov is sent with these types only.                                     *)
NeedsVcov(type) ==
  \/ type \in {"iv", "panel_iv", "gls", "spatial_lag", "spatial_sdm"} \cup Discrete \cup Surveys
  \/ type \notin Panels \cup {"dynamic_panel_gmm"} \cup Events \cup Causal \cup TimeSeries
       \cup Asymmetric \cup Systems \cup Unweighted \cup Weighted \cup Locals \cup Durations

Request(spec) ==
  [type |-> spec.type, formula |-> spec.formula,
   robust |-> spec.robust /\ NeedsVcov(spec.type),
   cluster |-> spec.cluster,
   weights |-> spec.weights \/ "weights_column" \in DOMAIN spec.params,
   params |-> FamilyParams(spec.type, HandedOn(spec))]

-----------------------------------------------------------------------------
(* types/protocol.ts: the parameters of each family of model types.        *)
LinearSpec == IvParams \cup {"gmm_weight"}
PanelSpec ==
  {"panel_id", "panel_time", "panel_method", "instruments", "endog_columns", "gmm_weight",
   "dpgmm_style", "instrument_lags", "collapse_instruments", "omega_spec", "treated_column",
   "post_column", "event_time_column"}
CausalSpec == {"treatment_column", "outcome_column", "propensity_formula", "outcome_formula"}
SystemSpec == {"equations", "system_endogenous", "system_instruments", "sur_max_iter", "sur_tol"}
TimeSeriesSpec ==
  {"time_column", "variable", "variables", "order", "seasonal_order", "ts_method", "lags",
   "deterministic", "arch_order", "garch_p", "garch_q", "garch_max_iter", "garch_tol"}
SurveySpec == {"weights_column", "strata_column", "psu_column", "fpc_column"}
SpatialSpec ==
  {"spatial_weights_path", "spatial_id_column", "spatial_row_standardize",
   "spatial_coord_columns", "spatial_distance", "spatial_crs", "gwr_kernel", "gwr_bandwidth",
   "gwr_bandwidth_selection", "gwr_adaptive", "gtwr_time_column", "gtwr_time_scale"}
DurationSpec == {"duration_time_column", "duration_event_column"}
BayesSpec ==
  {"bayes_seed", "bayes_prior_scale", "bayes_iter", "bayes_warmup", "bayes_chains",
   "bayes_group_column"}
NonlinearSpec ==
  {"nls_family", "nls_start", "nls_max_iter", "nls_tol", "threshold_variable",
   "threshold_grid", "threshold_trim_frac"}
QuantileSpec == {"quantile_tau"}

SpecParams(type) ==
  CASE type \in {"ols", "gls", "pca", "iv", "gmm_linear"} -> LinearSpec
    [] type \in Panels \cup Events \cup {"dynamic_panel_gmm"} -> PanelSpec
    [] type \in Discrete -> {}
    [] type \in Causal \cup {"did_iv", "rd", "rd_iv"} -> CausalSpec
    [] type \in Systems -> SystemSpec
    [] type \in TimeSeries \cup Asymmetric -> TimeSeriesSpec
    [] type \in Surveys -> SurveySpec
    [] type \in Weighted \cup Locals -> SpatialSpec
    [] type \in Durations -> DurationSpec
    [] type \in Bayesian -> BayesSpec
    [] type \in {"nls", "threshold"} -> NonlinearSpec
    [] type = "quantile" -> QuantileSpec

=============================================================================
