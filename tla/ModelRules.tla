----------------------------- MODULE ModelRules -----------------------------
(***************************************************************************)
(* validation/*.rs of the runtime: what it asks of a fit request before it *)
(* hands it to Julia.  A number JavaScript could not read is null in the   *)
(* JSON: a plain field is then absent, a list of numbers does not parse.   *)
(***************************************************************************)
EXTENDS FitRequest

PanelKind == Panels \cup Events \cup {"dynamic_panel_gmm"}

(* model_required_fields.                                                  *)
PanelIndex == {"panel_id", "panel_time"}
RequiredFields(type) ==
  CASE type \in {"iv", "gmm_linear"} -> IvParams
    [] type = "panel" -> PanelIndex
    [] type = "panel_iv" -> PanelIndex \cup IvParams
    [] type = "dynamic_panel_gmm" -> PanelIndex \cup {"instrument_lags"}
    [] type \in Events -> PanelIndex \cup {"treated_column", "post_column"}
    [] type \in {"ipw", "psm"} -> {"treatment_column", "outcome_column", "propensity_formula"}
    [] type = "aipw" ->
         {"treatment_column", "outcome_column", "propensity_formula", "outcome_formula"}
    [] type = "arima" -> {"variable", "time_column", "order"}
    [] type = "var" -> {"variables", "time_column", "lags"}
    [] type = "cointegration" -> {"variables", "time_column", "ts_method"}
    [] type = "arch" -> {"variable", "time_column", "arch_order"}
    [] type \in {"unitroot", "garch"} \cup Asymmetric -> {"variable", "time_column"}
    [] type \in Surveys -> {"weights_column"}
    [] type = "sur" -> {"equations"}
    [] type \in {"system_2sls", "system_3sls"} ->
         {"equations", "system_endogenous", "system_instruments"}
    [] type \in Weighted -> {"spatial_weights_path", "spatial_id_column"}
    [] type = "spatial_gwr" -> {"spatial_coord_columns"}
    [] type = "spatial_gtwr" -> {"spatial_coord_columns", "gtwr_time_column"}
    [] type \in Durations -> {"duration_time_column", "duration_event_column"}
    [] type = "bayes_hierarchical" -> {"bayes_group_column"}
    [] OTHER -> {}

(* The parameters do not parse with a null in a list of numbers, or with   *)
(* an integer that is no i32.                                              *)
IntegerLists == {"order", "instrument_lags"}
IntegerFields ==
  IntegerLists \cup {"lags", "arch_order", "garch_p", "garch_q", "garch_max_iter",
                    "sur_max_iter", "nls_max_iter"}
IntegersOf(params, p) ==
  {params[p].is[i] : i \in IF p \in IntegerLists THEN DOMAIN params[p].is ELSE {1}}
TooWide(params) ==
  {p \in DOMAIN params \cap IntegerFields :
     ~(IntegersOf(params, p) \subseteq (-LargestI32 - 1)..LargestI32)}
Unreadable(params) ==
  TooWide(params)
  \cup {p \in DOMAIN params \cap IntegerLists : NaN \in IntegersOf(params, p)}
  \cup {p \in DOMAIN params \cap {"threshold_grid"} : Expanded(params[p].text) = "not finite"}

(* validate_model_specific_rules: the parameters whose value is refused.   *)
Within(params, p, Ok(_)) == p \in DOMAIN params => Ok(params[p])
GmmPanelRules(type, params) ==
  {p \in {"gmm_weight"} :
     ~Within(params, p, LAMBDA v : v.text \in {"one_step", "two_step", "iterated", "cue"})}
  \cup IF type # "dynamic_panel_gmm" THEN {}
       ELSE {p \in {"dpgmm_style"} :
               ~Within(params, p, LAMBDA v : v.text \in {"difference", "system"})}
            \cup {p \in {"instrument_lags"} : ~Within(params, p, LAMBDA v : v.is[1] <= v.is[2])}
SystemRules(type, params) ==
  {p \in {"equations"} : ~Within(params, p, LAMBDA v : v.is[1] <= 8)}
  \cup IF type = "sur" THEN {}
       ELSE {p \in {"system_endogenous", "system_instruments"} :
               ~Within(params, p, LAMBDA v : Segments(v.text) = params["equations"].is[1])}
QuantileRules(params) ==
  {p \in {"quantile_tau"} : ~Within(params, p, LAMBDA v : Float(v.text) \in 1..99)}
NonlinearRules(type, params) ==
  IF type = "nls"
  THEN {p \in {"nls_start"} :
          p \notin DOMAIN params \/ Len(Numbers(params[p].text)) # 3
            \/ NaN \in {Numbers(params[p].text)[i] : i \in DOMAIN Numbers(params[p].text)}}
       \cup {p \in {"nls_family"} : ~Within(params, p, LAMBDA v : v.text = "exp_growth")}
  ELSE {p \in {"threshold_variable"} : p \notin DOMAIN params}
       \cup {p \in {"threshold_grid"} :
               p \notin DOMAIN params \/ params[p].is[3] \notin 2..500
                 \/ Expanded(params[p].text) # "increasing"}
       \cup {p \in {"threshold_trim_frac"} : ~Within(params, p, LAMBDA v : Float(v.text) \in 0..44)}
OrderOf(params, p, default) == IF p \in DOMAIN params THEN params[p].is[1] ELSE default
ArchGarchRules(type, params) ==
  IF type = "arch"
  THEN {p \in {"garch_p", "garch_q"} : p \in DOMAIN params}
       \cup {p \in {"arch_order"} : OrderOf(params, p, 0) \notin 1..12}
  ELSE {p \in {"arch_order"} : p \in DOMAIN params}
       \cup {p \in {"garch_p", "garch_q"} :
               OrderOf(params, p, 1) \notin 1..5
                 \/ OrderOf(params, "garch_p", 1) + OrderOf(params, "garch_q", 1) > 8}
RefusedValues(type, params) ==
  CASE type \in {"gmm_linear", "dynamic_panel_gmm"} -> GmmPanelRules(type, params)
    [] type \in Systems -> SystemRules(type, params)
    [] type = "quantile" -> QuantileRules(params)
    [] type \in {"nls", "threshold"} -> NonlinearRules(type, params)
    [] type \in {"arch", "garch"} -> ArchGarchRules(type, params)
    [] OTHER -> {}

(* validate_impl: the panel index first, then the required fields, then    *)
(* the values.                                                             *)
Validated(request) ==
  LET params == request.params
      absent == (RequiredFields(request.type)
                   \cup IF request.type \in PanelKind THEN PanelIndex ELSE {}) \ DOMAIN params
  IN IF Unreadable(params) # {} THEN [kind |-> "unreadable", fields |-> Unreadable(params)]
     ELSE IF absent # {} THEN [kind |-> "incomplete", fields |-> absent]
     ELSE IF RefusedValues(request.type, params) # {}
     THEN [kind |-> "invalid", fields |-> RefusedValues(request.type, params)]
     ELSE [kind |-> "fit", fields |-> {}]

=============================================================================
