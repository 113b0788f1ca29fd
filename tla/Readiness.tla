----------------------------- MODULE Readiness -----------------------------
(***************************************************************************)
(* readiness.py: the rows of the readiness table as functions of what is   *)
(* known about a port, the verdict on a port, and the linuxptp commands    *)
(* that are drafted for it.                                                *)
(*                                                                         *)
(* What is known is a record of facts.  Unread stands for None; a count is *)
(* -1 when it is not known.  The text of a row is left out.                *)
(***************************************************************************)
EXTENDS PtmChain

Results == {"pass", "warn", "fail", "unknown"}

TxTypes == {"off", "on", "one-step-sync", "one-step-p2p"}
RxFilters == {"none", "ptp", "all", "other"}  \* ptp: one of GOOD_RX_FILTERS
Counts == -1 .. 1
Plans == {0, 1000}       \* --plan-speed, 0 when it is not given
Speeds == {-1, 100, 1000}

Facts ==
  [phc : {"unread", "none", "some"}, tx : SUBSET TxTypes, rx : SUBSET RxFilters,
   ext : Counts, per : Counts,
   cross : {"unread", "unknown", "precise", "claimed", "extended"},
   state : {"unread", "up", "down"}, speed : Speeds,
   chain : Seq(Nodes), chainOk : Tri,
   degraded : Tri, firmware : {"good", "old", "other", "unknown"},
   numa : {"unread", "no mask", "single", "same", "remote"}]

\* hw_tx_timestamp and hw_rx_filter: an empty list is a miss only when
\* `ethtool -T` answered.
Listed(f, found, some) ==
  IF found = {} THEN (IF f.phc = "unread" THEN "unknown" ELSE "fail")
  ELSE IF some THEN "pass" ELSE "fail"

\* pps_input and pps_output.
Counted(n) == CASE n = -1 -> "unknown" [] n > 0 -> "pass" [] OTHER -> "warn"

\* ptm_endpoint, ptm_chain and ptm_enabled: a definite no is a warning.
Optional(tri) == CASE tri = "yes" -> "pass" [] tri = "no" -> "warn" [] OTHER -> "unknown"

LinkSpeed(f, plan) ==
  IF f.state # "up" THEN "warn"
  ELSE IF f.speed = -1 THEN "unknown"
  ELSE IF plan = 0 \/ f.speed >= plan THEN "pass" ELSE "fail"

Endpoint(f) == IF f.chain = << >> THEN UnknownNode ELSE f.chain[Len(f.chain)]

RowNames ==
  {"phc_present", "hw_tx_timestamp", "hw_rx_filter", "one_step", "pps_input", "pps_output",
   "ptm_endpoint", "ptm_chain", "ptm_enabled", "cross_timestamp", "link_speed", "pcie_link",
   "firmware", "numa"}

\* The result of one row.
Row(r, f, plan) ==
  CASE r = "phc_present" -> (CASE f.phc = "unread" -> "unknown" [] f.phc = "none" -> "fail"
                               [] OTHER -> "pass")
    [] r = "hw_tx_timestamp" -> Listed(f, f.tx, "on" \in f.tx)
    [] r = "hw_rx_filter" -> Listed(f, f.rx, f.rx \cap {"ptp", "all"} # {})
    [] r = "one_step" -> (IF f.tx = {} THEN "unknown"
                          ELSE IF f.tx \cap {"one-step-sync", "one-step-p2p"} # {}
                            THEN "pass" ELSE "warn")
    [] r = "pps_input" -> Counted(f.ext)
    [] r = "pps_output" -> Counted(f.per)
    [] r = "ptm_endpoint" -> Optional(Endpoint(f).requester)
    [] r = "ptm_chain" -> Optional(f.chainOk)
    [] r = "ptm_enabled" -> Optional(Endpoint(f).enabled)
    [] r = "cross_timestamp" -> (CASE f.cross \in {"unread", "unknown"} -> "unknown"
                                   [] f.cross = "precise" -> "pass" [] OTHER -> "warn")
    [] r = "link_speed" -> LinkSpeed(f, plan)
    [] r = "pcie_link" -> (CASE f.degraded = "unknown" -> "unknown"
                             [] f.degraded = "yes" -> "warn" [] OTHER -> "pass")
    [] r = "firmware" -> (CASE f.firmware = "good" -> "pass" [] f.firmware = "old" -> "warn"
                            [] OTHER -> "unknown")
    [] r = "numa" -> (CASE f.numa \in {"unread", "no mask"} -> "unknown"
                        [] f.numa = "remote" -> "warn" [] OTHER -> "pass")

\* evaluate(): one row for each question.
Rows(f, plan) == [r \in RowNames |-> Row(r, f, plan)]

\* The detail of ptm_enabled when it warns: why the capability is not on.
WhyOff(f, kernel) ==
  IF Endpoint(f).present = "no" THEN "no capability"
  ELSE IF kernel = "no" THEN "not in the kernel" ELSE "not turned on"

\* Interface.verdict: the worst row.
Verdict(rows) ==
  LET results == {rows[r] : r \in DOMAIN rows}
  IN IF "fail" \in results THEN "fail" ELSE IF "warn" \in results THEN "warn"
     ELSE IF "unknown" \in results THEN "unknown" ELSE IF results # {} THEN "pass" ELSE "unknown"

\* implied_commands.
Commands(f) ==
  IF f.phc # "some" THEN {}
  ELSE {"ptp4l", "phc2sys", "phc_ctl"}
       \cup (IF f.ext > 0 THEN {"ts2phc"} ELSE {}) \cup (IF f.per > 0 THEN {"pps_out"} ELSE {})
=============================================================================
