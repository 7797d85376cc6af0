---------------------------- MODULE MarketSession ----------------------------
(***************************************************************************)
(* The market calendar (src/market_data/market_session.py): an explicit     *)
(* schedule gives each trading day its session window.  An instant is a     *)
(* number; DayLength of them make a day.                                    *)
(***************************************************************************)
EXTENDS Naturals

CONSTANTS
    DayLength,
    Schedule,   \* trading day -> [preOpen, open, close, postCloseEnd]
    Weekend     \* days on which the market rests without a schedule

SessionState == {"PRE_OPEN", "OPEN", "POST_CLOSE", "CLOSED", "UNKNOWN"}

(* SessionWindow.__post_init__: the boundaries are in order.                *)
SessionWindow(w) ==
    /\ w.preOpen \in Nat /\ w.open \in Nat /\ w.close \in Nat /\ w.postCloseEnd \in Nat
    /\ w.preOpen <= w.open /\ w.open <= w.close /\ w.close <= w.postCloseEnd

ASSUME MarketSessionConstants ==
    /\ DayLength \in Nat \ {0}
    /\ \A d \in DOMAIN Schedule : d \in Nat /\ SessionWindow(Schedule[d])

DateOf(t) == t \div DayLength

TimeOf(t) == t % DayLength

(* _state_from_window, over half-open intervals; the night on both sides of *)
(* the session is CLOSED.                                                   *)
StateFromWindow(w, t) ==
    IF t < w.preOpen \/ t >= w.postCloseEnd THEN "CLOSED"
    ELSE IF t < w.open THEN "PRE_OPEN"
    ELSE IF t < w.close THEN "OPEN"
    ELSE "POST_CLOSE"

IsTradingDay(d) == d \in DOMAIN Schedule

(* session_at: a working day without a schedule is UNKNOWN.                 *)
SessionAt(t) ==
    IF IsTradingDay(DateOf(t)) THEN StateFromWindow(Schedule[DateOf(t)], TimeOf(t))
    ELSE IF DateOf(t) \in Weekend THEN "CLOSED"
    ELSE "UNKNOWN"
=============================================================================
