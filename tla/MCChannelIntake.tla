--------------------------- MODULE MCChannelIntake ---------------------------
(***************************************************************************)
(* ChannelIntake for TLC: on every channel one event with three troubles,  *)
(* and two events with one.                                                *)
(***************************************************************************)
EXTENDS ChannelIntake

CONSTANTS e1, e2

Kinds == {"feishu", "wecom", "wechat"}
Instances(events, troubles) ==
    [channel : Kinds, sent : {events}, troubles : {troubles}]

FewSetups == Instances({e1}, 3) \cup Instances(Events, 1)

=============================================================================
