----------------------------- MODULE MCSession ------------------------------
(***************************************************************************)
(* A build with three topics, one of which fills a slot exactly and one of *)
(* which does not fit, and the configurations that tell the rules of       *)
(* LoggerConfig apart.                                                     *)
(***************************************************************************)
EXTENDS Session

MCTopics ==
  <<[name |-> "/joy", id |-> 4, wire_size |-> 8],
    [name |-> "/imu", id |-> 0, wire_size |-> 2],
    [name |-> "/motor_status", id |-> 5, wire_size |-> 9]>>

Entry(n, id, on) == [name |-> n, struct_id |-> id, enabled |-> on]

MCConfigs ==
  {[kind |-> "unreadable", entries |-> <<>>],
   \* every topic is absent and so enabled
   [kind |-> "topics", entries |-> <<>>],
   \* a later entry replaces an earlier one; missing fields; a foreign name
   [kind |-> "topics",
    entries |-> <<Entry("/joy", 4, TRUE), [name |-> "/imu"], Entry("/odometry", 3, TRUE),
                  Entry("/joy", 4, FALSE), Entry("/motor_status", 5, FALSE)>>],
   \* another struct_id disables; 65541 does not fit uint16_t and is 5 there;
   \* an empty name
   [kind |-> "topics",
    entries |-> <<Entry("/joy", 3, TRUE), Entry("", 4, FALSE), Entry("/imu", 0, TRUE),
                  Entry("/motor_status", 65541, TRUE)>>]}

MCLocalTime == [s \in {0, 1} |-> IF s = 0 THEN "20260908_153012" ELSE "20260908_153013"]

MCCalls == <<1, 3>>

=============================================================================
