---------------------------- MODULE FragProfiles ----------------------------
(***************************************************************************)
(* The fragmentation profiles of libs/schc_frag_apis: mgt_load_profiles of *)
(* aa_basic, ae_basic and na_basic.  A rule identifier is a macro of the   *)
(* SDK and what is added to it; of the parameters, those that say how a    *)
(* fragment is laid out and when an end gives up, in milliseconds.         *)
(***************************************************************************)
EXTENDS Maps, Integers

Apis == {"aa", "ae", "na"}
Modes == {"SDK_DEVICE_MODE", "SDK_APP_MODE"}

\* The fields all profiles of a library have alike.
Common == [rule_id_size_bits |-> 8, l2_word_size_bits |-> 8, rcs_size_bytes |-> 4]

\* MAX_ACK_REQ and the intervals derived from INACTIVITY_TIMER_EXP.
AckOnAny ==
  LET inactivity == 600000
      attempts == 3
      down == inactivity \div (attempts + 1)
  IN [mode |-> "FRAG_MODE_AA", dtag_size_bits |-> 0, n |-> 1, window_size |-> 1,
      it_exp_time |-> inactivity, max_ack_requests |-> attempts,
      ack_req_dn_opportunity |-> 2, ack_rt_exp_time |-> down \div (attempts * 2),
      idle_polling_time |-> (inactivity * 3) \div 4] @@ Common

AckOnError ==
  [mode |-> "FRAG_MODE_AOE", dtag_size_bits |-> 2, n |-> 6, m |-> 2,
   window_size |-> 63, tile_size_bits |-> 32, it_exp_time |-> 600000,
   max_ack_requests |-> 3] @@ Common

NoAck == [mode |-> "FRAG_MODE_NA", dtag_size_bits |-> 7, n |-> 1,
          it_exp_time |-> 180000, max_polling_frame |-> 2] @@ Common

\* The two profiles in the order they are added, before they have a direction.
ProfilesOf(api) ==
  CASE api = "aa" -> << [rule_id |-> <<"AA_DOWNLINK", 0>>] @@ AckOnAny,
                        [rule_id |-> <<"AA_DOWNLINK", 1>>] @@ AckOnAny >>
    [] api = "ae" -> << [rule_id |-> <<"AOE_UPLINK", 0>>] @@ AckOnError,
                        [rule_id |-> <<"AOE_DOWNLINK", 0>>] @@ AckOnError >>
    [] api = "na" -> << [rule_id |-> <<"NA_DOWNLINK", 1>>] @@ NoAck,
                        [rule_id |-> <<"NA_DOWNLINK", 0>>] @@ NoAck >>

\* Mutant: SDK_APP_MODE does not exchange the directions.
FirstUp(mode) == <<"UP", "DOWN">>

\* get_point_to_point_profiles: in SDK_DEVICE_MODE the first profile is the uplink.
Directions(mode) ==
  IF mode = "SDK_DEVICE_MODE" THEN <<"UP", "DOWN">> ELSE <<"DOWN", "UP">>

mgt_load_profiles(api, mode) ==
  [k \in 1..2 |-> ProfilesOf(api)[k] @@ [direction |-> Directions(mode)[k]]]
=============================================================================
