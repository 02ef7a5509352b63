---------------------------- MODULE MCFirehose ----------------------------
(* The instances of Firehose that TLC checks. *)
EXTENDS FirehosePubSub, TLC

CONSTANTS b1, p1, p2, e1, e2, e3, n1, c1, c2   \* model values

OnePump == [b \in Publishers |-> <<p1>>]
TwoPumps == [b \in Publishers |-> <<p1, p2>>]
TopicZero == [b \in Publishers |-> <<0, 0>>]
TopicOne == [b \in Publishers |-> <<1, 1>>]
LastNuzzle == [c \in Consumers |-> n1]
ClientLinks == (Publishers \X Pumps) \cup (Consumers \X Nuzzles)

(* The consumer program with TOPIC_RANGE 0:0. *)
RangeZero == { [c \in Consumers |-> MainScript(0, 0)] }

(* One consumer that joins, leaves and joins again. *)
JoinAndLeave ==
    { [c \in Consumers |-> script] :
        script \in { MainScript(0, 1), << <<1, 1>>, <<1, 0>>, <<1, 1>> >> } }

(* Two consumers of one nuzzle: one may be subscribed twice, or may        *)
(* unsubscribe more often than it subscribed.                              *)
TwoClients ==
    [Consumers -> { << <<0, 1>>, <<0, 0>>, <<0, 1>> >>,
                    << <<0, 1>>, <<0, 1>>, <<0, 0>>, <<0, 0>> >>,
                    << <<0, 1>>, <<0, 0>>, <<0, 0>> >> }]

(* The ids of the pumps wrap after the first publication, and the engine   *)
(* that may fail is given a name, which loses no case: engines are alike.  *)
WrappingInit ==
    SettledInit /\ global_request_id_seed = [p \in Pumps |-> IdSpace - 1]

WrappingSpec == WrappingInit /\ [][Next]_vars /\ Fairness

EngineSymmetry == Permutations(Engines)
ClientSymmetry == Permutations(Consumers)
=============================================================================
