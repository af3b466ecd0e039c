----------------------------- MODULE MCDemoServer -----------------------------
(* An instance of DemoServer for TLC: a symbol whose candles turn twice, with *)
(* an order-block setup downwards and then upwards, synthetic candles with a  *)
(* setup on a gap, and a symbol nobody knows.                                 *)
EXTENDS DemoServer

CONSTANTS btc, dead
B(o, h, l, c) == [o |-> o, h |-> h, l |-> l, c |-> c]
MCKeys == {btc, dead}
MCCandles ==
    <<B(1000, 1000, 999, 999), B(1000, 1001, 995, 998), B(996, 997, 989, 993), B(994,
    1000, 992, 997), B(996, 1007, 992, 1004), B(1006, 1009, 1004, 1006), B(1004, 1015,
    999, 1012), B(1010, 1027, 1007, 1025), B(1023, 1040, 1021, 1040), B(1042, 1044,
    1039, 1040), B(1038, 1043, 1031, 1032), B(1033, 1039, 1033, 1035), B(1037, 1038,
    1034, 1036), B(1037, 1041, 1033, 1034), B(1035, 1038, 1028, 1030), B(1029, 1031,
    1024, 1031), B(1032, 1041, 1027, 1039), B(1038, 1039, 1020, 1020), B(1021, 1026,
    1017, 1024), B(1024, 1039, 1020, 1035), B(1037, 1041, 1024, 1027), B(1028, 1032,
    1025, 1025), B(1024, 1025, 1013, 1018), B(1016, 1019, 1011, 1013), B(1014, 1019,
    1009, 1012), B(1010, 1027, 1005, 1026), B(1025, 1030, 1023, 1025), B(1027, 1031,
    1018, 1023), B(1025, 1026, 1018, 1023), B(1023, 1025, 1017, 1022), B(1023, 1024,
    1013, 1016), B(1015, 1041, 1010, 1041), B(1041, 1060, 1040, 1055), B(1055, 1057,
    1043, 1044), B(1042, 1044, 1035, 1039), B(1039, 1040, 1023, 1028), B(1028, 1033,
    1005, 1005), B(1003, 1004, 998, 1004)>>
MCMarket == [k \in {btc} |-> MCCandles]
MCWalk ==
    <<B(1000, 1000, 989, 991), B(991, 993, 989, 991), B(989, 1010, 989, 1005), B(1006,
    1008, 1003, 1008), B(1010, 1014, 1004, 1004), B(1006, 1009, 1005, 1008), B(1008,
    1011, 999, 1003), B(1002, 1007, 996, 996), B(997, 1027, 993, 1022), B(1020, 1024,
    1017, 1019), B(1019, 1024, 1014, 1015), B(1016, 1019, 1007, 1007), B(1005, 1009,
    984, 989), B(990, 999, 986, 997), B(996, 1006, 996, 1001), B(1002, 1007, 998,
    999), B(997, 1004, 995, 999), B(997, 1000, 996, 997), B(996, 1005, 992, 1005),
    B(1003, 1007, 999, 1003), B(1005, 1013, 1004, 1013), B(1015, 1025, 1015, 1022),
    B(1024, 1030, 1019, 1030), B(1028, 1036, 1026, 1033), B(1033, 1038, 1031, 1038),
    B(1039, 1044, 1031, 1036), B(1036, 1041, 1028, 1028), B(1027, 1029, 1021, 1025),
    B(1024, 1038, 1024, 1033), B(1032, 1061, 1032, 1056), B(1056, 1069, 1055, 1065),
    B(1066, 1070, 1066, 1070)>>
=============================================================================
