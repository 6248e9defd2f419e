------------------------------ MODULE MCDriver ------------------------------
(* One request of any kind, and transfers to another endpoint beside it.  Of *)
(* the kinds that differ in nothing but their name one or two are sent.      *)
EXTENDS Driver

CONSTANTS i1, i2

OneIrp == {i1}
TwoIrps == {i1, i2}
FewCodes == I!Codes \ {"resetPipe", "getAltSetting", "setFeature", "clearFeature",
                       "setAddress", "getConfiguration", "getInterface",
                       "setConfiguration", "setInterface", "setDescriptor"}
MCCodesOf(i) == IF i = i1 THEN FewCodes ELSE {"nonEp0"}
FeatureCodes(i) == {"setFeature", "clearFeature"}
=============================================================================
