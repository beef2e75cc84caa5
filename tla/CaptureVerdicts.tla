--------------------------- MODULE CaptureVerdicts ---------------------------
(***************************************************************************)
(* What the Python service concludes from one frame: the passive liveness  *)
(* of face_auth.py, the five analyses of antispoof.py and the equipment of *)
(* ppe_detector.py.  A step of the module is one verdict.                  *)
(*                                                                         *)
(* Abstractions.  An image is what the analyses measure in it, on either   *)
(* side of every threshold; an analysis that fails measures -1.  Scores    *)
(* are percents, rounded down where the code rounds to four places: no     *)
(* measured value lies where the difference would matter.                  *)
(***************************************************************************)
EXTENDS Integers, FiniteSets, Functions

VARIABLES
    seen,     \* the scores of the analyses of the last frame, or its equipment
    verdict   \* the last verdict

captureVars == <<seen, verdict>>

Percent == 0..100
Clipped(n) == IF n < 0 THEN 0 ELSE IF n > 100 THEN 100 ELSE n

\* The sum of score[s] times weight[s], in percents of one.
Composite(score, weight) == SumFunction([s \in DOMAIN weight |-> score[s] * weight[s]])

-----------------------------------------------------------------------------
(* Passive liveness                                                        *)

TextureWeight == [texture |-> 50, specular |-> 25, skin |-> 25]

\* Variance of the Laplacian; an error here counts against the frame.
TextureScore(variance) == IF variance < 0 THEN 0 ELSE Clipped(variance \div 5)

\* Bright pixels in thousandths: 5 to 80 of them score full.
SpecularScore(bright) ==
    CASE bright < 0 -> 50
      [] bright \in 0..4 -> bright * 20
      [] bright \in 5..80 -> 100
      [] bright > 80 -> Clipped(100 - ((bright - 80) * 100) \div 120)

\* Skin in percent of the frame and the deviation of its saturation: a frame
\* with hardly any skin scores more than one with uniform skin.
SkinScore(skin) ==
    CASE skin.ratio < 0 -> 50
      [] skin.ratio \in 0..5 -> 10
      [] skin.ratio > 5 -> Clipped((skin.spread * 100) \div 30)

\* A behaviour is the verdict on one frame.
NoFrame == [x \in {} |-> 0]
Fresh == seen = NoFrame

\* check_liveness_texture of a face crop.
IsLive(score) == Composite(score, TextureWeight) >= 40 * 100

PassiveLiveness ==
    /\ Fresh
    /\ \E variance \in {-1, 0, 100, 400, 500, 900}, bright \in {-1, 0, 4, 5, 80, 140, 200},
          skin \in {[ratio |-> -1, spread |-> 0], [ratio |-> 5, spread |-> 60]}
                   \cup {[ratio |-> 40, spread |-> s] : s \in {0, 15, 60}} :
            seen' = [texture |-> TextureScore(variance), specular |-> SpecularScore(bright),
                     skin |-> SkinScore(skin)]
    /\ verdict' = IF IsLive(seen') THEN "live" ELSE "not_live"

-----------------------------------------------------------------------------
(* Anti-spoofing                                                           *)

\* Faulty variant: the weights before corneal and depth were told apart.
SpoofWeight_halfCorneal == [moire |-> 15, pixel |-> 10, corneal |-> 55, depth |-> 10, chroma |-> 10]

SpoofWeight == [moire |-> 25, pixel |-> 15, corneal |-> 25, depth |-> 20, chroma |-> 15]

\* Every analysis that fails is neutral, so that a frame on which all five fail
\* is authentic.
OrNeutral(m, score) == IF m < 0 THEN 50 ELSE score

\* Strong peaks of the spectrum.
MoireScore(peaks) ==
    OrNeutral(peaks, IF peaks < 8 THEN 100
                     ELSE IF peaks > 30 THEN 0 ELSE 100 - ((peaks - 8) * 100) \div 22)

\* Autocorrelation of the rows and columns in percent.
PixelGridScore(corr) == OrNeutral(corr, IF corr > 80 THEN 0 ELSE Clipped(100 - ((corr - 50) * 100) \div 30))

\* Bright pixels of the eye region in thousandths.
CornealScore(bright) ==
    OrNeutral(bright, IF bright < 2 THEN bright * 50
                      ELSE IF bright <= 40 THEN 100 ELSE Clipped(100 - ((bright - 40) * 100) \div 60))

\* Deviation of the gradients.
DepthScore(std) ==
    OrNeutral(std, IF std > 25 THEN 100 ELSE IF std < 8 THEN 0 ELSE ((std - 8) * 100) \div 17)

\* Difference of the edges of red and green, and of red and blue, in percent.
ChromaScore(d) ==
    OrNeutral(d.rg, IF d.rg < 15 /\ d.rb \in 2..35 THEN 100
                    ELSE IF d.rg > 40 THEN 0 ELSE Clipped(100 - (d.rg * 100) \div 40))

\* The composite decides; the kind of attack is read from what is low.
AttackType(score) ==
    IF Composite(score, SpoofWeight) >= 50 * 100 THEN "LIVE"
    ELSE IF score.moire < 30 /\ score.pixel < 40 THEN "SCREEN_REPLAY"
    ELSE IF score.moire < 30 /\ score.corneal < 20 THEN "PRINTED_PHOTO"
    ELSE IF score.depth < 25 /\ score.chroma > 60 THEN "DEEPFAKE"
    ELSE "UNKNOWN_ATTACK"

\* antispoof_analyze, of the face crop or of the whole frame without one; what
\* an attack adds to the caller's risk is in EdgeMonitor.
Antispoof ==
    /\ Fresh
    /\ \E peaks \in {-1, 0, 19, 31}, corr \in {-1, 50, 65, 81}, bright \in {-1, 1, 2, 70, 100},
          std \in {-1, 7, 12, 16, 26},
          d \in [rg : {-1, 10, 20, 41}, rb : {1, 20}] :
            seen' = [moire |-> MoireScore(peaks), pixel |-> PixelGridScore(corr),
                     corneal |-> CornealScore(bright), depth |-> DepthScore(std),
                     chroma |-> ChromaScore(d)]
    /\ verdict' = AttackType(seen')

-----------------------------------------------------------------------------
(* Protective equipment                                                    *)

Equipment == {"HELMET", "VEST", "MASK"}

\* What is found of each item, in percent of its region, and the confidence in
\* it; for a mask it is skin that is found.  The confidence in what was just
\* found is lower than that in what was just not.
Detected(item, ratio) ==
    CASE item = "HELMET" -> ratio >= 3
      [] item = "VEST" -> ratio >= 5
      [] item = "MASK" -> ratio < 12

Confidence(item, ratio) ==
    CASE item = "HELMET" -> IF ratio >= 3 THEN Clipped((ratio * 100) \div 15) ELSE (ratio * 50) \div 3
      [] item = "VEST" -> IF ratio >= 5 THEN Clipped((ratio * 100) \div 25) ELSE (ratio * 50) \div 5
      [] item = "MASK" -> IF ratio < 12 THEN 100 - (ratio * 100) \div 12
                          ELSE Clipped(10 - ((ratio - 12) * 100) \div 12)

\* check_ppe_compliance: an item it does not know is always missing; the score
\* is the average over those it knows, 0 when there is none.
Missing(ratio, required) == {i \in required : i \notin Equipment \/ ~Detected(i, ratio[i])}
PPEScore(ratio, required) ==
    LET known == required \cap Equipment
    IN IF known = {} THEN 0
       ELSE SumFunction([i \in known |-> Confidence(i, ratio[i])]) \div Cardinality(known)

CheckPPE ==
    /\ Fresh
    /\ \E helmet \in {0, 2, 3, 15}, vest \in {0, 4, 5, 25}, skin \in {0, 11, 12, 50} :
            seen' = [HELMET |-> helmet, VEST |-> vest, MASK |-> skin]
    /\ \E required \in {{}, {"HELMET", "VEST"}, Equipment, {"HELMET", "GLOVES"}} :
            verdict' = [missing |-> Missing(seen', required), score |-> PPEScore(seen', required),
                        compliant |-> Missing(seen', required) = {}]

-----------------------------------------------------------------------------
CaptureInit == seen = NoFrame /\ verdict = "none"

CaptureNext == PassiveLiveness \/ Antispoof \/ CheckPPE

CaptureSpec == CaptureInit /\ [][CaptureNext]_captureVars

CaptureTypeOK == \A s \in DOMAIN seen : seen[s] \in Percent

-----------------------------------------------------------------------------
Others(s, score) == \A t \in DOMAIN seen \ {s} : seen[t] = score

\* No single analysis out of line with all others decides what a frame is
\* taken for, except the texture of the passive liveness, which alone makes a
\* frame live (face_auth.py, check_liveness_texture; antispoof.py,
\* analyze_antispoof).
NoSignalAlone ==
    \A s \in DOMAIN seen \ Equipment :
        /\ Others(s, 100) => verdict \in {"live", "LIVE"}
        /\ Others(s, 0) /\ s # "texture" => verdict \notin {"live", "LIVE"}
=============================================================================
