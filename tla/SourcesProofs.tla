---------------------------- MODULE SourcesProofs ----------------------------
(***************************************************************************)
(* Proofs about Sources, for every threshold and every set of builds: the   *)
(* watchdogs leave the receiver parked, and sleep is dark.                  *)
(***************************************************************************)
EXTENDS Sources, SequenceTheorems, TLAPS

USE SourcesAssumption DEF SourcesAssumption, Threads

UiOps == {"menu", "close", "analogOff", "analogOn", "openEff", "asHdzero", "asAnalog", "video",
          "sleep", "tunerOff", "asleep", "wake", "choose", "openOther", "chooseAgain", "unlock"}

(* What the peripheral thread does under lvgl_mutex, and what without.      *)
Others  == {"otherWide", "otherNarrow"}
Locking == {"hop", "hopProbe", "home", "reset", "otherWide", "otherNarrow", "otherProbe", "unlock",
            "close", "analogOff", "analogOn", "openEff", "asHdzero", "asAnalog"}
Sweeps  == {"sweepAnalog", "sweepWide", "sweepNarrow", "probeWide", "probeNarrow", "swept"}
Roaming == {"bw", "bwLock", "power", "powerDown", "idle", "probeAnalog", "otherLock",
            "toAnalog", "toHdzero"} \cup Sweeps

(* After these it has the lock.                                             *)
Leading == {"otherLock", "hop", "home", "reset", "otherWide", "otherNarrow",
            "close", "analogOff", "analogOn", "openEff", "asHdzero", "asAnalog"}

(* What is left of go_sleep.                                                *)
SleepTails == {<<"sleep", "close", "tunerOff", "asleep", "unlock">>,
               <<"close", "tunerOff", "asleep", "unlock">>,
               <<"tunerOff", "asleep", "unlock">>, <<"asleep", "unlock">>}

(* A handler of the buttons gives the lock back at its end and only there,  *)
(* and nothing but go_sleep puts the goggles to sleep.                      *)
UiOpOK(s, i) ==
  /\ s[i] = "unlock" <=> i = Len(s)
  /\ s[i] = "openOther" => s[i + 1] = "chooseAgain"
  /\ s[i] \in {"openOther", "chooseAgain"} => session.both = TRUE
  /\ s[i] \in {"sleep", "asleep"} => s \in SleepTails

UiOK(s) == s \in Seq(UiOps) /\ \A i \in 1..Len(s) : UiOpOK(s, i)

(* A pass of the peripheral thread takes the lock and gives it back, and    *)
(* undoes what it does to the receiver.                                     *)
PerOpOK(s, i) ==
  /\ s[i] \in Leading <=> i < Len(s) /\ s[i + 1] \in Locking
  /\ s[i] \in Leading => (s[i + 1] = "hopProbe" <=> s[i] = "hop")
  /\ s[i] \in Others => s[i + 1] = "otherProbe"
  /\ s[i] = "analogOff" => s[i + 1] = "openEff"
  /\ s[i] \in {"sweepWide", "sweepNarrow"} => \E j \in (i + 1)..Len(s) : s[j] = "swept"
  /\ s[i] = "toHdzero" => i = 1
  /\ s[i] \in {"hop", "hopProbe", "home", "otherProbe"} \cup Others => session.both = TRUE
  /\ s[i] = "reset" => session.both = FALSE
  /\ s[i] \in (Roaming \ {"bw", "bwLock"}) \cup {"otherProbe"} \cup Others => session.crossover = TRUE

(* A channel of the backpack, and what is left of its handler.              *)
EspOps == {"analogOff", "openEff", "asHdzero", "close", "analogOn", "asAnalog", "unlock"}

EspIdle == {<<>>, <<"toHdzero">>, <<"toAnalog">>}

EspTails == EspIdle \cup
  {<<"analogOff", "openEff", "asHdzero", "unlock">>, <<"openEff", "asHdzero", "unlock">>,
   <<"asHdzero", "unlock">>,
   <<"close", "analogOn", "asAnalog", "unlock">>, <<"analogOn", "asAnalog", "unlock">>,
   <<"asAnalog", "unlock">>, <<"unlock">>}

PerOK(s) == s \in Seq(Locking \cup Roaming) /\ \A i \in 1..Len(s) : PerOpOK(s, i)

Handlers ==
  /\ todo \in [Threads -> Seq(UiOps \cup Locking \cup Roaming)]
  /\ UiOK(todo["ui"]) /\ PerOK(todo["per"]) /\ todo["esp"] \in EspTails
  /\ lock = "ui" <=> todo["ui"] # <<>>
  /\ lock = "per" <=> todo["per"] # <<>> /\ Head(todo["per"]) \in Locking
  /\ lock = "esp" <=> todo["esp"] \notin EspIdle
  /\ todo["esp"] # <<>> => session.backpack = TRUE

ViewOK ==
  /\ session \in Sessions /\ auto \in BOOLEAN
  /\ app \in {"menu", "video", "sleep"}
  /\ source \in {"hdzero", "analog"} /\ mode \in {"ui", "hdzero", "av"}

ReceiverOK == open \in BOOLEAN /\ rx \in BOOLEAN /\ bw \in Bands /\ det \in Bands

AnalogsOK == analog \in BOOLEAN /\ down \in BOOLEAN /\ probed \in BOOLEAN

TicksOK ==
  /\ hit \in Bands \cup {"none"}
  /\ dark \in 0..(DarkThresh - 1) /\ cross \in 0..(DarkThresh - 1)

PanelOK ==
  /\ asleep \in BOOLEAN /\ prev \in {"menu", "video"}
  /\ inhibit \subseteq {"sleep", "idle"} /\ dim \in BOOLEAN
  /\ oled \in {"detecting", "pre", "off"}

EnvOK == lock \in Threads \cup {"none"} /\ vtx \in session.vtxs /\ moving \in BOOLEAN

ValuesOK == ViewOK /\ ReceiverOK /\ AnalogsOK /\ TicksOK /\ PanelOK /\ EnvOK

(* A switch to HDZero follows a hit; one sleeps once.                       *)
ChoicesOK ==
  /\ At("per", "toHdzero") => hit # "none"
  /\ At("ui", "sleep") => app # "sleep"

(* The receiver is where the signal was last seen, or it is about to be     *)
(* opened there or closed, by whoever has the lock.                         *)
Leaves(s) == \E op \in {"toAnalog", "toHdzero", "swept"} : \E i \in DOMAIN s : s[i] = op

Left == Leaves(todo["per"])

Parked == open /\ ~Left => bw = Effective

ParkedInv ==
  /\ \/ Parked
     \/ At("ui", "chooseAgain")
     \/ At("ui", "close")
     \/ \E op \in {"hopProbe", "home", "otherProbe", "close", "analogOff", "openEff"} : At("per", op)
  /\ At("per", "hopProbe") => bw = Other(det)

(* Without a crossover the sleep is dark but for its own handler and for a  *)
(* channel of the backpack under way, which ends it; and without a backpack *)
(* the sleeping goggles are in its state.                                   *)
Dark == ~open /\ ~analog /\ "sleep" \in inhibit

SleepInv ==
  ~session.crossover =>
    /\ app = "sleep" => lock # "per"
    /\ app = "sleep" /\ Free => asleep /\ Dark
    /\ app = "sleep" /\ todo["ui"] # <<>> =>
         \/ todo["ui"] \in SleepTails
         \/ asleep /\ Dark /\ Head(todo["ui"]) \in {"unlock", "wake"}
    /\ todo["ui"] = <<"close", "tunerOff", "asleep", "unlock">>
         => app = "sleep" /\ "sleep" \in inhibit
    /\ todo["ui"] = <<"tunerOff", "asleep", "unlock">>
         => app = "sleep" /\ "sleep" \in inhibit /\ ~open
    /\ todo["ui"] = <<"asleep", "unlock">>
         => app = "sleep" /\ "sleep" \in inhibit /\ ~open /\ ~analog
    /\ app = "sleep" => ~At("esp", "unlock")
    /\ asleep /\ ~session.backpack => app = "sleep"

SourcesInv == ValuesOK /\ ChoicesOK /\ Handlers /\ ParkedInv /\ SleepInv

-----------------------------------------------------------------------------
(* Handlers as sequences.                                                   *)

LEMMA TailOf ==
  ASSUME NEW S, NEW s \in Seq(S), s # <<>>
  PROVE  /\ Len(s) \in Nat /\ Len(s) >= 1 /\ Head(s) = s[1] /\ s[1] \in S
         /\ Tail(s) \in Seq(S) /\ Len(Tail(s)) = Len(s) - 1
         /\ \A i \in 1..Len(Tail(s)) : Tail(s)[i] = s[i + 1]
         /\ Tail(s) # <<>> <=> Len(s) >= 2
         /\ Tail(s) # <<>> => Head(Tail(s)) = s[2]
<1>1. Len(s) \in Nat /\ Len(s) >= 1 /\ Head(s) = s[1] /\ s[1] \in S  OBVIOUS
<1>2. Tail(s) \in Seq(S) /\ Len(Tail(s)) = Len(s) - 1  OBVIOUS
<1>3. \A i \in 1..Len(Tail(s)) : Tail(s)[i] = s[i + 1]  OBVIOUS
<1>4. Tail(s) # <<>> <=> Len(Tail(s)) # 0  BY <1>2, EmptySeq
<1>5. Tail(s) # <<>> <=> Len(s) >= 2  BY <1>1, <1>2, <1>4
<1>6. Tail(s) # <<>> => Head(Tail(s)) = s[2]
  <2> SUFFICES ASSUME Tail(s) # <<>> PROVE Head(Tail(s)) = s[2]  OBVIOUS
  <2>1. Head(Tail(s)) = Tail(s)[1]  BY <1>2
  <2>2. 1 \in 1..Len(Tail(s))  BY <1>1, <1>2, <1>5
  <2>3. Tail(s)[1] = s[1 + 1]  BY <1>3, <2>2
  <2> QED  BY <2>1, <2>3
<1> QED  BY <1>1, <1>2, <1>3, <1>5, <1>6

LEMMA ThenOf ==
  ASSUME NEW S, NEW s \in Seq(S), s # <<>>, NEW ops \in Seq(S)
  PROVE  /\ ops \o Tail(s) \in Seq(S) /\ Len(ops) \in Nat
         /\ Len(ops \o Tail(s)) = Len(ops) + Len(s) - 1
         /\ \A i \in 1..Len(ops) : (ops \o Tail(s))[i] = ops[i]
         /\ \A i \in 2..Len(s) : (ops \o Tail(s))[Len(ops) + i - 1] = s[i]
         /\ \A i \in (Len(ops) + 1)..(Len(ops) + Len(s) - 1) :
              (ops \o Tail(s))[i] = s[i - Len(ops) + 1] /\ i - Len(ops) + 1 \in 2..Len(s)
         /\ ops = <<>> => ops \o Tail(s) = Tail(s)
         /\ ops # <<>> => /\ ops \o Tail(s) # <<>> /\ Len(ops) >= 1
                          /\ Head(ops \o Tail(s)) = ops[1] /\ Head(ops) = ops[1]
<1> DEFINE r == ops \o Tail(s)
<1>1. /\ Len(s) \in Nat /\ Len(s) >= 1 /\ Tail(s) \in Seq(S) /\ Len(Tail(s)) = Len(s) - 1
      /\ \A i \in 1..Len(Tail(s)) : Tail(s)[i] = s[i + 1]
  BY TailOf
<1>2. /\ r \in Seq(S) /\ Len(ops) \in Nat /\ Len(r) = Len(ops) + Len(s) - 1  BY <1>1
<1>3. \A i \in 1..Len(ops) : r[i] = ops[i]  BY <1>1, <1>2
<1>4. \A i \in (Len(ops) + 1)..(Len(ops) + Len(s) - 1) : r[i] = Tail(s)[i - Len(ops)]
  BY <1>1, <1>2
<1>5. \A i \in (Len(ops) + 1)..(Len(ops) + Len(s) - 1) :
        r[i] = s[i - Len(ops) + 1] /\ i - Len(ops) + 1 \in 2..Len(s)
  <2> TAKE i \in (Len(ops) + 1)..(Len(ops) + Len(s) - 1)
  <2>1. i - Len(ops) \in 1..Len(Tail(s)) /\ i - Len(ops) + 1 \in 2..Len(s)  BY <1>1, <1>2
  <2> QED  BY <1>1, <1>4, <2>1
<1>6. \A i \in 2..Len(s) : r[Len(ops) + i - 1] = s[i]
  <2> TAKE i \in 2..Len(s)
  <2>1. /\ Len(ops) + i - 1 \in (Len(ops) + 1)..(Len(ops) + Len(s) - 1)
        /\ (Len(ops) + i - 1) - Len(ops) + 1 = i
    BY <1>1, <1>2
  <2> QED  BY <1>5, <2>1
<1>7. ops = <<>> => r = Tail(s)  BY <1>1
<1>8. ASSUME ops # <<>>
      PROVE  r # <<>> /\ Len(ops) >= 1 /\ Head(r) = ops[1] /\ Head(ops) = ops[1]
  <2>1. Len(ops) >= 1 /\ Head(ops) = ops[1]  BY <1>8
  <2>2. Len(r) # 0  BY <1>1, <1>2, <2>1
  <2>3. r # <<>>  BY <1>2, <2>2, EmptySeq
  <2>4. Head(r) = r[1]  BY <1>2, <2>3
  <2> QED  BY <1>2, <1>3, <2>1, <2>3, <2>4
<1> QED  BY <1>2, <1>3, <1>5, <1>6, <1>7, <1>8

LEMMA SleepTailTail ==
  \A s \in SleepTails : Tail(s) \in SleepTails \cup {<<"unlock">>}
<1>1. Tail(<<"sleep", "close", "tunerOff", "asleep", "unlock">>)
        = <<"close", "tunerOff", "asleep", "unlock">>
  OBVIOUS
<1>2. Tail(<<"close", "tunerOff", "asleep", "unlock">>) = <<"tunerOff", "asleep", "unlock">>  OBVIOUS
<1>3. Tail(<<"tunerOff", "asleep", "unlock">>) = <<"asleep", "unlock">>  OBVIOUS
<1>4. Tail(<<"asleep", "unlock">>) = <<"unlock">>  OBVIOUS
<1> QED  BY <1>1, <1>2, <1>3, <1>4 DEF SleepTails

LEMMA SleepTailSleeps ==
  \A s \in SleepTails : \E i \in 1..Len(s) : s[i] \in {"sleep", "asleep"}
<1> DEFINE Sleeps(s) == \E i \in 1..Len(s) : s[i] \in {"sleep", "asleep"}
<1>1. Sleeps(<<"sleep", "close", "tunerOff", "asleep", "unlock">>)
  <2> WITNESS 1 \in 1..Len(<<"sleep", "close", "tunerOff", "asleep", "unlock">>)
  <2> QED  OBVIOUS
<1>2. Sleeps(<<"close", "tunerOff", "asleep", "unlock">>)
  <2> WITNESS 3 \in 1..Len(<<"close", "tunerOff", "asleep", "unlock">>)
  <2> QED  OBVIOUS
<1>3. Sleeps(<<"tunerOff", "asleep", "unlock">>)
  <2> WITNESS 2 \in 1..Len(<<"tunerOff", "asleep", "unlock">>)
  <2> QED  OBVIOUS
<1>4. Sleeps(<<"asleep", "unlock">>)
  <2> WITNESS 1 \in 1..Len(<<"asleep", "unlock">>)
  <2> QED  OBVIOUS
<1> HIDE DEF Sleeps
<1>5. \A s \in SleepTails : Sleeps(s)  BY <1>1, <1>2, <1>3, <1>4 DEF SleepTails
<1> QED  BY <1>5 DEF Sleeps

(* The handler of a channel leaves the sleep before it unlocks.             *)
LEMMA EspTail ==
  \A s \in EspTails :
    /\ s \in EspIdle => s = <<>> \/ Head(s) \in {"toHdzero", "toAnalog"}
    /\ s \notin EspIdle =>
         /\ s # <<>> /\ Head(s) \in EspOps /\ Tail(s) \in EspTails
         /\ Head(s) = "unlock" => Tail(s) = <<>>
         /\ Head(s) # "unlock" => Tail(s) \notin EspIdle
         /\ Head(Tail(s)) = "unlock" /\ Tail(s) # <<>> => Head(s) \in {"asHdzero", "asAnalog"}
<1>1. /\ Head(<<"toHdzero">>) = "toHdzero" /\ Head(<<"toAnalog">>) = "toAnalog"
      /\ Tail(<<"analogOff", "openEff", "asHdzero", "unlock">>) = <<"openEff", "asHdzero", "unlock">>
      /\ Tail(<<"openEff", "asHdzero", "unlock">>) = <<"asHdzero", "unlock">>
      /\ Tail(<<"asHdzero", "unlock">>) = <<"unlock">>
      /\ Tail(<<"close", "analogOn", "asAnalog", "unlock">>) = <<"analogOn", "asAnalog", "unlock">>
      /\ Tail(<<"analogOn", "asAnalog", "unlock">>) = <<"asAnalog", "unlock">>
      /\ Tail(<<"asAnalog", "unlock">>) = <<"unlock">>
      /\ Tail(<<"unlock">>) = <<>>
  OBVIOUS
<1>2. /\ Head(<<"analogOff", "openEff", "asHdzero", "unlock">>) = "analogOff"
      /\ Head(<<"openEff", "asHdzero", "unlock">>) = "openEff"
      /\ Head(<<"asHdzero", "unlock">>) = "asHdzero"
      /\ Head(<<"close", "analogOn", "asAnalog", "unlock">>) = "close"
      /\ Head(<<"analogOn", "asAnalog", "unlock">>) = "analogOn"
      /\ Head(<<"asAnalog", "unlock">>) = "asAnalog"
      /\ Head(<<"unlock">>) = "unlock"
  OBVIOUS
<1>3. \A s \in EspIdle : s = <<>> \/ Head(s) \in {"toHdzero", "toAnalog"}  BY <1>1 DEF EspIdle
<1>4. \A s \in EspTails \ EspIdle :
        /\ s # <<>> /\ Head(s) \in EspOps /\ Tail(s) \in EspTails
        /\ Head(s) = "unlock" => Tail(s) = <<>>
        /\ Head(Tail(s)) = "unlock" /\ Tail(s) # <<>> => Head(s) \in {"asHdzero", "asAnalog"}
  BY <1>1, <1>2 DEF EspTails, EspIdle, EspOps
<1>5. ASSUME NEW s \in EspTails \ EspIdle, Head(s) # "unlock" PROVE Tail(s) \notin EspIdle
  <2>1. s # <<"unlock">>  BY <1>2, <1>5
  <2>2. Tail(s) \in {<<"openEff", "asHdzero", "unlock">>, <<"asHdzero", "unlock">>, <<"unlock">>,
                     <<"analogOn", "asAnalog", "unlock">>, <<"asAnalog", "unlock">>}
    BY <1>1, <1>5, <2>1 DEF EspTails
  <2>3. /\ <<"openEff", "asHdzero", "unlock">> \notin EspIdle
        /\ <<"analogOn", "asAnalog", "unlock">> \notin EspIdle
    BY DEF EspIdle
  <2>4. <<"asHdzero", "unlock">> \notin EspIdle /\ <<"asAnalog", "unlock">> \notin EspIdle
    BY DEF EspIdle
  <2>5. <<"unlock">> \notin EspIdle  BY DEF EspIdle
  <2> QED  BY <2>2, <2>3, <2>4, <2>5
<1> QED  BY <1>3, <1>4, <1>5

LEMMA UiTail ==
  ASSUME NEW s, UiOK(s), s # <<>>
  PROVE  /\ UiOK(Tail(s))
         /\ Tail(s) = <<>> <=> s[1] = "unlock"
         /\ Tail(s) # <<>> => Head(Tail(s)) # "sleep"
         /\ s[1] = "openOther" => Tail(s) # <<>> /\ Head(Tail(s)) = "chooseAgain"
<1>0. s \in Seq(UiOps)  BY DEF UiOK
<1>1. /\ Len(s) \in Nat /\ Len(s) >= 1 /\ Tail(s) \in Seq(UiOps) /\ Len(Tail(s)) = Len(s) - 1
      /\ \A i \in 1..Len(Tail(s)) : Tail(s)[i] = s[i + 1]
      /\ Tail(s) # <<>> <=> Len(s) >= 2
      /\ Tail(s) # <<>> => Head(Tail(s)) = s[2]
  BY <1>0, TailOf
<1>2. s[1] = "unlock" <=> 1 = Len(s)
  <2>1. 1 \in 1..Len(s)  BY <1>1
  <2> QED  BY <2>1 DEF UiOK, UiOpOK
<1>3. ASSUME s \in SleepTails
      PROVE  Tail(s) \in SleepTails \cup {<<"unlock">>}
  BY <1>3, SleepTailTail
<1>4. ASSUME NEW i \in 1..Len(Tail(s))
      PROVE  UiOpOK(Tail(s), i)
  <2>1. i \in Nat /\ i + 1 \in 1..Len(s) /\ Tail(s)[i] = s[i + 1] /\ UiOpOK(s, i + 1)
    BY <1>1 DEF UiOK
  <2>2. s[i + 1] = "unlock" <=> i + 1 = Len(s)  BY <2>1 DEF UiOpOK
  <2>3. Tail(s)[i] = "unlock" <=> i = Len(Tail(s))
    <3>1. i + 1 = Len(s) <=> i = Len(Tail(s))  BY <1>1, <2>1
    <3> QED  BY <2>1, <2>2, <3>1
  <2>4. ASSUME Tail(s)[i] = "openOther" PROVE Tail(s)[i + 1] = "chooseAgain"
    <3>1. i # Len(Tail(s))  BY <2>3, <2>4
    <3>2. i + 1 \in 1..Len(Tail(s))
      <4>1. Len(Tail(s)) \in Nat /\ i \in 1..Len(Tail(s))  BY <1>1
      <4> QED  BY <2>1, <3>1, <4>1
    <3>3. s[i + 1 + 1] = "chooseAgain"  BY <2>1, <2>4 DEF UiOpOK
    <3> QED  BY <1>1, <3>2, <3>3
  <2>5. Tail(s)[i] \in {"openOther", "chooseAgain"} => session.both = TRUE  BY <2>1 DEF UiOpOK
  <2>6. ASSUME Tail(s)[i] \in {"sleep", "asleep"} PROVE Tail(s) \in SleepTails
    <3>1. s \in SleepTails  BY <2>1, <2>6 DEF UiOpOK
    <3>2. Tail(s) # <<"unlock">>
      <4> SUFFICES ASSUME Tail(s) = <<"unlock">> PROVE FALSE  OBVIOUS
      <4>1. Len(<<"unlock">>) = 1 /\ <<"unlock">>[1] = "unlock"  OBVIOUS
      <4>2. Len(Tail(s)) = 1 /\ Tail(s)[1] = "unlock"  BY <4>1
      <4>3. i = 1  BY <4>2
      <4> QED  BY <2>6, <4>2, <4>3
    <3> QED  BY <1>3, <3>1, <3>2
  <2> QED  BY <2>3, <2>4, <2>5, <2>6 DEF UiOpOK
<1>5. UiOK(Tail(s))  BY <1>1, <1>4 DEF UiOK
<1>6. ASSUME Tail(s) # <<>> PROVE Head(Tail(s)) # "sleep"
  <2> SUFFICES ASSUME s[2] = "sleep" PROVE FALSE  BY <1>1, <1>6
  <2>1. s \in SleepTails
    <3>1. 2 \in 1..Len(s)  BY <1>1, <1>6
    <3> QED  BY <3>1 DEF UiOK, UiOpOK
  <2> QED  BY <2>1 DEF SleepTails
<1>7. ASSUME s[1] = "openOther" PROVE Tail(s) # <<>> /\ Head(Tail(s)) = "chooseAgain"
  <2>1. Len(s) >= 2  BY <1>1, <1>2, <1>7
  <2>2. s[1 + 1] = "chooseAgain"
    <3>1. 1 \in 1..Len(s)  BY <1>1
    <3> QED  BY <1>7, <3>1 DEF UiOK, UiOpOK
  <2> QED  BY <1>1, <2>1, <2>2
<1> QED  BY <1>1, <1>2, <1>5, <1>6, <1>7

(* What puts the goggles to sleep is all go_sleep.                          *)
LEMMA SleepTailBefore ==
  ASSUME NEW s, UiOK(s), s # <<>>, s[1] \in {"sleep", "asleep"} \/ Tail(s) \in SleepTails
  PROVE  s \in SleepTails
<1>0. s \in Seq(UiOps)  BY DEF UiOK
<1>1. /\ Len(s) \in Nat /\ Len(s) >= 1 /\ Tail(s) \in Seq(UiOps) /\ Len(Tail(s)) = Len(s) - 1
      /\ \A i \in 1..Len(Tail(s)) : Tail(s)[i] = s[i + 1]
  BY <1>0, TailOf
<1>2. CASE s[1] \in {"sleep", "asleep"}
  <2>1. 1 \in 1..Len(s)  BY <1>1
  <2> QED  BY <1>2, <2>1 DEF UiOK, UiOpOK
<1>3. CASE Tail(s) \in SleepTails
  <2>1. PICK i \in 1..Len(Tail(s)) : Tail(s)[i] \in {"sleep", "asleep"}  BY <1>3, SleepTailSleeps
  <2>2. i + 1 \in 1..Len(s) /\ s[i + 1] \in {"sleep", "asleep"}  BY <1>1, <2>1
  <2> QED  BY <2>2 DEF UiOK, UiOpOK
<1> QED  BY <1>2, <1>3

LEMMA PerTail ==
  ASSUME NEW s, PerOK(s), s # <<>>
  PROVE  /\ PerOK(Tail(s))
         /\ s[1] \in Leading <=> Tail(s) # <<>> /\ Head(Tail(s)) \in Locking
         /\ s[1] \in Leading => (Head(Tail(s)) = "hopProbe" <=> s[1] = "hop")
         /\ s[1] \in Others => Head(Tail(s)) = "otherProbe"
         /\ s[1] = "analogOff" => Head(Tail(s)) = "openEff"
         /\ \A i \in 2..Len(s) : s[i] # "toHdzero"
<1>0. s \in Seq(Locking \cup Roaming)  BY DEF PerOK
<1>1. /\ Len(s) \in Nat /\ Len(s) >= 1 /\ Tail(s) \in Seq(Locking \cup Roaming)
      /\ Len(Tail(s)) = Len(s) - 1
      /\ \A i \in 1..Len(Tail(s)) : Tail(s)[i] = s[i + 1]
      /\ Tail(s) # <<>> <=> Len(s) >= 2
      /\ Tail(s) # <<>> => Head(Tail(s)) = s[2]
  BY <1>0, TailOf
<1>2. \A i \in 2..Len(s) : s[i] # "toHdzero"
  <2> TAKE i \in 2..Len(s)
  <2>1. i \in 1..Len(s) /\ i # 1  BY <1>1
  <2> QED  BY <2>1 DEF PerOK, PerOpOK
<1>3. ASSUME NEW i \in 1..Len(Tail(s)) PROVE PerOpOK(Tail(s), i)
  <2>1. /\ i \in Nat /\ i + 1 \in 2..Len(s) /\ Tail(s)[i] = s[i + 1]
        /\ Len(Tail(s)) \in Nat /\ PerOpOK(s, i + 1)
    BY <1>1 DEF PerOK
  <2>2. i < Len(Tail(s)) <=> i + 1 < Len(s)  BY <1>1, <2>1
  <2>3. i < Len(Tail(s)) => i + 1 \in 1..Len(Tail(s)) /\ Tail(s)[i + 1] = s[i + 1 + 1]
    BY <1>1, <2>1
  <2>4. s[i + 1] \in Leading <=> i + 1 < Len(s) /\ s[i + 1 + 1] \in Locking  BY <2>1 DEF PerOpOK
  <2>5. Tail(s)[i] \in Leading <=> i < Len(Tail(s)) /\ Tail(s)[i + 1] \in Locking
    BY <2>1, <2>2, <2>3, <2>4
  <2>6. Tail(s)[i] \in Leading => Tail(s)[i + 1] = s[i + 1 + 1]
    BY <2>1, <2>2, <2>3, <2>4 DEF Leading
  <2>7. /\ Tail(s)[i] \in Leading => (Tail(s)[i + 1] = "hopProbe" <=> Tail(s)[i] = "hop")
        /\ Tail(s)[i] \in Others => Tail(s)[i + 1] = "otherProbe"
        /\ Tail(s)[i] = "analogOff" => Tail(s)[i + 1] = "openEff"
    BY <2>1, <2>6 DEF PerOpOK, Leading, Others
  <2>8. ASSUME Tail(s)[i] \in {"sweepWide", "sweepNarrow"}
        PROVE  \E j \in (i + 1)..Len(Tail(s)) : Tail(s)[j] = "swept"
    <3>1. PICK k \in (i + 1 + 1)..Len(s) : s[k] = "swept"  BY <2>1, <2>8 DEF PerOpOK
    <3>2. k - 1 \in (i + 1)..Len(Tail(s)) /\ k - 1 \in 1..Len(Tail(s)) /\ k - 1 + 1 = k  BY <1>1, <2>1
    <3>3. Tail(s)[k - 1] = "swept"  BY <1>1, <3>1, <3>2
    <3> QED  BY <3>2, <3>3
  <2>9. Tail(s)[i] # "toHdzero"  BY <1>2, <2>1
  <2>10. /\ Tail(s)[i] \in {"hop", "hopProbe", "home", "otherProbe"} \cup Others => session.both = TRUE
         /\ Tail(s)[i] = "reset" => session.both = FALSE
         /\ Tail(s)[i] \in (Roaming \ {"bw", "bwLock"}) \cup {"otherProbe"} \cup Others => session.crossover = TRUE
    BY <2>1 DEF PerOpOK
  <2> QED  BY <2>5, <2>7, <2>8, <2>9, <2>10 DEF PerOpOK
<1>4. PerOK(Tail(s))  BY <1>1, <1>3 DEF PerOK
<1>5. PerOpOK(s, 1)
  <2>1. 1 \in 1..Len(s)  BY <1>1
  <2> QED  BY <2>1 DEF PerOK
<1>6. s[1] \in Leading <=> 1 < Len(s) /\ s[1 + 1] \in Locking  BY <1>5 DEF PerOpOK
<1>7. s[1] \in Leading <=> Tail(s) # <<>> /\ Head(Tail(s)) \in Locking
  <2>1. 1 < Len(s) <=> Len(s) >= 2  BY <1>1
  <2> QED  BY <1>1, <1>6, <2>1
<1>8. s[1] \in Leading => Head(Tail(s)) = s[1 + 1]
  BY <1>1, <1>7 DEF Leading
<1>9. /\ s[1] \in Leading => (s[1 + 1] = "hopProbe" <=> s[1] = "hop")
      /\ s[1] \in Others => s[1 + 1] = "otherProbe"
      /\ s[1] = "analogOff" => s[1 + 1] = "openEff"
  BY <1>5 DEF PerOpOK
<1> QED  BY <1>2, <1>4, <1>7, <1>8, <1>9 DEF Leading, Others

(* A handler of which the head is replaced by further steps; what follows   *)
(* the head has no lock.                                                    *)
LEMMA PerThen ==
  ASSUME NEW s, NEW ops, PerOK(s), PerOK(ops), s # <<>>, ops # <<>>, s[1] \notin Leading
  PROVE  PerOK(ops \o Tail(s))
<1> DEFINE r == ops \o Tail(s)
<1>0. s \in Seq(Locking \cup Roaming) /\ ops \in Seq(Locking \cup Roaming)  BY DEF PerOK
<1>1. /\ r \in Seq(Locking \cup Roaming) /\ Len(ops) \in Nat /\ Len(s) \in Nat /\ Len(s) >= 1
      /\ Len(ops) >= 1 /\ Len(r) = Len(ops) + Len(s) - 1
      /\ \A i \in 1..Len(ops) : r[i] = ops[i]
      /\ \A i \in 2..Len(s) : r[Len(ops) + i - 1] = s[i]
      /\ \A i \in (Len(ops) + 1)..(Len(ops) + Len(s) - 1) :
           r[i] = s[i - Len(ops) + 1] /\ i - Len(ops) + 1 \in 2..Len(s)
  BY <1>0, ThenOf, TailOf
<1>2. ~(1 < Len(s) /\ s[2] \in Locking)
  <2>1. 1 \in 1..Len(s)  BY <1>1
  <2>2. s[1] \in Leading <=> 1 < Len(s) /\ s[1 + 1] \in Locking  BY <2>1 DEF PerOK, PerOpOK
  <2> QED  BY <2>2
<1>3. ASSUME NEW i \in 1..Len(ops) PROVE PerOpOK(r, i)
  <2>1. i \in Nat /\ r[i] = ops[i] /\ PerOpOK(ops, i)  BY <1>1 DEF PerOK
  <2>2. ops[i] \in Leading <=> i < Len(ops) /\ ops[i + 1] \in Locking  BY <2>1 DEF PerOpOK
  <2>3. i < Len(ops) => i < Len(r) /\ i + 1 \in 1..Len(ops) /\ r[i + 1] = ops[i + 1]
    BY <1>1, <2>1
  <2>4. ~(i < Len(ops)) => ~(i < Len(r) /\ r[i + 1] \in Locking)
    <3> SUFFICES ASSUME ~(i < Len(ops)), i < Len(r) PROVE r[i + 1] \notin Locking  OBVIOUS
    <3>1. i = Len(ops) /\ 1 < Len(s)  BY <1>1, <2>1
    <3>2. Len(ops) + 2 - 1 = i + 1 /\ 2 \in 2..Len(s)  BY <1>1, <3>1
    <3>3. r[i + 1] = s[2]  BY <1>1, <3>2
    <3> QED  BY <1>2, <3>1, <3>3
  <2>5. r[i] \in Leading <=> i < Len(r) /\ r[i + 1] \in Locking  BY <2>1, <2>2, <2>3, <2>4
  <2>6. r[i] \in Leading => r[i + 1] = ops[i + 1]
    BY <2>1, <2>2, <2>3 DEF Leading
  <2>7. /\ r[i] \in Leading => (r[i + 1] = "hopProbe" <=> r[i] = "hop")
        /\ r[i] \in Others => r[i + 1] = "otherProbe"
        /\ r[i] = "analogOff" => r[i + 1] = "openEff"
    BY <2>1, <2>6 DEF PerOpOK, Leading, Others
  <2>8. ASSUME r[i] \in {"sweepWide", "sweepNarrow"}
        PROVE  \E j \in (i + 1)..Len(r) : r[j] = "swept"
    <3>1. PICK j \in (i + 1)..Len(ops) : ops[j] = "swept"  BY <2>1, <2>8 DEF PerOpOK
    <3>2. j \in (i + 1)..Len(r) /\ j \in 1..Len(ops)  BY <1>1, <2>1
    <3> QED  BY <1>1, <3>1, <3>2
  <2>9. /\ r[i] = "toHdzero" => i = 1
        /\ r[i] \in {"hop", "hopProbe", "home", "otherProbe"} \cup Others => session.both = TRUE
        /\ r[i] = "reset" => session.both = FALSE
        /\ r[i] \in (Roaming \ {"bw", "bwLock"}) \cup {"otherProbe"} \cup Others => session.crossover = TRUE
    BY <2>1 DEF PerOpOK
  <2> QED  BY <2>5, <2>7, <2>8, <2>9 DEF PerOpOK
<1>4. ASSUME NEW i \in (Len(ops) + 1)..Len(r) PROVE PerOpOK(r, i)
  <2> DEFINE k == i - Len(ops) + 1
  <2>1. i \in Nat /\ k \in 2..Len(s) /\ k \in 1..Len(s) /\ r[i] = s[k] /\ k # 1  BY <1>1
  <2>2. PerOpOK(s, k)  BY <2>1 DEF PerOK
  <2>3. k < Len(s) <=> i < Len(r)  BY <1>1, <2>1
  <2>4. i < Len(r) => r[i + 1] = s[k + 1]
    <3> SUFFICES ASSUME i < Len(r) PROVE r[i + 1] = s[k + 1]  OBVIOUS
    <3>1. k + 1 \in 2..Len(s) /\ Len(ops) + (k + 1) - 1 = i + 1  BY <1>1, <2>1, <2>3
    <3> HIDE DEF k
    <3>2. r[Len(ops) + (k + 1) - 1] = s[k + 1]  BY <1>1, <3>1
    <3> QED  BY <3>1, <3>2
  <2>5. \A j \in (k + 1)..Len(s) : /\ j + Len(ops) - 1 \in (i + 1)..Len(r)
                                  /\ r[j + Len(ops) - 1] = s[j]
    <3> TAKE j \in (k + 1)..Len(s)
    <3>1. j \in 2..Len(s) /\ j + Len(ops) - 1 = Len(ops) + j - 1
          /\ j + Len(ops) - 1 \in (i + 1)..Len(r)
      BY <1>1, <2>1
    <3> QED  BY <1>1, <3>1
  <2> HIDE DEF k, r
  <2>6. s[k] \in Leading <=> k < Len(s) /\ s[k + 1] \in Locking  BY <2>2 DEF PerOpOK
  <2>7. r[i] \in Leading <=> i < Len(r) /\ r[i + 1] \in Locking  BY <2>1, <2>3, <2>4, <2>6
  <2>8. s[k] \in Leading => r[i + 1] = s[k + 1]
    BY <2>3, <2>4, <2>6 DEF Leading
  <2>9. s[k] \in {"sweepWide", "sweepNarrow"} => \E j \in (i + 1)..Len(r) : r[j] = "swept"
    <3> SUFFICES ASSUME s[k] \in {"sweepWide", "sweepNarrow"}
                 PROVE  \E j \in (i + 1)..Len(r) : r[j] = "swept"
      OBVIOUS
    <3>1. PICK j \in (k + 1)..Len(s) : s[j] = "swept"  BY <2>2 DEF PerOpOK
    <3> QED  BY <2>5, <3>1
  <2>10. s[k] # "toHdzero"  BY <2>1, <2>2 DEF PerOpOK
  <2> QED  BY <2>1, <2>2, <2>7, <2>8, <2>9, <2>10 DEF PerOpOK, Leading, Others
<1>5. \A i \in 1..Len(r) : PerOpOK(r, i)
  <2> TAKE i \in 1..Len(r)
  <2>1. i \in 1..Len(ops) \/ i \in (Len(ops) + 1)..Len(r)  BY <1>1
  <2> HIDE DEF r
  <2> QED  BY <1>3, <1>4, <2>1
<1> QED  BY <1>1, <1>5 DEF PerOK

(* The sweeps and the switches of the crossover among the steps of a        *)
(* handler of which the head is replaced.                                   *)
LEMMA LeavesThen ==
  ASSUME NEW s, NEW ops, PerOK(s), PerOK(ops), s # <<>>
  PROVE  /\ Leaves(ops) => Leaves(ops \o Tail(s))
         /\ s[1] \notin {"toAnalog", "toHdzero", "swept"} /\ Leaves(s) => Leaves(ops \o Tail(s))
         /\ Leaves(ops \o Tail(s)) => Leaves(ops) \/ Leaves(s)
<1> DEFINE r == ops \o Tail(s)
           L == {"toAnalog", "toHdzero", "swept"}
<1>0. s \in Seq(Locking \cup Roaming) /\ ops \in Seq(Locking \cup Roaming)  BY DEF PerOK
<1>1. /\ r \in Seq(Locking \cup Roaming) /\ Len(ops) \in Nat /\ Len(s) \in Nat /\ Len(s) >= 1
      /\ Len(r) = Len(ops) + Len(s) - 1
      /\ \A i \in 1..Len(ops) : r[i] = ops[i]
      /\ \A i \in 2..Len(s) : r[Len(ops) + i - 1] = s[i]
      /\ \A i \in (Len(ops) + 1)..(Len(ops) + Len(s) - 1) :
           r[i] = s[i - Len(ops) + 1] /\ i - Len(ops) + 1 \in 2..Len(s)
  BY <1>0, ThenOf, TailOf
<1>2. DOMAIN r = 1..Len(r) /\ DOMAIN s = 1..Len(s) /\ DOMAIN ops = 1..Len(ops)  BY <1>0, <1>1
<1> HIDE DEF r
<1>3. ASSUME NEW op \in L, NEW i \in 1..Len(ops), ops[i] = op
      PROVE  \E j \in 1..Len(r) : r[j] = op
  <2>1. i \in 1..Len(r)  BY <1>1
  <2> QED  BY <1>1, <1>3, <2>1
<1>4. ASSUME NEW op \in L, NEW i \in 1..Len(s), s[i] = op, s[1] \notin L
      PROVE  \E j \in 1..Len(r) : r[j] = op
  <2>1. i \in 2..Len(s)  BY <1>1, <1>4
  <2>2. Len(ops) + i - 1 \in 1..Len(r) /\ r[Len(ops) + i - 1] = op  BY <1>1, <1>4, <2>1
  <2> QED  BY <2>2
<1>5. ASSUME NEW op \in L, NEW i \in 1..Len(r), r[i] = op
      PROVE  (\E j \in 1..Len(ops) : ops[j] = op) \/ (\E j \in 1..Len(s) : s[j] = op)
  <2>1. CASE i <= Len(ops)
    <3>1. i \in 1..Len(ops)  BY <1>1, <2>1
    <3> QED  BY <1>1, <1>5, <3>1
  <2>2. CASE ~(i <= Len(ops))
    <3>1. i \in (Len(ops) + 1)..(Len(ops) + Len(s) - 1)  BY <1>1, <2>2
    <3>2. r[i] = s[i - Len(ops) + 1] /\ i - Len(ops) + 1 \in 1..Len(s)  BY <1>1, <3>1
    <3> QED  BY <1>5, <3>2
  <2> QED  BY <2>1, <2>2
<1>6. /\ Leaves(r) <=> \E op \in L : \E i \in 1..Len(r) : r[i] = op
      /\ Leaves(s) <=> \E op \in L : \E i \in 1..Len(s) : s[i] = op
      /\ Leaves(ops) <=> \E op \in L : \E i \in 1..Len(ops) : ops[i] = op
  BY <1>2 DEF Leaves
<1> HIDE DEF L
<1>7. Leaves(ops) => Leaves(r)  BY <1>3, <1>6
<1>8. s[1] \notin L /\ Leaves(s) => Leaves(r)  BY <1>4, <1>6
<1>9. Leaves(r) => Leaves(ops) \/ Leaves(s)  BY <1>5, <1>6
<1> QED  BY <1>7, <1>8, <1>9 DEF r, L

LEMMA LeavesTail ==
  ASSUME NEW s, PerOK(s), s # <<>>
  PROVE  /\ s[1] \notin {"toAnalog", "toHdzero", "swept"} => (Leaves(Tail(s)) <=> Leaves(s))
         /\ Leaves(Tail(s)) => Leaves(s)
         /\ s[1] \in {"sweepWide", "sweepNarrow"} => Leaves(Tail(s))
<1>1. s \in Seq(Locking \cup Roaming)  BY DEF PerOK
<1>2. PerOK(<<>>)  BY DEF PerOK
<1>3. <<>> \o Tail(s) = Tail(s)  BY <1>1, ThenOf
<1>4. ~Leaves(<<>>)  BY DEF Leaves
<1>5. /\ s[1] \notin {"toAnalog", "toHdzero", "swept"} => (Leaves(Tail(s)) <=> Leaves(s))
      /\ Leaves(Tail(s)) => Leaves(s)
  BY <1>2, <1>3, <1>4, LeavesThen
<1>6. s[1] \in {"sweepWide", "sweepNarrow"} => Leaves(s)
  <2> SUFFICES ASSUME s[1] \in {"sweepWide", "sweepNarrow"} PROVE Leaves(s)  OBVIOUS
  <2>1. Len(s) \in Nat /\ 1 \in 1..Len(s) /\ DOMAIN s = 1..Len(s)  BY <1>1
  <2>2. PICK j \in (1 + 1)..Len(s) : s[j] = "swept"  BY <2>1 DEF PerOK, PerOpOK
  <2>3. j \in DOMAIN s  BY <2>1
  <2> QED  BY <2>2, <2>3 DEF Leaves
<1> QED  BY <1>5, <1>6

LEMMA ConcatIs ==
  ASSUME NEW S, NEW p \in Seq(S), NEW q \in Seq(S), NEW r \in Seq(S),
         Len(r) = Len(p) + Len(q),
         \A i \in 1..Len(p) : r[i] = p[i],
         \A i \in 1..Len(q) : r[Len(p) + i] = q[i]
  PROVE  p \o q = r
<1>1. /\ p \o q \in Seq(S) /\ Len(p \o q) = Len(p) + Len(q) /\ Len(p) \in Nat /\ Len(q) \in Nat
      /\ \A i \in 1..Len(p) + Len(q) : (p \o q)[i] = IF i <= Len(p) THEN p[i] ELSE q[i - Len(p)]
  BY ConcatProperties
<1>2. ASSUME NEW i \in 1..Len(p \o q) PROVE (p \o q)[i] = r[i]
  <2>1. CASE i <= Len(p)
    <3>1. i \in 1..Len(p)  BY <1>1, <2>1
    <3> QED  BY <1>1, <2>1, <3>1
  <2>2. CASE ~(i <= Len(p))
    <3>1. i - Len(p) \in 1..Len(q) /\ Len(p) + (i - Len(p)) = i  BY <1>1, <2>2
    <3>2. r[i] = q[i - Len(p)]  BY <3>1
    <3> QED  BY <1>1, <2>2, <3>2
  <2> QED  BY <2>1, <2>2
<1> QED  BY <1>1, <1>2, SeqEqual

(* The handlers are put together from their parts.                          *)
LEMMA Join31 ==
  ASSUME NEW a, NEW b, NEW c, NEW d
  PROVE  <<a, b, c>> \o <<d>> = <<a, b, c, d>>
<1> DEFINE S == {a, b, c, d}
           p == <<a, b, c>>
           q == <<d>>
           r == <<a, b, c, d>>
<1>1. p \in Seq(S) /\ q \in Seq(S) /\ r \in Seq(S)  OBVIOUS
<1>2. /\ Len(p) = 3 /\ Len(q) = 1 /\ Len(r) = 4
      /\ \A k \in 1..3 : r[k] = p[k]
      /\ \A k \in 1..1 : r[3 + k] = q[k]
  OBVIOUS
<1> HIDE DEF p, q, r, S
<1>3. Len(r) = Len(p) + Len(q)  BY <1>2
<1>4. (\A k \in 1..Len(p) : r[k] = p[k]) /\ (\A k \in 1..Len(q) : r[Len(p) + k] = q[k])  BY <1>2
<1>5. p \o q = r  BY <1>1, <1>3, <1>4, ConcatIs
<1> QED  BY <1>5 DEF p, q, r

LEMMA Join32 ==
  ASSUME NEW a, NEW b, NEW c, NEW d, NEW e
  PROVE  <<a, b, c>> \o <<d, e>> = <<a, b, c, d, e>>
<1> DEFINE S == {a, b, c, d, e}
           p == <<a, b, c>>
           q == <<d, e>>
           r == <<a, b, c, d, e>>
<1>1. p \in Seq(S) /\ q \in Seq(S) /\ r \in Seq(S)  OBVIOUS
<1>2. /\ Len(p) = 3 /\ Len(q) = 2 /\ Len(r) = 5
      /\ \A k \in 1..3 : r[k] = p[k]
      /\ \A k \in 1..2 : r[3 + k] = q[k]
  OBVIOUS
<1> HIDE DEF p, q, r, S
<1>3. Len(r) = Len(p) + Len(q)  BY <1>2
<1>4. (\A k \in 1..Len(p) : r[k] = p[k]) /\ (\A k \in 1..Len(q) : r[Len(p) + k] = q[k])  BY <1>2
<1>5. p \o q = r  BY <1>1, <1>3, <1>4, ConcatIs
<1> QED  BY <1>5 DEF p, q, r

LEMMA Join51 ==
  ASSUME NEW a, NEW b, NEW c, NEW d, NEW e, NEW f
  PROVE  <<a, b, c, d, e>> \o <<f>> = <<a, b, c, d, e, f>>
<1> DEFINE S == {a, b, c, d, e, f}
           p == <<a, b, c, d, e>>
           q == <<f>>
           r == <<a, b, c, d, e, f>>
<1>1. p \in Seq(S) /\ q \in Seq(S) /\ r \in Seq(S)  OBVIOUS
<1>2. /\ Len(p) = 5 /\ Len(q) = 1 /\ Len(r) = 6
      /\ \A k \in 1..5 : r[k] = p[k]
      /\ \A k \in 1..1 : r[5 + k] = q[k]
  OBVIOUS
<1> HIDE DEF p, q, r, S
<1>3. Len(r) = Len(p) + Len(q)  BY <1>2
<1>4. (\A k \in 1..Len(p) : r[k] = p[k]) /\ (\A k \in 1..Len(q) : r[Len(p) + k] = q[k])  BY <1>2
<1>5. p \o q = r  BY <1>1, <1>3, <1>4, ConcatIs
<1> QED  BY <1>5 DEF p, q, r

LEMMA Join43 ==
  ASSUME NEW a, NEW b, NEW c, NEW d, NEW e, NEW f, NEW g
  PROVE  <<a, b, c, d>> \o <<e, f, g>> = <<a, b, c, d, e, f, g>>
<1> DEFINE S == {a, b, c, d, e, f, g}
           p == <<a, b, c, d>>
           q == <<e, f, g>>
           r == <<a, b, c, d, e, f, g>>
<1>1. p \in Seq(S) /\ q \in Seq(S) /\ r \in Seq(S)  OBVIOUS
<1>2. /\ Len(p) = 4 /\ Len(q) = 3 /\ Len(r) = 7
      /\ \A k \in 1..4 : r[k] = p[k]
      /\ \A k \in 1..3 : r[4 + k] = q[k]
  OBVIOUS
<1> HIDE DEF p, q, r, S
<1>3. Len(r) = Len(p) + Len(q)  BY <1>2
<1>4. (\A k \in 1..Len(p) : r[k] = p[k]) /\ (\A k \in 1..Len(q) : r[Len(p) + k] = q[k])  BY <1>2
<1>5. p \o q = r  BY <1>1, <1>3, <1>4, ConcatIs
<1> QED  BY <1>5 DEF p, q, r

LEMMA Join17 ==
  ASSUME NEW a, NEW b, NEW c, NEW d, NEW e, NEW f, NEW g, NEW h
  PROVE  <<a>> \o <<b, c, d, e, f, g, h>> = <<a, b, c, d, e, f, g, h>>
<1> DEFINE S == {a, b, c, d, e, f, g, h}
           p == <<a>>
           q == <<b, c, d, e, f, g, h>>
           r == <<a, b, c, d, e, f, g, h>>
<1>1. p \in Seq(S) /\ q \in Seq(S) /\ r \in Seq(S)  OBVIOUS
<1>2. /\ Len(p) = 1 /\ Len(q) = 7 /\ Len(r) = 8
      /\ \A k \in 1..1 : r[k] = p[k]
      /\ \A k \in 1..7 : r[1 + k] = q[k]
  OBVIOUS
<1> HIDE DEF p, q, r, S
<1>3. Len(r) = Len(p) + Len(q)  BY <1>2
<1>4. (\A k \in 1..Len(p) : r[k] = p[k]) /\ (\A k \in 1..Len(q) : r[Len(p) + k] = q[k])  BY <1>2
<1>5. p \o q = r  BY <1>1, <1>3, <1>4, ConcatIs
<1> QED  BY <1>5 DEF p, q, r

LEMMA Join81 ==
  ASSUME NEW a, NEW b, NEW c, NEW d, NEW e, NEW f, NEW g, NEW h, NEW i
  PROVE  <<a, b, c, d, e, f, g, h>> \o <<i>> = <<a, b, c, d, e, f, g, h, i>>
<1> DEFINE S == {a, b, c, d, e, f, g, h, i}
           p == <<a, b, c, d, e, f, g, h>>
           q == <<i>>
           r == <<a, b, c, d, e, f, g, h, i>>
<1>1. p \in Seq(S) /\ q \in Seq(S) /\ r \in Seq(S)  OBVIOUS
<1>2. /\ Len(p) = 8 /\ Len(q) = 1 /\ Len(r) = 9
      /\ \A k \in 1..8 : r[k] = p[k]
      /\ \A k \in 1..1 : r[8 + k] = q[k]
  OBVIOUS
<1> HIDE DEF p, q, r, S
<1>3. Len(r) = Len(p) + Len(q)  BY <1>2
<1>4. (\A k \in 1..Len(p) : r[k] = p[k]) /\ (\A k \in 1..Len(q) : r[Len(p) + k] = q[k])  BY <1>2
<1>5. p \o q = r  BY <1>1, <1>3, <1>4, ConcatIs
<1> QED  BY <1>5 DEF p, q, r

LEMMA Join11 ==
  ASSUME NEW a, NEW b
  PROVE  <<a>> \o <<b>> = <<a, b>>
<1> DEFINE S == {a, b}
           p == <<a>>
           q == <<b>>
           r == <<a, b>>
<1>1. p \in Seq(S) /\ q \in Seq(S) /\ r \in Seq(S)  OBVIOUS
<1>2. /\ Len(p) = 1 /\ Len(q) = 1 /\ Len(r) = 2
      /\ \A k \in 1..1 : r[k] = p[k]
      /\ \A k \in 1..1 : r[1 + k] = q[k]
  OBVIOUS
<1> HIDE DEF p, q, r, S
<1>3. Len(r) = Len(p) + Len(q)  BY <1>2
<1>4. (\A k \in 1..Len(p) : r[k] = p[k]) /\ (\A k \in 1..Len(q) : r[Len(p) + k] = q[k])  BY <1>2
<1>5. p \o q = r  BY <1>1, <1>3, <1>4, ConcatIs
<1> QED  BY <1>5 DEF p, q, r

(* The handlers as they begin, and what their steps add to them.            *)
LEMMA UiBegins ==
  /\ UiOK(<<"menu", "close", "analogOff", "unlock">>)
  /\ UiOK(<<"analogOff", "openEff", "asHdzero", "unlock">>)
  /\ UiOK(<<"close", "analogOn", "asAnalog", "unlock">>)
  /\ UiOK(<<"openEff", "analogOn", "choose", "unlock">>)
  /\ UiOK(<<"sleep", "close", "tunerOff", "asleep", "unlock">>)
  /\ UiOK(<<"wake", "unlock">>)
  /\ UiOK(<<"wake", "menu", "close", "analogOff", "video", "analogOff", "openEff", "asHdzero", "unlock">>)
  /\ UiOK(<<"wake", "menu", "close", "analogOff", "video", "close", "analogOn", "asAnalog", "unlock">>)
<1>1. UiOK(<<"menu", "close", "analogOff", "unlock">>)  BY DEF UiOK, UiOpOK, UiOps
<1>2. UiOK(<<"analogOff", "openEff", "asHdzero", "unlock">>)  BY DEF UiOK, UiOpOK, UiOps
<1>3. UiOK(<<"close", "analogOn", "asAnalog", "unlock">>)  BY DEF UiOK, UiOpOK, UiOps
<1>4. UiOK(<<"openEff", "analogOn", "choose", "unlock">>)  BY DEF UiOK, UiOpOK, UiOps
<1>5. UiOK(<<"sleep", "close", "tunerOff", "asleep", "unlock">>)
  BY DEF UiOK, UiOpOK, UiOps, SleepTails
<1>6. UiOK(<<"wake", "unlock">>)  BY DEF UiOK, UiOpOK, UiOps
<1>7. UiOK(<<"wake", "menu", "close", "analogOff", "video", "analogOff", "openEff", "asHdzero", "unlock">>)
  BY DEF UiOK, UiOpOK, UiOps
<1>8. UiOK(<<"wake", "menu", "close", "analogOff", "video", "close", "analogOn", "asAnalog", "unlock">>)
  BY DEF UiOK, UiOpOK, UiOps
<1> QED  BY <1>1, <1>2, <1>3, <1>4, <1>5, <1>6, <1>7, <1>8

LEMMA PerAdds ==
  /\ PerOK(<<>>) /\ PerOK(<<"bw">>) /\ PerOK(<<"bwLock">>) /\ PerOK(<<"unlock">>)
  /\ session.both = FALSE => PerOK(<<"reset", "unlock">>)
  /\ session.both = TRUE => PerOK(<<"hop", "hopProbe">>) /\ PerOK(<<"home", "unlock">>)
  /\ PerOK(<<"close", "analogOn", "asAnalog", "unlock">>)
  /\ PerOK(<<"analogOff", "openEff", "asHdzero", "unlock">>)
  /\ session.crossover = TRUE =>
       /\ PerOK(<<"bw", "power", "idle">>) /\ PerOK(<<"powerDown">>) /\ PerOK(<<"probeAnalog">>)
       /\ PerOK(<<"toAnalog">>) /\ PerOK(<<"toHdzero">>) /\ PerOK(<<"unlock", "toAnalog">>)
       /\ PerOK(<<"sweepAnalog", "sweepWide", "probeWide", "swept">>)
       /\ PerOK(<<"sweepAnalog", "sweepWide", "probeWide", "sweepNarrow", "probeNarrow", "swept">>)
       /\ session.both = TRUE => /\ PerOK(<<"otherLock", "otherWide", "otherProbe">>)
                                 /\ PerOK(<<"otherLock", "otherNarrow", "otherProbe">>)
<1> USE DEF PerOK, PerOpOK, Leading, Locking, Roaming, Sweeps, Others
<1>1. PerOK(<<>>) /\ PerOK(<<"bw">>) /\ PerOK(<<"bwLock">>) /\ PerOK(<<"unlock">>)  OBVIOUS
<1>2. session.both = FALSE => PerOK(<<"reset", "unlock">>)  OBVIOUS
<1>3. session.both = TRUE => PerOK(<<"hop", "hopProbe">>)  OBVIOUS
<1>4. session.both = TRUE => PerOK(<<"home", "unlock">>)  OBVIOUS
<1>5. PerOK(<<"close", "analogOn", "asAnalog", "unlock">>)  OBVIOUS
<1>6. PerOK(<<"analogOff", "openEff", "asHdzero", "unlock">>)  OBVIOUS
<1>7. ASSUME session.crossover = TRUE
      PROVE  /\ PerOK(<<"bw", "power", "idle">>) /\ PerOK(<<"powerDown">>) /\ PerOK(<<"probeAnalog">>)
             /\ PerOK(<<"toAnalog">>) /\ PerOK(<<"toHdzero">>) /\ PerOK(<<"unlock", "toAnalog">>)
  <2>1. PerOK(<<"bw", "power", "idle">>)  BY <1>7
  <2>2. PerOK(<<"powerDown">>) /\ PerOK(<<"probeAnalog">>)  BY <1>7
  <2>3. PerOK(<<"toAnalog">>) /\ PerOK(<<"toHdzero">>)  BY <1>7
  <2>4. PerOK(<<"unlock", "toAnalog">>)  BY <1>7
  <2> QED  BY <2>1, <2>2, <2>3, <2>4
<1>8. session.crossover = TRUE => PerOK(<<"sweepAnalog", "sweepWide", "probeWide", "swept">>)  OBVIOUS
<1>9. session.crossover = TRUE =>
        PerOK(<<"sweepAnalog", "sweepWide", "probeWide", "sweepNarrow", "probeNarrow", "swept">>)
  OBVIOUS
<1>10. session.crossover = TRUE /\ session.both = TRUE => PerOK(<<"otherLock", "otherWide", "otherProbe">>)
  OBVIOUS
<1>11. session.crossover = TRUE /\ session.both = TRUE => PerOK(<<"otherLock", "otherNarrow", "otherProbe">>)
  OBVIOUS
<1> HIDE DEF PerOK
<1> QED  BY <1>1, <1>2, <1>3, <1>4, <1>5, <1>6, <1>7, <1>8, <1>9, <1>10, <1>11

-----------------------------------------------------------------------------
(* The threads and the lock.                                                *)

LEMMA AtHead ==
  ASSUME Handlers, NEW t \in Threads
  PROVE  /\ todo[t] # <<>> => Head(todo[t]) = todo[t][1] /\ todo[t] \in Seq(UiOps \cup Locking \cup Roaming)
         /\ \A op : At(t, op) <=> todo[t] # <<>> /\ todo[t][1] = op
         /\ \A op : At("per", op) => op \in Locking \cup Roaming
         /\ \A op : At("ui", op) => op \in UiOps
         /\ \A op : At("esp", op) => op \in EspOps \cup {"toHdzero", "toAnalog"}
<1>1. todo[t] # <<>> => Head(todo[t]) = todo[t][1] /\ todo[t] \in Seq(UiOps \cup Locking \cup Roaming)
  BY DEF Handlers
<1>2. \A op : At(t, op) <=> todo[t] # <<>> /\ todo[t][1] = op  BY <1>1 DEF At
<1>3. \A op : At("per", op) => op \in Locking \cup Roaming
  <2>1. todo["per"] \in Seq(Locking \cup Roaming)  BY DEF Handlers, PerOK
  <2>2. todo["per"] # <<>> => Head(todo["per"]) \in Locking \cup Roaming  BY <2>1
  <2> QED  BY <2>2 DEF At
<1>4. \A op : At("ui", op) => op \in UiOps
  <2>1. todo["ui"] \in Seq(UiOps)  BY DEF Handlers, UiOK
  <2>2. todo["ui"] # <<>> => Head(todo["ui"]) \in UiOps  BY <2>1
  <2> QED  BY <2>2 DEF At
<1>5. \A op : At("esp", op) => op \in EspOps \cup {"toHdzero", "toAnalog"}
  BY EspTail DEF Handlers, At
<1> QED  BY <1>1, <1>2, <1>3, <1>4, <1>5

LEMMA HandlersFrom ==
  ASSUME Handlers, session' = session, NEW t \in {"ui", "per"}, NEW s, todo' = [todo EXCEPT ![t] = s],
         t = "ui" => UiOK(s), t = "per" => PerOK(s)
  PROVE  /\ todo' \in [Threads -> Seq(UiOps \cup Locking \cup Roaming)]
         /\ UiOK(todo["ui"])' /\ PerOK(todo["per"])'
         /\ todo'[t] = s /\ \A u \in Threads \ {t} : todo'[u] = todo[u]
         /\ todo'["esp"] = todo["esp"] /\ (todo["esp"] \in EspTails)'
<1>1. todo \in [Threads -> Seq(UiOps \cup Locking \cup Roaming)]  BY DEF Handlers
<1>2. todo'[t] = s /\ \A u \in Threads \ {t} : todo'[u] = todo[u]  BY <1>1
<1>3. UiOK(todo'["ui"]) /\ PerOK(todo'["per"])  BY <1>2 DEF Handlers
<1>4. UiOK(todo["ui"])'  BY <1>3 DEF UiOK, UiOpOK
<1>5. PerOK(todo["per"])'  BY <1>3 DEF PerOK, PerOpOK
<1>6. s \in Seq(UiOps \cup Locking \cup Roaming)
  <2>1. CASE t = "ui"
    <3>1. s \in Seq(UiOps)  BY <2>1 DEF UiOK
    <3> QED  BY <3>1
  <2>2. CASE t = "per"
    <3>1. s \in Seq(Locking \cup Roaming)  BY <2>2 DEF PerOK
    <3> QED  BY <3>1
  <2> QED  BY <2>1, <2>2
<1>7. todo' \in [Threads -> Seq(UiOps \cup Locking \cup Roaming)]  BY <1>1, <1>6
<1>8. todo'["esp"] = todo["esp"] /\ (todo["esp"] \in EspTails)'
  BY <1>2 DEF Handlers, EspTails, EspIdle
<1> QED  BY <1>2, <1>4, <1>5, <1>7, <1>8

(* A button takes the lock.                                                 *)
LEMMA UiStarts ==
  ASSUME Handlers, NEW ops, Button(ops), UiOK(ops), ops # <<>>
  PROVE  /\ Handlers' /\ todo'["ui"] = ops /\ todo'["per"] = todo["per"] /\ todo'["esp"] = todo["esp"]
         /\ lock = "none" /\ todo["ui"] = <<>>
<1>1. /\ session' = session /\ lock = "none" /\ lock' = "ui" /\ todo' = [todo EXCEPT !["ui"] = ops]
  BY DEF Button, Free
<1>2. /\ todo' \in [Threads -> Seq(UiOps \cup Locking \cup Roaming)]
      /\ UiOK(todo["ui"])' /\ PerOK(todo["per"])' /\ todo'["ui"] = ops /\ todo'["per"] = todo["per"]
      /\ todo'["esp"] = todo["esp"] /\ (todo["esp"] \in EspTails)'
  BY <1>1, HandlersFrom
<1>3. (/\ lock = "esp" <=> todo["esp"] \notin EspIdle
       /\ todo["esp"] # <<>> => session.backpack = TRUE)'
  BY <1>1, <1>2 DEF Handlers, EspIdle
<1> QED  BY <1>1, <1>2, <1>3 DEF Handlers

(* It goes on until it gives it back.                                       *)
LEMMA UiGoes ==
  ASSUME Handlers, session' = session, NEW op, At("ui", op), Then("ui", <<>>),
         lock' = IF op = "unlock" THEN "none" ELSE lock
  PROVE  /\ Handlers' /\ lock = "ui"
         /\ todo'["ui"] = Tail(todo["ui"]) /\ todo'["per"] = todo["per"] /\ todo'["esp"] = todo["esp"]
         /\ op = "unlock" => todo'["ui"] = <<>>
         /\ op = "openOther" => At("ui", "chooseAgain")'
         /\ ~At("ui", "sleep")'
<1> DEFINE s == todo["ui"]
<1>1. s # <<>> /\ s[1] = op /\ UiOK(s) /\ lock = "ui" /\ s \in Seq(UiOps)
  BY AtHead DEF Handlers, UiOK
<1>2. /\ UiOK(Tail(s))
      /\ Tail(s) = <<>> <=> s[1] = "unlock"
      /\ Tail(s) # <<>> => Head(Tail(s)) # "sleep"
      /\ s[1] = "openOther" => Tail(s) # <<>> /\ Head(Tail(s)) = "chooseAgain"
  BY <1>1, UiTail
<1>3. <<>> \o Tail(s) = Tail(s)  BY <1>1, ThenOf
<1>4. todo' = [todo EXCEPT !["ui"] = Tail(s)]  BY <1>3 DEF Then, Handlers
<1>5. /\ todo' \in [Threads -> Seq(UiOps \cup Locking \cup Roaming)]
      /\ UiOK(todo["ui"])' /\ PerOK(todo["per"])' /\ todo'["ui"] = Tail(s) /\ todo'["per"] = todo["per"]
      /\ todo'["esp"] = todo["esp"] /\ (todo["esp"] \in EspTails)'
  BY <1>2, <1>4, HandlersFrom
<1>6. (lock = "ui" <=> todo["ui"] # <<>>)'  BY <1>1, <1>2, <1>5
<1>7. (lock = "per" <=> todo["per"] # <<>> /\ Head(todo["per"]) \in Locking)'
  BY <1>1, <1>5 DEF Handlers
<1>8. (/\ lock = "esp" <=> todo["esp"] \notin EspIdle
       /\ todo["esp"] # <<>> => session.backpack = TRUE)'
  BY <1>1, <1>5 DEF Handlers, EspIdle
<1>9. Handlers'  BY <1>5, <1>6, <1>7, <1>8 DEF Handlers
<1> QED  BY <1>1, <1>2, <1>5, <1>9 DEF At

(* The two steps of auto detection that decide how it goes on.              *)
LEMMA UiTurns ==
  ASSUME Handlers, session' = session, NEW op \in {"choose", "chooseAgain"}, At("ui", op), NEW ops,
         Then("ui", ops), lock' = lock,
         \/ ops \in {ToHdzero, ToAnalog}
         \/ ops = <<"openOther", "chooseAgain">> /\ session.both = TRUE
  PROVE  /\ Handlers' /\ lock = "ui" /\ todo'["per"] = todo["per"] /\ todo'["esp"] = todo["esp"]
         /\ At("ui", Head(ops))' /\ ~At("ui", "sleep")' /\ todo'["ui"] \notin SleepTails
<1> DEFINE s == todo["ui"]
           r == ops \o Tail(s)
<1>1. s # <<>> /\ s[1] = op /\ UiOK(s) /\ lock = "ui" /\ s \in Seq(UiOps)
  BY AtHead DEF Handlers, UiOK
<1>2. /\ ops \in Seq(UiOps) /\ ops # <<>> /\ Head(ops) = ops[1]
      /\ \A i \in 1..Len(ops) : /\ ops[i] \notin {"unlock", "sleep", "asleep"}
                                /\ ops[i] = "openOther" => i < Len(ops) /\ ops[i + 1] = "chooseAgain"
                                /\ ops[i] \in {"openOther", "chooseAgain"} => session.both = TRUE
  <2>1. CASE ops = <<"analogOff", "openEff", "asHdzero">>  BY <2>1 DEF UiOps
  <2>2. CASE ops = <<"close", "analogOn", "asAnalog">>  BY <2>2 DEF UiOps
  <2>3. CASE ops = <<"openOther", "chooseAgain">> /\ session.both = TRUE  BY <2>3 DEF UiOps
  <2> QED  BY <2>1, <2>2, <2>3 DEF ToHdzero, ToAnalog
<1>3. /\ r \in Seq(UiOps) /\ Len(ops) \in Nat /\ Len(s) \in Nat /\ Len(s) >= 1
      /\ Len(r) = Len(ops) + Len(s) - 1
      /\ \A i \in 1..Len(ops) : r[i] = ops[i]
      /\ \A i \in 2..Len(s) : r[Len(ops) + i - 1] = s[i]
      /\ \A i \in (Len(ops) + 1)..(Len(ops) + Len(s) - 1) :
           r[i] = s[i - Len(ops) + 1] /\ i - Len(ops) + 1 \in 2..Len(s)
      /\ r # <<>> /\ Len(ops) >= 1 /\ Head(r) = ops[1]
  BY <1>1, <1>2, ThenOf, TailOf
<1>4. s \notin SleepTails
  <2> SUFFICES ASSUME s \in SleepTails PROVE FALSE  OBVIOUS
  <2> QED  BY <1>1 DEF SleepTails
<1>5. Len(s) >= 2
  <2>1. 1 \in 1..Len(s)  BY <1>3
  <2>2. s[1] = "unlock" <=> 1 = Len(s)  BY <1>1, <2>1 DEF UiOK, UiOpOK
  <2>3. 1 # Len(s)  BY <1>1, <2>2
  <2>4. Len(s) \in Nat /\ Len(s) >= 1  BY <1>3
  <2>5. \A n \in Nat : n >= 1 /\ 1 # n => n >= 2  OBVIOUS
  <2> HIDE DEF s
  <2> QED  BY <2>3, <2>4, <2>5
<1>6. ASSUME NEW i \in 1..Len(ops) PROVE UiOpOK(r, i)
  <2>1. r[i] = ops[i] /\ i # Len(r)  BY <1>3, <1>5
  <2>2. i < Len(ops) => r[i + 1] = ops[i + 1]
    <3> SUFFICES ASSUME i < Len(ops) PROVE r[i + 1] = ops[i + 1]  OBVIOUS
    <3>1. i + 1 \in 1..Len(ops)  BY <1>3
    <3> QED  BY <1>3, <3>1
  <2> HIDE DEF r
  <2> QED  BY <1>2, <2>1, <2>2 DEF UiOpOK
<1>7. ASSUME NEW i \in (Len(ops) + 1)..Len(r) PROVE UiOpOK(r, i)
  <2> DEFINE k == i - Len(ops) + 1
  <2>1. i \in Nat /\ k \in 2..Len(s) /\ k \in 1..Len(s) /\ r[i] = s[k]  BY <1>3
  <2>2. k = Len(s) <=> i = Len(r)  BY <1>3, <2>1
  <2>3. k < Len(s) => r[i + 1] = s[k + 1]
    <3> SUFFICES ASSUME k < Len(s) PROVE r[i + 1] = s[k + 1]  OBVIOUS
    <3>1. k + 1 \in 2..Len(s) /\ Len(ops) + (k + 1) - 1 = i + 1  BY <1>3, <2>1
    <3> HIDE DEF k
    <3>2. r[Len(ops) + (k + 1) - 1] = s[k + 1]  BY <1>3, <3>1
    <3> QED  BY <3>1, <3>2
  <2>4. UiOpOK(s, k)  BY <1>1, <2>1 DEF UiOK
  <2>5. k \in Nat /\ k <= Len(s)  BY <1>3, <2>1
  <2> HIDE DEF k, r
  <2>6. s[k] # "unlock" => k < Len(s)  BY <1>3, <2>4, <2>5 DEF UiOpOK
  <2>7. s[k] \notin {"sleep", "asleep"}  BY <1>4, <2>4 DEF UiOpOK
  <2> QED  BY <2>1, <2>2, <2>3, <2>4, <2>6, <2>7 DEF UiOpOK
<1>8. UiOK(r)
  <2>1. \A i \in 1..Len(r) : i \in 1..Len(ops) \/ i \in (Len(ops) + 1)..Len(r)  BY <1>3
  <2> HIDE DEF r
  <2> QED  BY <1>3, <1>6, <1>7, <2>1 DEF UiOK
<1>9. todo' = [todo EXCEPT !["ui"] = r]  BY DEF Then, Handlers
<1> HIDE DEF r
<1>10. /\ todo' \in [Threads -> Seq(UiOps \cup Locking \cup Roaming)]
       /\ UiOK(todo["ui"])' /\ PerOK(todo["per"])' /\ todo'["ui"] = r /\ todo'["per"] = todo["per"]
       /\ todo'["esp"] = todo["esp"] /\ (todo["esp"] \in EspTails)'
  BY <1>8, <1>9, HandlersFrom
<1>11. Handlers'
  <2>1. (/\ lock = "esp" <=> todo["esp"] \notin EspIdle
         /\ todo["esp"] # <<>> => session.backpack = TRUE)'
    BY <1>10 DEF Handlers, EspIdle
  <2> QED  BY <1>1, <1>3, <1>10, <2>1 DEF Handlers
<1>12. At("ui", Head(ops))' /\ ~At("ui", "sleep")'
  <2>1. ops[1] # "sleep"  BY <1>2, <1>3
  <2> QED  BY <1>2, <1>3, <1>10, <2>1 DEF At
<1>13. r \notin SleepTails
  <2> SUFFICES ASSUME r \in SleepTails PROVE FALSE  OBVIOUS
  <2>2. PICK i \in 1..Len(r) : r[i] \in {"sleep", "asleep"}  BY SleepTailSleeps
  <2>3. CASE i <= Len(ops)
    <3>1. i \in 1..Len(ops)  BY <1>3, <2>3
    <3> QED  BY <1>2, <1>3, <2>2, <3>1
  <2>4. CASE ~(i <= Len(ops))
    <3>1. i \in (Len(ops) + 1)..(Len(ops) + Len(s) - 1)  BY <1>3, <2>4
    <3>2. r[i] = s[i - Len(ops) + 1] /\ i - Len(ops) + 1 \in 1..Len(s)  BY <1>3, <3>1
    <3>3. s \in SleepTails  BY <1>1, <2>2, <3>2 DEF UiOK, UiOpOK
    <3> QED  BY <1>4, <3>3
  <2> QED  BY <2>3, <2>4
<1> QED  BY <1>1, <1>10, <1>11, <1>12, <1>13

(* A step of the peripheral thread, which may take the lock, keep it or     *)
(* give it back.                                                            *)
LEMMA PerGoes ==
  ASSUME Handlers, session' = session, NEW op, At("per", op), NEW ops, Then("per", ops), PerOK(ops),
         ops # <<>> => op \notin Leading,
         NEW keeps \in BOOLEAN,
         keeps = IF ops = <<>> THEN op \in Leading ELSE Head(ops) \in Locking,
         op \notin Locking /\ keeps => Free,
         lock' = IF keeps THEN "per" ELSE IF op \in Locking THEN "none" ELSE lock
  PROVE  /\ Handlers' /\ todo'["ui"] = todo["ui"] /\ todo'["esp"] = todo["esp"]
         /\ \A other : At("ui", other)' <=> At("ui", other)
         /\ ops # <<>> => \A other : At("per", other)' <=> other = Head(ops)
         /\ ops = <<>> => ~At("per", "toHdzero")'
         /\ ops = <<>> => (At("per", "hopProbe")' <=> op = "hop")
         /\ ops = <<>> /\ op \in Others => At("per", "otherProbe")'
         /\ ops = <<>> /\ op = "analogOff" => At("per", "openEff")'
         /\ ops = <<>> /\ op \in {"sweepWide", "sweepNarrow"} => Left'
         /\ op \notin {"toAnalog", "toHdzero", "swept"} /\ ~Leaves(ops) => (Left' <=> Left)
         /\ Leaves(ops) => Left'
<1> DEFINE s == todo["per"]
           r == ops \o Tail(s)
<1>1. s # <<>> /\ s[1] = op /\ Head(s) = op /\ PerOK(s) /\ s \in Seq(Locking \cup Roaming)
  BY AtHead DEF Handlers, PerOK, At
<1>2. ops \in Seq(Locking \cup Roaming)  BY DEF PerOK
<1>3. /\ ops = <<>> => r = Tail(s)
      /\ ops # <<>> => r # <<>> /\ Head(r) = Head(ops)
  BY <1>1, <1>2, ThenOf
<1>4. /\ PerOK(Tail(s))
      /\ s[1] \in Leading <=> Tail(s) # <<>> /\ Head(Tail(s)) \in Locking
      /\ s[1] \in Leading => (Head(Tail(s)) = "hopProbe" <=> s[1] = "hop")
      /\ s[1] \in Others => Head(Tail(s)) = "otherProbe"
      /\ s[1] = "analogOff" => Head(Tail(s)) = "openEff"
      /\ \A i \in 2..Len(s) : s[i] # "toHdzero"
  BY <1>1, PerTail
<1>5. Tail(s) # <<>> => Head(Tail(s)) # "toHdzero"
  <2>1. Len(s) \in Nat /\ (Tail(s) # <<>> => Len(s) >= 2 /\ Head(Tail(s)) = s[2])  BY <1>1, TailOf
  <2> HIDE DEF s
  <2> QED  BY <1>4, <2>1
<1>6. PerOK(r)  BY <1>1, <1>3, <1>4, PerThen
<1>7. todo' = [todo EXCEPT !["per"] = r]  BY DEF Then, Handlers
<1>8. /\ Leaves(ops) => Leaves(r)
      /\ s[1] \notin {"toAnalog", "toHdzero", "swept"} /\ Leaves(s) => Leaves(r)
      /\ Leaves(r) => Leaves(ops) \/ Leaves(s)
  BY <1>1, LeavesThen
<1>9. s[1] \in {"sweepWide", "sweepNarrow"} => Leaves(Tail(s))  BY <1>1, LeavesTail
<1> HIDE DEF r, s
<1>10. /\ todo' \in [Threads -> Seq(UiOps \cup Locking \cup Roaming)]
       /\ UiOK(todo["ui"])' /\ PerOK(todo["per"])' /\ todo'["per"] = r /\ todo'["ui"] = todo["ui"]
       /\ todo'["esp"] = todo["esp"] /\ (todo["esp"] \in EspTails)'
  BY <1>6, <1>7, HandlersFrom
<1>11. keeps <=> r # <<>> /\ Head(r) \in Locking  BY <1>1, <1>3, <1>4
<1>12. /\ lock = "ui" <=> todo["ui"] # <<>>
       /\ lock = "per" <=> op \in Locking
  BY <1>1 DEF Handlers, s
<1>13. Handlers'
  <2>1. (lock = "per" <=> todo["per"] # <<>> /\ Head(todo["per"]) \in Locking)'
    BY <1>10, <1>11, <1>12
  <2>2. (lock = "ui" <=> todo["ui"] # <<>>)'  BY <1>10, <1>12 DEF Free
  <2>3. (/\ lock = "esp" <=> todo["esp"] \notin EspIdle
         /\ todo["esp"] # <<>> => session.backpack = TRUE)'
    BY <1>10, <1>12 DEF Free, Handlers, EspIdle
  <2> QED  BY <1>10, <2>1, <2>2, <2>3 DEF Handlers
<1>14. \A other : At("ui", other)' <=> At("ui", other)  BY <1>10 DEF At
<1>15. ops # <<>> => \A other : At("per", other)' <=> other = Head(ops)  BY <1>3, <1>10 DEF At
<1>16. ops = <<>> => ~At("per", "toHdzero")'  BY <1>3, <1>5, <1>10 DEF At
<1>17. /\ ops = <<>> => (At("per", "hopProbe")' <=> op = "hop")
       /\ ops = <<>> /\ op \in Others => At("per", "otherProbe")'
       /\ ops = <<>> /\ op = "analogOff" => At("per", "openEff")'
  BY <1>1, <1>3, <1>4, <1>10 DEF At, Leading, Locking, Others
<1>18. (Left <=> Leaves(s)) /\ (Left' <=> Leaves(r))  BY <1>10 DEF Left, s, Leaves
<1>19. ops = <<>> /\ op \in {"sweepWide", "sweepNarrow"} => Left'  BY <1>1, <1>3, <1>9, <1>18
<1>20. /\ op \notin {"toAnalog", "toHdzero", "swept"} /\ ~Leaves(ops) => (Left' <=> Left)
       /\ Leaves(ops) => Left'
  BY <1>1, <1>8, <1>18
<1> QED  BY <1>10, <1>13, <1>14, <1>15, <1>16, <1>17, <1>19, <1>20

(* Steps that leave the handlers alone.                                     *)
LEMMA HandlersKept ==
  ASSUME Handlers, UNCHANGED <<session, lock, todo>>
  PROVE  /\ Handlers' /\ Left' = Left
         /\ \A t \in Threads : \A op : At(t, op)' = At(t, op)
<1>1. UiOK(todo["ui"])' /\ PerOK(todo["per"])'
  BY DEF Handlers, UiOK, UiOpOK, PerOK, PerOpOK
<1>2. Handlers'
  <2>1. (/\ todo["esp"] \in EspTails
         /\ lock = "esp" <=> todo["esp"] \notin EspIdle
         /\ todo["esp"] # <<>> => session.backpack = TRUE)'
    BY DEF Handlers, EspTails, EspIdle
  <2> QED  BY <1>1, <2>1 DEF Handlers
<1>3. Left' = Left  BY DEF Left, Leaves
<1>4. \A t \in Threads : \A op : At(t, op)' = At(t, op)  BY DEF At
<1> QED  BY <1>2, <1>3, <1>4

-----------------------------------------------------------------------------
(* One lemma per action: what it does to the handlers. The plain steps are  *)
(* common to both threads.                                                  *)

Plain == {"menu", "video", "asHdzero", "asAnalog", "sleep", "asleep", "wake",
          "close", "openEff", "analogOff", "tunerOff", "analogOn",
          "openOther", "otherWide", "otherNarrow", "hop", "unlock"}

LEMMA StepHandlers ==
  ASSUME SourcesInv, NEW t \in Threads, Step(t)
  PROVE  \E op \in Plain :
           /\ At(t, op) /\ Then(t, <<>>) /\ UNCHANGED session
           /\ lock' = IF op = "unlock" THEN "none" ELSE lock
           /\ op = "unlock" => Unlock(t)
           /\ op \in {"openOther", "otherWide", "otherNarrow", "hop"} => OpenOther(t)
           /\ op \in {"close", "openEff", "analogOff", "tunerOff", "analogOn"} => SetReceiver(t)
           /\ op \in {"menu", "video", "asHdzero", "asAnalog", "sleep", "asleep", "wake"} => SetApp(t)
<1>1. CASE SetApp(t)
  <2>1. PICK op \in {"menu", "video", "asHdzero", "asAnalog", "sleep", "asleep", "wake"} : At(t, op)
    BY <1>1 DEF SetApp
  <2> QED  BY <1>1, <2>1 DEF SetApp, Plain
<1>2. CASE SetReceiver(t)
  <2>1. PICK op \in {"close", "openEff", "analogOff", "tunerOff", "analogOn"} : At(t, op)
    BY <1>2 DEF SetReceiver
  <2> QED  BY <1>2, <2>1 DEF SetReceiver, Plain, view
<1>3. CASE OpenOther(t)
  <2>1. PICK op \in {"openOther", "otherWide", "otherNarrow", "hop"} : At(t, op)  BY <1>3 DEF OpenOther
  <2> QED  BY <1>3, <2>1 DEF OpenOther, Plain, view
<1>4. CASE Unlock(t)
  BY <1>4 DEF Unlock, Plain, view
<1> QED  BY <1>1, <1>2, <1>3, <1>4 DEF Step

LEMMA UiStepHandlers ==
  ASSUME SourcesInv, Step("ui")
  PROVE  /\ Handlers' /\ lock = "ui" /\ todo'["ui"] = Tail(todo["ui"]) /\ todo'["per"] = todo["per"]
         /\ todo'["esp"] = todo["esp"]
         /\ ~At("ui", "sleep")'
         /\ At("ui", "openOther") => At("ui", "chooseAgain")'
         /\ At("ui", "unlock") => todo'["ui"] = <<>>
<1>1. PICK op \in Plain : /\ At("ui", op) /\ Then("ui", <<>>) /\ UNCHANGED session
                         /\ lock' = IF op = "unlock" THEN "none" ELSE lock
  BY StepHandlers
<1>2. /\ Handlers' /\ lock = "ui" /\ todo'["ui"] = Tail(todo["ui"]) /\ todo'["per"] = todo["per"]
      /\ todo'["esp"] = todo["esp"]
      /\ ~At("ui", "sleep")'
      /\ op = "openOther" => At("ui", "chooseAgain")'
      /\ op = "unlock" => todo'["ui"] = <<>>
  BY <1>1, UiGoes DEF SourcesInv
<1>3. \A other : At("ui", other) => other = op  BY <1>1 DEF At
<1> QED  BY <1>2, <1>3

(* Under the lock the peripheral thread is alone.                           *)
LEMMA Alone ==
  ASSUME Handlers
  PROVE  /\ lock # "ui" => todo["ui"] = <<>>
         /\ lock # "per" => \A op \in Locking : ~At("per", op)
         /\ lock # "esp" => todo["esp"] \in EspIdle /\ ~At("esp", "unlock")
         /\ \A op \in Locking : At("per", op) => lock = "per"
         /\ \A op : At("ui", op) => lock = "ui"
<1>1. /\ lock # "ui" => todo["ui"] = <<>>
      /\ lock # "per" => \A op \in Locking : ~At("per", op)
      /\ \A op \in Locking : At("per", op) => lock = "per"
      /\ \A op : At("ui", op) => lock = "ui"
  BY DEF Handlers, At
<1>2. lock # "esp" => todo["esp"] \in EspIdle /\ ~At("esp", "unlock")
  BY DEF Handlers, At, EspIdle
<1> QED  BY <1>1, <1>2

LEMMA PerStepHandlers ==
  ASSUME SourcesInv, Step("per")
  PROVE  /\ Handlers' /\ todo'["ui"] = todo["ui"] /\ todo'["esp"] = todo["esp"] /\ lock = "per"
         /\ ~At("per", "toHdzero")'
         /\ At("per", "hop") <=> At("per", "hopProbe")'
         /\ \A o \in Others : At("per", o) => At("per", "otherProbe")'
         /\ At("per", "analogOff") => At("per", "openEff")'
         /\ Left' <=> Left
<1>1. PICK op \in Plain : /\ At("per", op) /\ Then("per", <<>>) /\ UNCHANGED session
                         /\ lock' = IF op = "unlock" THEN "none" ELSE lock
  BY StepHandlers
<1>2. op \in Locking /\ lock = "per"
  <2>1. op \in Locking  BY <1>1, AtHead DEF SourcesInv, Plain, Locking, Roaming, Sweeps
  <2> QED  BY <1>1, <2>1, Alone DEF SourcesInv
<1>3. op = "unlock" <=> op \notin Leading  BY <1>2, <1>1 DEF Plain, Locking, Leading
<1>4. /\ PerOK(<<>>) /\ ~Leaves(<<>>) /\ op \notin {"toAnalog", "toHdzero", "swept"}
  BY <1>2, PerAdds DEF Leaves, Locking
<1> DEFINE keeps == op \in Leading
<1>5. lock' = IF keeps THEN "per" ELSE IF op \in Locking THEN "none" ELSE lock
  BY <1>1, <1>2, <1>3
<1>6. keeps \in BOOLEAN /\ keeps = IF <<>> = <<>> THEN op \in Leading ELSE Head(<<>>) \in Locking
  OBVIOUS
<1> HIDE DEF keeps
<1>7. /\ Handlers' /\ todo'["ui"] = todo["ui"] /\ todo'["esp"] = todo["esp"]
      /\ ~At("per", "toHdzero")'
      /\ op = "hop" <=> At("per", "hopProbe")'
      /\ op \in Others => At("per", "otherProbe")'
      /\ op = "analogOff" => At("per", "openEff")'
      /\ Left' <=> Left
  BY <1>1, <1>2, <1>4, <1>5, <1>6, PerGoes DEF SourcesInv
<1>8. \A other : At("per", other) => other = op  BY <1>1 DEF At
<1> QED  BY <1>1, <1>2, <1>7, <1>8

-----------------------------------------------------------------------------
(* Type correctness of everything but the handlers.                         *)

LEMMA Modulo ==
  \A n \in 0..(DarkThresh - 1) : (n + 1) % DarkThresh \in 0..(DarkThresh - 1)
  OBVIOUS

LEMMA GroupsKept ==
  ASSUME ValuesOK
  PROVE  /\ UNCHANGED view => ViewOK' /\ session' = session
         /\ UNCHANGED receiver => ReceiverOK'
         /\ UNCHANGED analogs => AnalogsOK'
         /\ UNCHANGED ticks => TicksOK'
         /\ UNCHANGED panel => PanelOK'
         /\ UNCHANGED env /\ session' = session /\ lock' \in Threads \cup {"none"} => EnvOK'
<1>1. UNCHANGED view => ViewOK' /\ session' = session  BY DEF ValuesOK, view, ViewOK
<1>2. UNCHANGED receiver => ReceiverOK'  BY DEF ValuesOK, receiver, ReceiverOK
<1>3. UNCHANGED analogs => AnalogsOK'  BY DEF ValuesOK, analogs, AnalogsOK
<1>4. UNCHANGED ticks => TicksOK'  BY DEF ValuesOK, ticks, TicksOK
<1>5. UNCHANGED panel => PanelOK'  BY DEF ValuesOK, panel, PanelOK
<1>6. UNCHANGED env /\ session' = session /\ lock' \in Threads \cup {"none"} => EnvOK'
  BY DEF ValuesOK, env, EnvOK
<1> QED  BY <1>1, <1>2, <1>3, <1>4, <1>5, <1>6

LEMMA ProbeType ==
  ASSUME ValuesOK, NEW found \in BOOLEAN, Probe(found),
         det' \in Bands, UNCHANGED <<open, bw, analog, down>>
  PROVE  ReceiverOK' /\ AnalogsOK'
<1>1. rx' = found  BY DEF Probe
<1>2. probed' = (probed \/ session.crossover) /\ (probed \/ session.crossover) \in BOOLEAN
  BY Zenon DEF Probe
<1>3. ReceiverOK'  BY <1>1 DEF ValuesOK, ReceiverOK
<1>4. AnalogsOK'  BY <1>2 DEF ValuesOK, AnalogsOK
<1> QED  BY <1>3, <1>4

(* The types are carried over by the groups that a step leaves alone.       *)
LEMMA StepValues ==
  ASSUME SourcesInv, NEW t \in Threads, Step(t)
  PROVE  ValuesOK'
<1>0. ValuesOK /\ Handlers /\ ChoicesOK /\ lock \in Threads \cup {"none"}
  BY DEF SourcesInv, ValuesOK, EnvOK
<1>1. CASE SetApp(t)
  <2>1. /\ app' \in {app, "menu", "video", "sleep", prev}
        /\ source' \in {source, "hdzero", "analog"} /\ mode' \in {mode, "ui", "hdzero", "av"}
        /\ UNCHANGED <<session, auto>>
    BY <1>1 DEF SetApp
  <2>2. ViewOK'  BY <1>0, <2>1 DEF ValuesOK, ViewOK, PanelOK
  <2>3. prev' \in {"menu", "video"}
    <3>1. CASE prev' = prev  BY <1>0, <3>1 DEF ValuesOK, PanelOK
    <3>2. CASE At(t, "sleep") /\ prev' = app
      <4>1. "sleep" \notin Locking \cup Roaming  BY DEF Locking, Roaming, Sweeps
      <4>2. t = "ui"  BY <1>0, <3>2, <4>1, AtHead DEF EspOps
      <4>3. app # "sleep"  BY <1>0, <3>2, <4>2 DEF ChoicesOK
      <4> QED  BY <1>0, <3>2, <4>3 DEF ValuesOK, ViewOK
    <3> QED  BY <1>1, <3>1, <3>2 DEF SetApp
  <2>4. /\ asleep' = asleep \/ asleep' = TRUE \/ asleep' = FALSE
        /\ dim' = dim \/ dim' = FALSE
        /\ inhibit' = inhibit \/ inhibit' = inhibit \cup {"sleep"} \/ inhibit' = inhibit \ {"sleep"}
        /\ oled' = oled
    BY <1>1 DEF SetApp
  <2>5. PanelOK'  BY <1>0, <2>3, <2>4 DEF ValuesOK, PanelOK
  <2> QED  BY <1>0, <1>1, <2>2, <2>5, GroupsKept DEF SetApp, ValuesOK
<1>2. CASE SetReceiver(t)
  <2>1. ReceiverOK'
    BY <1>0, <1>2 DEF SetReceiver, Open, Close, Effective, Bands, ValuesOK, ReceiverOK
  <2>2. AnalogsOK'
    <3>1. /\ UNCHANGED probed \/ probed' = (probed \/ session.crossover)
          /\ analog' \in {analog, TRUE, FALSE} /\ down' \in {down, TRUE, FALSE}
      BY <1>2 DEF SetReceiver, analogs
    <3>2. (probed \/ session.crossover) \in BOOLEAN  BY Zenon
    <3> QED  BY <1>0, <3>1, <3>2 DEF ValuesOK, AnalogsOK
  <2> QED  BY <1>0, <1>2, <2>1, <2>2, GroupsKept DEF SetReceiver, ValuesOK
<1>3. CASE OpenOther(t)
  <2>1. ReceiverOK'  BY <1>0, <1>3 DEF OpenOther, Open, Other, Bands, ValuesOK, ReceiverOK
  <2> QED  BY <1>0, <1>3, <2>1, GroupsKept DEF OpenOther, ValuesOK
<1>4. CASE Unlock(t)  BY <1>0, <1>4, GroupsKept DEF Unlock, ValuesOK
<1> QED  BY <1>1, <1>2, <1>3, <1>4 DEF Step

LEMMA WatchValues ==
  ASSUME SourcesInv, Tick \/ CheckBandwidth \/ LockBandwidth \/ HopProbe \/ Reopen \/ IdlePower
  PROVE  ValuesOK'
<1>0. ValuesOK /\ lock \in Threads \cup {"none"}  BY DEF SourcesInv, ValuesOK, EnvOK
<1>1. CASE Tick  BY <1>0, <1>1, GroupsKept DEF Tick, ValuesOK
<1>2. CASE CheckBandwidth
  <2>1. dark' = (dark + 1) % DarkThresh \/ dark' = 0  BY <1>2 DEF CheckBandwidth
  <2>2. 0 \in 0..(DarkThresh - 1)  OBVIOUS
  <2>3. dark' \in 0..(DarkThresh - 1)  BY <1>0, <2>1, <2>2, Modulo DEF ValuesOK, TicksOK
  <2>4. TicksOK'  BY <1>0, <1>2, <2>3 DEF CheckBandwidth, ValuesOK, TicksOK
  <2>5. ReceiverOK'  BY <1>0, <1>2 DEF CheckBandwidth, ValuesOK, ReceiverOK
  <2> QED  BY <1>0, <1>2, <2>4, <2>5, GroupsKept DEF CheckBandwidth, ValuesOK
<1>3. CASE LockBandwidth
  <2>1. lock' \in Threads \cup {"none"}  BY <1>0, <1>3 DEF LockBandwidth
  <2> QED  BY <1>0, <1>3, <2>1, GroupsKept DEF LockBandwidth, ValuesOK
<1>4. CASE HopProbe
  <2>1. PICK found \in BOOLEAN : Probe(found) /\ det' = IF found THEN Other(det) ELSE det
    BY <1>4 DEF HopProbe
  <2>2. det' \in Bands  BY <1>0, <2>1 DEF Other, Bands, ValuesOK, ReceiverOK
  <2>3. ReceiverOK' /\ AnalogsOK'  BY <1>0, <1>4, <2>1, <2>2, ProbeType DEF HopProbe
  <2> QED  BY <1>0, <1>4, <2>3, GroupsKept DEF HopProbe, ValuesOK
<1>5. CASE Reopen
  <2>1. ReceiverOK'  BY <1>0, <1>5 DEF Reopen, Open, Bands, ValuesOK, ReceiverOK
  <2> QED  BY <1>0, <1>5, <2>1, GroupsKept DEF Reopen, ValuesOK
<1>6. CASE IdlePower
  <2>1. PICK expired \in BOOLEAN : probed' = (probed /\ ~(auto /\ expired))  BY <1>6 DEF IdlePower
  <2>2. (probed /\ ~(auto /\ expired)) \in BOOLEAN  BY Zenon
  <2>3. AnalogsOK'  BY <1>0, <1>6, <2>1, <2>2 DEF IdlePower, ValuesOK, AnalogsOK
  <2> QED  BY <1>0, <1>6, <2>3, GroupsKept DEF IdlePower, ValuesOK
<1> QED  BY <1>1, <1>2, <1>3, <1>4, <1>5, <1>6

LEMMA CrossValues ==
  ASSUME SourcesInv,
         PowerDown \/ CheckCrossover \/ ProbeAnalog \/ OtherProbe \/ Sweep \/ SweepProbe \/ Swept \/ CrossOver
  PROVE  ValuesOK'
<1>0. ValuesOK /\ ChoicesOK /\ lock \in Threads \cup {"none"}  BY DEF SourcesInv, ValuesOK, EnvOK
<1>1. CASE PowerDown
  <2>1. AnalogsOK'  BY <1>0, <1>1 DEF PowerDown, ValuesOK, AnalogsOK
  <2> QED  BY <1>0, <1>1, <2>1, GroupsKept DEF PowerDown, ValuesOK
<1>2. CASE CheckCrossover
  <2>1. cross' = (cross + 1) % DarkThresh \/ cross' = 0  BY <1>2 DEF CheckCrossover
  <2>2. 0 \in 0..(DarkThresh - 1)  OBVIOUS
  <2>3. cross' \in 0..(DarkThresh - 1)  BY <1>0, <2>1, <2>2, Modulo DEF ValuesOK, TicksOK
  <2>4. TicksOK'  BY <1>0, <1>2, <2>3 DEF CheckCrossover, ValuesOK, TicksOK
  <2> QED  BY <1>0, <1>2, <2>4, GroupsKept DEF CheckCrossover, ValuesOK
<1>3. CASE ProbeAnalog
  <2>1. analog' = (analog \/ down)  BY <1>3 DEF ProbeAnalog
  <2>2. (analog \/ down) \in BOOLEAN  BY Zenon
  <2>3. AnalogsOK'  BY <1>3, <2>1, <2>2 DEF ProbeAnalog, AnalogsOK
  <2> QED  BY <1>0, <1>3, <2>3, GroupsKept DEF ProbeAnalog, ValuesOK
<1>4. CASE OtherProbe
  <2>1. PICK found \in BOOLEAN : Probe(found) /\ det' = IF found THEN bw ELSE det
    BY <1>4 DEF OtherProbe
  <2>2. det' \in Bands  BY <1>0, <2>1 DEF ValuesOK, ReceiverOK
  <2>3. ReceiverOK' /\ AnalogsOK'  BY <1>0, <1>4, <2>1, <2>2, ProbeType DEF OtherProbe
  <2> QED  BY <1>0, <1>4, <2>3, GroupsKept DEF OtherProbe, ValuesOK
<1>5. CASE Sweep
  <2>1. ReceiverOK'  BY <1>0, <1>5 DEF Sweep, Open, Bands, ValuesOK, ReceiverOK
  <2> QED  BY <1>0, <1>5, <2>1, GroupsKept DEF Sweep, ValuesOK
<1>6. CASE SweepProbe
  <2>1. PICK found \in BOOLEAN : Probe(found)  BY <1>6 DEF SweepProbe
  <2>2. det' \in Bands  BY <1>0, <1>6 DEF SweepProbe, ValuesOK, ReceiverOK
  <2>3. ReceiverOK' /\ AnalogsOK'  BY <1>0, <1>6, <2>1, <2>2, ProbeType DEF SweepProbe
  <2>4. hit' = hit \/ hit' \in Bands  BY <1>6 DEF SweepProbe, Bands
  <2>5. TicksOK'  BY <1>0, <1>6, <2>4 DEF SweepProbe, ValuesOK, TicksOK
  <2> QED  BY <1>0, <1>6, <2>3, <2>5, GroupsKept DEF SweepProbe, ValuesOK
<1>7. CASE Swept
  <2>1. ReceiverOK'  BY <1>0, <1>7 DEF Swept, Close, ValuesOK, ReceiverOK
  <2> QED  BY <1>0, <1>7, <2>1, GroupsKept DEF Swept, ValuesOK
<1>8. CASE CrossOver
  <2>1. det' = det \/ (hit # "none" /\ det' = hit)  BY <1>0, <1>8 DEF CrossOver, ChoicesOK
  <2>2. ReceiverOK'  BY <1>0, <1>8, <2>1 DEF CrossOver, ValuesOK, ReceiverOK, TicksOK
  <2>3. lock' \in Threads \cup {"none"}  BY <1>8 DEF CrossOver
  <2> QED  BY <1>0, <1>8, <2>2, <2>3, GroupsKept DEF CrossOver, ValuesOK
<1> QED  BY <1>1, <1>2, <1>3, <1>4, <1>5, <1>6, <1>7, <1>8

LEMMA OuterValues ==
  ASSUME SourcesInv,
         \/ UserStep \/ Choose \/ ChooseAgain \/ Backpack \/ ChangeChannel
         \/ MotionStep \/ Report \/ VtxChanges \/ HeadMoves
  PROVE  ValuesOK'
<1>0. ValuesOK /\ lock \in Threads \cup {"none"}  BY DEF SourcesInv, ValuesOK, EnvOK
<1>1. CASE UserStep
  <2>1. PICK ops : Button(ops) /\ auto' \in {auto, TRUE, FALSE}
    BY <1>1 DEF UserStep, EnterMenu, ExitMenu, SelectSource, SelectAuto, GoSleep, WakeUp
  <2>2. ViewOK' /\ session' = session  BY <1>0, <2>1 DEF Button, ValuesOK, ViewOK
  <2> QED  BY <1>0, <2>1, <2>2, GroupsKept DEF Button, ValuesOK
<1>2. CASE Choose
  <2>1. PICK found \in BOOLEAN : Probe(found)  BY <1>2 DEF Choose
  <2>2. det' \in Bands  BY <1>0, <1>2 DEF Choose, ValuesOK, ReceiverOK
  <2>3. ReceiverOK' /\ AnalogsOK'  BY <1>0, <1>2, <2>1, <2>2, ProbeType DEF Choose
  <2> QED  BY <1>0, <1>2, <2>3, GroupsKept DEF Choose, ValuesOK
<1>3. CASE ChooseAgain
  <2>1. PICK found \in BOOLEAN : Probe(found) /\ det' = IF found THEN bw ELSE det
    BY <1>3 DEF ChooseAgain
  <2>2. det' \in Bands  BY <1>0, <2>1 DEF ValuesOK, ReceiverOK
  <2>3. ReceiverOK' /\ AnalogsOK'  BY <1>0, <1>3, <2>1, <2>2, ProbeType DEF ChooseAgain
  <2> QED  BY <1>0, <1>3, <2>3, GroupsKept DEF ChooseAgain, ValuesOK
<1>4. CASE PreOff \/ PreOn
  <2>1. PanelOK'  BY <1>0, <1>4 DEF PreOff, PreOn, ValuesOK, PanelOK
  <2> QED  BY <1>0, <1>4, <2>1, GroupsKept DEF PreOff, PreOn, ValuesOK
<1>5. CASE PanelOff \/ PanelOn
  <2>1. /\ oled' \in {"off", "detecting"} /\ dim' \in {dim, FALSE}
        /\ inhibit' \in {inhibit \cup {"idle"}, inhibit \ {"idle"}}
        /\ UNCHANGED <<open, bw>> \/ Open(Effective) \/ Close
        /\ analog' \in {analog, TRUE, FALSE}
        /\ UNCHANGED <<view, det, rx, down, probed, ticks, asleep, prev, env, lock>>
    BY <1>5 DEF PanelOff, PanelOn, DetectMotion
  <2>2. PanelOK'  BY <1>0, <2>1 DEF ValuesOK, PanelOK
  <2>3. ReceiverOK'
    BY <1>0, <2>1 DEF Open, Close, Effective, Bands, ValuesOK, ReceiverOK
  <2>4. AnalogsOK'  BY <1>0, <2>1 DEF ValuesOK, AnalogsOK
  <2> QED  BY <1>0, <2>1, <2>2, <2>3, <2>4, GroupsKept DEF ValuesOK
<1>6. CASE Report
  <2>1. rx' = (open /\ vtx = bw)  BY <1>6 DEF Report, Locked
  <2>2. (open /\ vtx = bw) \in BOOLEAN  BY Zenon
  <2>3. ReceiverOK'  BY <1>0, <1>6, <2>1, <2>2 DEF Report, ValuesOK, ReceiverOK
  <2> QED  BY <1>0, <1>6, <2>3, GroupsKept DEF Report, ValuesOK
<1>7. CASE VtxChanges
  <2>1. EnvOK'
    <3>1. vtx' \in session.vtxs /\ session' = session  BY <1>7 DEF VtxChanges, view
    <3> QED  BY <1>0, <1>7, <3>1 DEF VtxChanges, ValuesOK, EnvOK
  <2> QED  BY <1>0, <1>7, <2>1, GroupsKept DEF VtxChanges, ValuesOK
<1>8. CASE HeadMoves
  <2>1. moving' = ~moving /\ (~moving) \in BOOLEAN  BY <1>8 DEF HeadMoves
  <2>2. EnvOK'
    <3>1. session' = session  BY <1>8 DEF HeadMoves, view
    <3> QED  BY <1>0, <1>8, <2>1, <3>1 DEF HeadMoves, ValuesOK, EnvOK
  <2> QED  BY <1>0, <1>8, <2>2, GroupsKept DEF HeadMoves, ValuesOK
<1>9. CASE Backpack  BY <1>0, <1>9, GroupsKept DEF Backpack, ValuesOK
<1>10. CASE ChangeChannel
  <2>1. lock' \in Threads \cup {"none"}  BY <1>10 DEF ChangeChannel
  <2> QED  BY <1>0, <1>10, <2>1, GroupsKept DEF ChangeChannel, ValuesOK
<1> QED  BY <1>1, <1>2, <1>3, <1>4, <1>5, <1>6, <1>7, <1>8, <1>9, <1>10 DEF MotionStep

-----------------------------------------------------------------------------
(* What the steps leave of the two promises.                                *)

LEMMA HeadMeans ==
  ASSUME Handlers, NEW op, At("per", op)
  PROVE  /\ op \in {"hop", "hopProbe", "home", "otherProbe"} \cup Others => session.both = TRUE
         /\ op = "reset" => session.both = FALSE
         /\ op \in (Roaming \ {"bw", "bwLock"}) \cup {"otherProbe"} \cup Others => session.crossover = TRUE
         /\ \A other : At("per", other) <=> other = op
         /\ op \in Locking => lock = "per" /\ todo["ui"] = <<>>
         /\ op \in Roaming => lock # "per"
<1>1. /\ todo["per"] # <<>> /\ todo["per"][1] = op /\ Head(todo["per"]) = op
      /\ PerOK(todo["per"]) /\ todo["per"] \in Seq(Locking \cup Roaming)
  BY AtHead DEF Handlers, PerOK, At
<1>2. PerOpOK(todo["per"], 1)
  <2>1. 1 \in 1..Len(todo["per"])  BY <1>1
  <2> QED  BY <1>1, <2>1 DEF PerOK
<1>3. /\ op \in {"hop", "hopProbe", "home", "otherProbe"} \cup Others => session.both = TRUE
      /\ op = "reset" => session.both = FALSE
      /\ op \in (Roaming \ {"bw", "bwLock"}) \cup {"otherProbe"} \cup Others => session.crossover = TRUE
  BY <1>1, <1>2 DEF PerOpOK
<1>4. \A other : At("per", other) <=> other = op  BY <1>1 DEF At
<1>5. op \in Locking => lock = "per" /\ todo["ui"] = <<>>  BY <1>1 DEF Handlers
<1>6. op \in Roaming => op \notin Locking  BY DEF Roaming, Locking, Sweeps
<1>7. op \in Roaming => lock # "per"  BY <1>1, <1>6 DEF Handlers
<1> QED  BY <1>3, <1>4, <1>5, <1>7

(* While the handler of a button stands still, sleep is disturbed neither   *)
(* by what leaves the receivers alone nor by what has the lock.             *)
LEMMA SleepKept ==
  ASSUME SourcesInv, session' = session, todo'["ui"] = todo["ui"], todo'["esp"] = todo["esp"],
         asleep' = asleep,
         \/ session.crossover = TRUE
         \/ UNCHANGED <<app, open, analog, inhibit, lock>>
         \/ app # "sleep" /\ app' # "sleep" /\ todo["ui"] = <<>>
  PROVE  SleepInv'
<1>0. SleepInv  BY DEF SourcesInv
<1>1. CASE session.crossover = TRUE  BY <1>1 DEF SleepInv
<1>2. CASE UNCHANGED <<app, open, analog, inhibit, lock>>
  <2>1. /\ Dark' <=> Dark
        /\ Free' = Free
        /\ At("esp", "unlock")' <=> At("esp", "unlock")
    BY <1>2 DEF Dark, Free, At
  <2> QED  BY <1>0, <1>2, <2>1 DEF SleepInv
<1>3. CASE app # "sleep" /\ app' # "sleep" /\ todo["ui"] = <<>>
  <2>1. /\ <<>> # <<"close", "tunerOff", "asleep", "unlock">>
        /\ <<>> # <<"tunerOff", "asleep", "unlock">> /\ <<>> # <<"asleep", "unlock">>
    OBVIOUS
  <2> QED  BY <1>0, <1>3, <2>1 DEF SleepInv
<1> QED  BY <1>1, <1>2, <1>3

(* With the lock in the hands of the peripheral thread one is not in the    *)
(* sleep state, or has a crossover.                                         *)
LEMMA AwakeUnderLock ==
  ASSUME SourcesInv, lock = "per"
  PROVE  todo["ui"] = <<>> /\ (session.crossover = TRUE \/ app # "sleep")
<1>1. session.crossover \in BOOLEAN  BY DEF SourcesInv, ValuesOK, ViewOK
<1>2. todo["ui"] = <<>>  BY Alone DEF SourcesInv
<1> QED  BY <1>1, <1>2 DEF SourcesInv, SleepInv

(* Outside the lock the peripheral thread finds the receiver parked, unless *)
(* a button is about to move it, and it may put it anywhere in a sweep.     *)
LEMMA ParkedRoams ==
  ASSUME SourcesInv, session' = session, NEW op \in Roaming, At("per", op),
         \A other : At("ui", other)' <=> At("ui", other),
         ~At("per", "hopProbe")',
         \/ Left' \/ open' = FALSE \/ bw' = Effective'
         \/ ~Left /\ UNCHANGED <<open, bw>> /\ Effective' = Effective
  PROVE  ParkedInv'
<1>1. \A other \in {"hopProbe", "home", "otherProbe", "close", "analogOff", "openEff"} : ~At("per", other)
  <2>1. \A other \in {"hopProbe", "home", "otherProbe", "close", "analogOff", "openEff"} : other # op
    BY DEF Roaming, Sweeps
  <2> QED  BY <2>1, HeadMeans DEF SourcesInv
<1>2. Parked \/ At("ui", "chooseAgain") \/ At("ui", "close")  BY <1>1 DEF SourcesInv, ParkedInv
<1>3. CASE Parked
  <2>1. ASSUME Left' \/ open' = FALSE \/ bw' = Effective' PROVE Parked'  BY <2>1 DEF Parked
  <2>2. ASSUME ~Left, UNCHANGED <<open, bw>>, Effective' = Effective PROVE Parked'
    BY <1>3, <2>2 DEF Parked
  <2>3. Parked'  BY <2>1, <2>2
  <2> QED  BY <2>3 DEF ParkedInv
<1>4. CASE At("ui", "chooseAgain") \/ At("ui", "close")  BY <1>4 DEF ParkedInv
<1> QED  BY <1>2, <1>3, <1>4

(* Under the lock it either parks the receiver or has yet to do so.         *)
LEMMA ParkedUnderLock ==
  ASSUME SourcesInv, session' = session, lock = "per",
         At("per", "hopProbe")' => bw' = Other(det'),
         \/ Left' \/ open' = FALSE \/ bw' = Effective'
         \/ \E op \in {"hopProbe", "home", "otherProbe", "close", "analogOff", "openEff"} : At("per", op)'
         \/ /\ (Left' <=> Left) /\ UNCHANGED <<open, bw, det>>
            /\ \A op \in {"hopProbe", "home", "otherProbe", "close", "analogOff", "openEff"} : ~At("per", op)
  PROVE  ParkedInv'
<1>1. todo["ui"] = <<>>  BY AwakeUnderLock
<1>2. ~At("ui", "chooseAgain") /\ ~At("ui", "close")  BY <1>1 DEF At
<1>3. (At("per", "hopProbe") => bw = Other(det))'  BY DEF Other
<1>4. CASE Left' \/ open' = FALSE \/ bw' = Effective'  BY <1>3, <1>4 DEF ParkedInv, Parked
<1>5. CASE \E op \in {"hopProbe", "home", "otherProbe", "close", "analogOff", "openEff"} : At("per", op)'
  BY <1>3, <1>5 DEF ParkedInv
<1>6. CASE /\ (Left' <=> Left) /\ UNCHANGED <<open, bw, det>>
           /\ \A op \in {"hopProbe", "home", "otherProbe", "close", "analogOff", "openEff"} : ~At("per", op)
  <2>1. Parked  BY <1>2, <1>6 DEF SourcesInv, ParkedInv
  <2>2. Effective' = Effective  BY <1>6 DEF Effective
  <2>3. Parked'  BY <1>6, <2>1, <2>2 DEF Parked
  <2> QED  BY <1>3, <2>3 DEF ParkedInv
<1> QED  BY <1>4, <1>5, <1>6

(* When neither the buttons nor the watchdogs have the lock, the receiver   *)
(* is parked.                                                               *)
LEMMA FreeIsParked ==
  ASSUME SourcesInv, lock \notin {"ui", "per"}
  PROVE  Parked /\ todo["ui"] = <<>> /\ \A op \in Locking : ~At("per", op)
<1>1. todo["ui"] = <<>> /\ \A op \in Locking : ~At("per", op)  BY Alone DEF SourcesInv
<1>2. ~At("ui", "chooseAgain") /\ ~At("ui", "close")  BY <1>1 DEF At
<1> QED  BY <1>1, <1>2 DEF SourcesInv, ParkedInv, Locking

Rest == Handlers /\ ChoicesOK /\ ParkedInv /\ SleepInv

LEMMA PerRoams ==
  ASSUME SourcesInv, session' = session, NEW op \in Roaming, At("per", op), NEW ops, Then("per", ops),
         PerOK(ops), ops = <<>> \/ Head(ops) \in Roaming, op \notin Leading, lock' = lock,
         UNCHANGED <<app, asleep, inhibit>>,
         ops # <<>> /\ Head(ops) = "toHdzero" => hit' # "none",
         \/ session.crossover = TRUE
         \/ UNCHANGED <<open, analog>>,
         \/ Leaves(ops) \/ op \in {"sweepWide", "sweepNarrow"} \/ open' = FALSE \/ bw' = Effective'
         \/ /\ UNCHANGED <<open, bw>> /\ Effective' = Effective
            /\ op \notin {"toAnalog", "toHdzero", "swept"}
  PROVE  Rest'
<1>1. op \notin Locking  BY DEF Roaming, Locking, Sweeps
<1>2. \A x \in Roaming : x \notin Locking  BY DEF Roaming, Locking, Sweeps
<1>3. FALSE = IF ops = <<>> THEN op \in Leading ELSE Head(ops) \in Locking  BY <1>2
<1>4. lock' = IF FALSE THEN "per" ELSE IF op \in Locking THEN "none" ELSE lock  BY <1>1
<1>5. /\ Handlers' /\ todo'["ui"] = todo["ui"] /\ todo'["esp"] = todo["esp"]
      /\ \A other : At("ui", other)' <=> At("ui", other)
      /\ ops # <<>> => \A other : At("per", other)' <=> other = Head(ops)
      /\ ops = <<>> => ~At("per", "toHdzero")'
      /\ ops = <<>> /\ op \in {"sweepWide", "sweepNarrow"} => Left'
      /\ op \notin {"toAnalog", "toHdzero", "swept"} /\ ~Leaves(ops) => (Left' <=> Left)
      /\ Leaves(ops) => Left'
  BY <1>1, <1>3, <1>4, PerGoes DEF SourcesInv
<1>6. ~At("per", "hopProbe")'
  <2>1. "hopProbe" \in Locking  BY DEF Locking
  <2>2. lock # "per"  BY HeadMeans DEF SourcesInv
  <2>3. At("per", "hopProbe")' => lock' = "per"  BY <1>5, <2>1 DEF Handlers, At
  <2> QED  BY <2>2, <2>3
<1>7. ParkedInv'
  <2>1. CASE Leaves(ops) \/ open' = FALSE \/ bw' = Effective'
    BY <1>5, <1>6, <2>1, ParkedRoams
  <2>2. CASE op \in {"sweepWide", "sweepNarrow"}
    <3>1. CASE ops = <<>>  BY <1>5, <1>6, <2>2, <3>1, ParkedRoams
    <3>2. CASE ops # <<>>
      <4>1. todo["per"] # <<>> /\ PerOK(todo["per"]) /\ todo["per"][1] = op
        BY AtHead DEF SourcesInv, Handlers
      <4>2. Leaves(todo["per"])
        <5>1. Leaves(Tail(todo["per"]))  BY <2>2, <4>1, LeavesTail
        <5> QED  BY <4>1, <5>1, LeavesTail
      <4>3. Left'
        <5>1. Left  BY <4>2 DEF Left
        <5> QED  BY <1>5, <2>2, <5>1
      <4> QED  BY <1>5, <1>6, <4>3, ParkedRoams
    <3> QED  BY <3>1, <3>2
  <2>3. CASE /\ UNCHANGED <<open, bw>> /\ Effective' = Effective
             /\ op \notin {"toAnalog", "toHdzero", "swept"} /\ ~Leaves(ops)
    <3>1. Left' \/ ~Left  BY <1>5, <2>3
    <3> QED  BY <1>5, <1>6, <2>3, <3>1, ParkedRoams
  <2> QED  BY <2>1, <2>2, <2>3
<1>8. ChoicesOK'
  <2>1. At("per", "toHdzero")' => hit' # "none"  BY <1>5
  <2>2. At("ui", "sleep")' => app' # "sleep"  BY <1>5 DEF SourcesInv, ChoicesOK
  <2> QED  BY <2>1, <2>2 DEF ChoicesOK
<1>9. SleepInv'  BY <1>5, SleepKept
<1> QED  BY <1>5, <1>7, <1>8, <1>9 DEF Rest

-----------------------------------------------------------------------------
(* The actions.                                                             *)

LEMMA TickInv ==
  ASSUME SourcesInv, Tick PROVE Rest'
<1> DEFINE s == IF session.crossover THEN <<"bw", "power", "idle">> ELSE <<"bw">>
<1>1. session.crossover \in BOOLEAN  BY DEF SourcesInv, ValuesOK, ViewOK
<1>2. /\ todo["per"] = <<>> /\ todo' = [todo EXCEPT !["per"] = s] /\ UNCHANGED <<session, lock>>
      /\ UNCHANGED <<app, open, bw, det, analog, inhibit, asleep, hit>>
  BY DEF Tick, view, receiver, analogs, ticks, panel
<1>3. PerOK(s) /\ s # <<>> /\ Head(s) = "bw" /\ ~Leaves(s)
  BY <1>1, PerAdds DEF Leaves
<1> HIDE DEF s
<1>4. /\ todo' \in [Threads -> Seq(UiOps \cup Locking \cup Roaming)]
      /\ UiOK(todo["ui"])' /\ PerOK(todo["per"])' /\ todo'["per"] = s /\ todo'["ui"] = todo["ui"]
      /\ todo'["esp"] = todo["esp"] /\ (todo["esp"] \in EspTails)'
  BY <1>2, <1>3, HandlersFrom DEF SourcesInv
<1>5. Handlers'
  <2>1. "bw" \notin Locking  BY DEF Locking
  <2>2. (/\ lock = "esp" <=> todo["esp"] \notin EspIdle
         /\ todo["esp"] # <<>> => session.backpack = TRUE)'
    BY <1>2, <1>4 DEF SourcesInv, Handlers, EspIdle
  <2> QED  BY <1>2, <1>3, <1>4, <2>1, <2>2 DEF SourcesInv, Handlers
<1>6. /\ \A op : At("ui", op)' <=> At("ui", op)
      /\ \A op : At("per", op)' => op = "bw"
      /\ \A op : ~At("per", op)
  BY <1>2, <1>3, <1>4 DEF At
<1>7. ChoicesOK'  BY <1>2, <1>6 DEF SourcesInv, ChoicesOK
<1>8. ~Left /\ ~Left'  BY <1>2, <1>3, <1>4 DEF Left, Leaves
<1>9. ParkedInv'
  <2>1. Parked \/ At("ui", "chooseAgain") \/ At("ui", "close")  BY <1>6 DEF SourcesInv, ParkedInv
  <2>2. Effective' = Effective  BY <1>2 DEF Effective
  <2>3. Parked => Parked'  BY <1>2, <1>8, <2>2 DEF Parked
  <2> QED  BY <1>6, <2>1, <2>3 DEF ParkedInv
<1>10. SleepInv'  BY <1>2, <1>4, SleepKept
<1> QED  BY <1>5, <1>7, <1>9, <1>10 DEF Rest

LEMMA CheckBandwidthInv ==
  ASSUME SourcesInv, CheckBandwidth PROVE Rest'
<1>1. /\ At("per", "bw") /\ lock' = lock /\ UNCHANGED <<session, app, asleep, inhibit, hit, open, bw, analog>>
      /\ det' = IF Viewer /\ rx THEN bw ELSE det
  BY DEF CheckBandwidth, view, analogs, panel
<1>2. PICK ops \in {<<>>, <<"bwLock">>} : Then("per", ops)  BY DEF CheckBandwidth
<1>3. PerOK(ops) /\ (ops = <<>> \/ Head(ops) = "bwLock")  BY PerAdds
<1>4. /\ "bw" \in Roaming /\ "bwLock" \in Roaming /\ "bw" \notin Leading
  BY DEF Roaming, Leading
<1>5. bw' = Effective' \/ Effective' = Effective
  <2>1. session.both \in BOOLEAN  BY DEF SourcesInv, ValuesOK, ViewOK
  <2>2. CASE session.both = FALSE  BY <1>1, <2>2 DEF Effective
  <2>3. CASE session.both = TRUE
    <3>1. Effective = det /\ Effective' = det'  BY <1>1, <2>3 DEF Effective
    <3>2. det' = bw \/ det' = det  BY <1>1
    <3> QED  BY <1>1, <3>1, <3>2
  <2> QED  BY <2>1, <2>2, <2>3
<1> QED  BY <1>1, <1>2, <1>3, <1>4, <1>5, PerRoams

LEMMA IdleInv ==
  ASSUME SourcesInv, IdlePower \/ PowerDown \/ ProbeAnalog PROVE Rest'
<1>1. /\ lock' = lock /\ UNCHANGED <<session, app, asleep, inhibit, hit, open, bw, det>>
  BY DEF IdlePower, PowerDown, ProbeAnalog, view, receiver, ticks, panel
<1>2. PICK op \in {"power", "powerDown", "probeAnalog", "sweepAnalog"} : At("per", op)
  BY DEF IdlePower, PowerDown, ProbeAnalog
<1>3. session.crossover = TRUE /\ op \in Roaming /\ op \notin Leading
  <2>1. op \in Roaming \ {"bw", "bwLock"} /\ op \notin Leading  BY DEF Roaming, Sweeps, Leading
  <2> QED  BY <1>2, <2>1, HeadMeans DEF SourcesInv
<1>4. PICK ops : /\ Then("per", ops)
                 /\ \/ ops \in {<<>>, <<"powerDown">>, <<"toAnalog">>}
                    \/ /\ ops \in {<<"otherLock", "otherWide", "otherProbe">>,
                                   <<"otherLock", "otherNarrow", "otherProbe">>}
                       /\ session.both = TRUE
  <2>1. CASE IdlePower  BY <2>1 DEF IdlePower
  <2>2. CASE PowerDown  BY <2>2 DEF PowerDown
  <2>3. CASE ProbeAnalog
    <3>1. session.both \in BOOLEAN  BY DEF SourcesInv, ValuesOK, ViewOK
    <3> QED  BY <2>3, <3>1 DEF ProbeAnalog
  <2> QED  BY <2>1, <2>2, <2>3
<1>5. PerOK(ops) /\ (ops = <<>> \/ Head(ops) \in {"powerDown", "toAnalog", "otherLock"})
  BY <1>3, <1>4, PerAdds
<1>6. \A x \in {"powerDown", "toAnalog", "otherLock"} : x \in Roaming /\ x # "toHdzero"
  BY DEF Roaming
<1>7. op \notin {"toAnalog", "toHdzero", "swept"} /\ Effective' = Effective  BY <1>1 DEF Effective
<1> QED  BY <1>1, <1>2, <1>3, <1>4, <1>5, <1>6, <1>7, PerRoams

LEMMA CheckCrossoverInv ==
  ASSUME SourcesInv, CheckCrossover PROVE Rest'
<1>1. /\ At("per", "idle") /\ lock' = lock
      /\ UNCHANGED <<session, app, asleep, inhibit, open, bw, det, analog>>
  BY DEF CheckCrossover, view, receiver, analogs, panel
<1>2. session.crossover = TRUE /\ "idle" \in Roaming /\ "idle" \notin Leading
  <2>1. "idle" \in Roaming \ {"bw", "bwLock"} /\ "idle" \notin Leading  BY DEF Roaming, Leading
  <2> QED  BY <1>1, <2>1, HeadMeans DEF SourcesInv
<1>3. PICK ops : /\ Then("per", ops)
                 /\ ops \in {<<>>, <<"probeAnalog">>, <<"sweepAnalog", "sweepWide", "probeWide", "swept">>,
                      <<"sweepAnalog", "sweepWide", "probeWide", "sweepNarrow", "probeNarrow", "swept">>}
  <2>1. <<"sweepAnalog", "sweepWide", "probeWide">>
          \o (IF session.both THEN <<"sweepNarrow", "probeNarrow">> ELSE <<>>) \o <<"swept">>
        \in {<<"sweepAnalog", "sweepWide", "probeWide", "swept">>,
             <<"sweepAnalog", "sweepWide", "probeWide", "sweepNarrow", "probeNarrow", "swept">>}
    <3>1. CASE session.both
      <4>1. <<"sweepAnalog", "sweepWide", "probeWide">> \o <<"sweepNarrow", "probeNarrow">> \o <<"swept">>
              = <<"sweepAnalog", "sweepWide", "probeWide", "sweepNarrow", "probeNarrow", "swept">>
        <5>1. <<"sweepAnalog", "sweepWide", "probeWide">> \o <<"sweepNarrow", "probeNarrow">>
                = <<"sweepAnalog", "sweepWide", "probeWide", "sweepNarrow", "probeNarrow">>
          BY Join32
        <5>2. <<"sweepAnalog", "sweepWide", "probeWide", "sweepNarrow", "probeNarrow">> \o <<"swept">>
                = <<"sweepAnalog", "sweepWide", "probeWide", "sweepNarrow", "probeNarrow", "swept">>
          BY Join51
        <5> QED  BY <5>1, <5>2
      <4> QED  BY <3>1, <4>1
    <3>2. CASE ~session.both
      <4>1. <<"sweepAnalog", "sweepWide", "probeWide">> \o <<>> \o <<"swept">>
              = <<"sweepAnalog", "sweepWide", "probeWide", "swept">>
        <5>1. <<"sweepAnalog", "sweepWide", "probeWide">> \o <<>> = <<"sweepAnalog", "sweepWide", "probeWide">>
          OBVIOUS
        <5> QED  BY <5>1, Join31
      <4> QED  BY <3>2, <4>1
    <3> QED  BY <3>1, <3>2
  <2> QED  BY <2>1 DEF CheckCrossover
<1>4. PerOK(ops) /\ (ops = <<>> \/ Head(ops) \in {"probeAnalog", "sweepAnalog"})
  <2>1. PerOK(ops)  BY <1>2, <1>3, PerAdds
  <2>2. ops = <<>> \/ Head(ops) \in {"probeAnalog", "sweepAnalog"}  BY <1>3
  <2> QED  BY <2>1, <2>2
<1>5. \A x \in {"probeAnalog", "sweepAnalog"} : x \in Roaming /\ x # "toHdzero"
  BY DEF Roaming, Sweeps
<1>6. Effective' = Effective  BY <1>1 DEF Effective
<1> QED  BY <1>1, <1>2, <1>3, <1>4, <1>5, <1>6, PerRoams

LEMMA SweepInv ==
  ASSUME SourcesInv, Sweep \/ SweepProbe PROVE Rest'
<1>1. lock' = lock /\ UNCHANGED <<session, app, asleep, inhibit>> /\ Then("per", <<>>)
  BY DEF Sweep, SweepProbe, view, panel
<1>2. PICK op \in {"sweepWide", "sweepNarrow", "probeWide", "probeNarrow"} :
        /\ At("per", op)
        /\ op \in {"sweepWide", "sweepNarrow"} \/ UNCHANGED <<open, bw, det>>
  BY DEF Sweep, SweepProbe
<1>3. session.crossover = TRUE /\ op \in Roaming /\ op \notin Leading
  <2>1. op \in Roaming \ {"bw", "bwLock"} /\ op \notin Leading  BY DEF Roaming, Sweeps, Leading
  <2> QED  BY <1>2, <2>1, HeadMeans DEF SourcesInv
<1>4. PerOK(<<>>)  BY PerAdds
<1>5. /\ op \notin {"toAnalog", "toHdzero", "swept"}
      /\ UNCHANGED <<open, bw, det>> => Effective' = Effective
  BY <1>1 DEF Effective
<1> QED  BY <1>1, <1>2, <1>3, <1>4, <1>5, PerRoams

LEMMA SweptInv ==
  ASSUME SourcesInv, Swept PROVE Rest'
<1>1. /\ At("per", "swept") /\ lock' = lock /\ UNCHANGED <<session, app, asleep, inhibit, hit>>
  BY DEF Swept, view, ticks, panel
<1>2. session.crossover = TRUE /\ "swept" \in Roaming /\ "swept" \notin Leading
  <2>1. "swept" \in Roaming \ {"bw", "bwLock"} /\ "swept" \notin Leading  BY DEF Roaming, Sweeps, Leading
  <2> QED  BY <1>1, <2>1, HeadMeans DEF SourcesInv
<1>3. PICK ops : /\ Then("per", ops)
                 /\ \/ ops = <<>> /\ open' = FALSE
                    \/ ops = <<"toHdzero">> /\ hit # "none"
  BY DEF Swept, Close
<1>4. PerOK(ops) /\ (ops = <<>> \/ Head(ops) = "toHdzero")  BY <1>2, <1>3, PerAdds
<1>5. ops = <<"toHdzero">> => Leaves(ops)
  <2>1. <<"toHdzero">>[1] = "toHdzero" /\ 1 \in DOMAIN <<"toHdzero">>  OBVIOUS
  <2> QED  BY <2>1 DEF Leaves
<1>6. "toHdzero" \in Roaming  BY DEF Roaming
<1> QED  BY <1>1, <1>2, <1>3, <1>4, <1>5, <1>6, PerRoams

(* The lock is taken with nothing under way, and the receiver parked.       *)
LEMMA LockTaken ==
  ASSUME SourcesInv, UNCHANGED <<session, app, asleep, inhibit, hit, open, bw, analog>>,
         NEW op \in {"bwLock", "otherLock", "toAnalog", "toHdzero"}, At("per", op), Free, lock' = "per",
         NEW ops, Then("per", ops), PerOK(ops), IF ops = <<>> THEN op = "otherLock" ELSE Head(ops) \in Locking,
         ops # <<>> => op # "otherLock", ops # <<>> => Head(ops) # "hopProbe",
         session.crossover = TRUE \/ app # "sleep",
         \/ det' = det /\ ~Leaves(ops) /\ op \notin {"toAnalog", "toHdzero"}
         \/ ops # <<>> /\ Head(ops) \in {"close", "analogOff"}
  PROVE  Rest'
<1>1. /\ op \in Roaming /\ op \notin Locking /\ (op \in Leading <=> op = "otherLock")
      /\ "hopProbe" \in Locking /\ "toHdzero" \notin Locking
  BY DEF Roaming, Locking, Leading, Sweeps
<1>2. /\ TRUE = IF ops = <<>> THEN op \in Leading ELSE Head(ops) \in Locking
      /\ lock' = IF TRUE THEN "per" ELSE IF op \in Locking THEN "none" ELSE lock
  BY <1>1
<1>3. /\ Handlers' /\ todo'["ui"] = todo["ui"] /\ todo'["esp"] = todo["esp"]
      /\ \A other : At("ui", other)' <=> At("ui", other)
      /\ ops # <<>> => \A other : At("per", other)' <=> other = Head(ops)
      /\ ops = <<>> => ~At("per", "toHdzero")'
      /\ ops = <<>> => ~At("per", "hopProbe")'
      /\ op \notin {"toAnalog", "toHdzero", "swept"} /\ ~Leaves(ops) => (Left' <=> Left)
  BY <1>1, <1>2, PerGoes DEF SourcesInv
<1>4. Parked /\ todo["ui"] = <<>>  BY FreeIsParked DEF Free
<1>5. ~At("ui", "sleep")'  BY <1>3, <1>4 DEF At
<1>6. ChoicesOK'  BY <1>1, <1>3, <1>5 DEF ChoicesOK
<1>7. SleepInv'  BY <1>3, <1>4, SleepKept
<1>8. ParkedInv'
  <2>1. ~At("per", "hopProbe")'  BY <1>3
  <2>2. CASE ops # <<>> /\ Head(ops) \in {"close", "analogOff"}
    <3>1. At("per", Head(ops))' /\ ~At("per", "hopProbe")'  BY <1>3, <2>2
    <3> QED  BY <2>2, <3>1 DEF ParkedInv
  <2>3. CASE det' = det /\ ~Leaves(ops) /\ op \notin {"toAnalog", "toHdzero"}
    <3>1. Effective' = Effective  BY <2>3 DEF Effective
    <3>2. Left' <=> Left  BY <1>3, <2>3
    <3>3. Parked'  BY <1>4, <3>1, <3>2 DEF Parked
    <3> QED  BY <2>1, <3>3 DEF ParkedInv
  <2> QED  BY <2>2, <2>3
<1> QED  BY <1>3, <1>6, <1>7, <1>8 DEF Rest

LEMMA LockBandwidthInv ==
  ASSUME SourcesInv, LockBandwidth PROVE Rest'
<1>1. /\ At("per", "bwLock") /\ Free
      /\ UNCHANGED <<session, app, asleep, inhibit, hit, open, bw, det, analog>>
  BY DEF LockBandwidth, view, receiver, analogs, ticks, panel
<1>2. Effective' = Effective  BY <1>1 DEF Effective
<1>3. CASE ~Watching \/ rx
  <2>1. lock' = lock /\ Then("per", <<>>)  BY <1>3 DEF LockBandwidth
  <2>2. PerOK(<<>>)  BY PerAdds
  <2>3. "bwLock" \in Roaming /\ "bwLock" \notin Leading  BY DEF Roaming, Leading
  <2> QED  BY <1>1, <1>2, <2>1, <2>2, <2>3, PerRoams
<1>4. CASE ~(~Watching \/ rx)
  <2>1. session.both \in BOOLEAN /\ session.crossover \in BOOLEAN
    BY DEF SourcesInv, ValuesOK, ViewOK
  <2>2. PICK ops : /\ lock' = "per" /\ Then("per", ops)
                   /\ \/ ops = <<"hop", "hopProbe">> /\ session.both = TRUE
                      \/ ops = <<"reset", "unlock">> /\ session.both = FALSE
    BY <1>4, <2>1 DEF LockBandwidth
  <2>3. PerOK(ops) /\ ops # <<>> /\ Head(ops) \in {"hop", "reset"}
    <3>1. CASE ops = <<"hop", "hopProbe">> /\ session.both = TRUE  BY <3>1, PerAdds
    <3>2. CASE ops = <<"reset", "unlock">> /\ session.both = FALSE  BY <3>2, PerAdds
    <3> QED  BY <2>2, <3>1, <3>2
  <2>4. ~Leaves(ops)
    <3>1. ~Leaves(<<"hop", "hopProbe">>)  BY DEF Leaves
    <3>2. ~Leaves(<<"reset", "unlock">>)  BY DEF Leaves
    <3> QED  BY <2>2, <3>1, <3>2
  <2>5. \A x \in {"hop", "reset"} : x \in Locking /\ x # "hopProbe"  BY DEF Locking
  <2>6. app # "sleep"  BY <1>4 DEF Watching
  <2> QED  BY <1>1, <2>2, <2>3, <2>4, <2>5, <2>6, LockTaken
<1> QED  BY <1>3, <1>4

LEMMA CrossOverInv ==
  ASSUME SourcesInv, CrossOver PROVE Rest'
<1>1. /\ Free /\ lock' = "per"
      /\ UNCHANGED <<session, app, asleep, inhibit, hit, open, bw, analog>>
  BY DEF CrossOver, view, analogs, ticks, panel
<1>2. PICK op \in {"otherLock", "toAnalog", "toHdzero"} : \E ops :
        /\ At("per", op) /\ Then("per", ops)
        /\ \/ op = "otherLock" /\ ops = <<>> /\ det' = det
           \/ op = "toAnalog" /\ ops = ToAnalog \o <<"unlock">>
           \/ op = "toHdzero" /\ ops = ToHdzero \o <<"unlock">>
  BY DEF CrossOver
<1>3. PICK ops :
        /\ At("per", op) /\ Then("per", ops)
        /\ \/ op = "otherLock" /\ ops = <<>> /\ det' = det
           \/ op = "toAnalog" /\ ops = ToAnalog \o <<"unlock">>
           \/ op = "toHdzero" /\ ops = ToHdzero \o <<"unlock">>
  BY <1>2
<1>4. session.crossover = TRUE
  <2>1. op \in Roaming \ {"bw", "bwLock"}  BY DEF Roaming
  <2> QED  BY <1>3, <2>1, HeadMeans DEF SourcesInv
<1>5. /\ ToAnalog \o <<"unlock">> = <<"close", "analogOn", "asAnalog", "unlock">>
      /\ ToHdzero \o <<"unlock">> = <<"analogOff", "openEff", "asHdzero", "unlock">>
  BY Join31 DEF ToAnalog, ToHdzero
<1>6. PerOK(ops) /\ (ops = <<>> \/ Head(ops) \in {"close", "analogOff"}) /\ (ops = <<>> <=> op = "otherLock")
  <2>1. CASE op = "otherLock" /\ ops = <<>>  BY <2>1, PerAdds
  <2>2. CASE op = "toAnalog" /\ ops = <<"close", "analogOn", "asAnalog", "unlock">>  BY <2>2, PerAdds
  <2>3. CASE op = "toHdzero" /\ ops = <<"analogOff", "openEff", "asHdzero", "unlock">>  BY <2>3, PerAdds
  <2> QED  BY <1>3, <1>5, <2>1, <2>2, <2>3
<1>7. "close" \in Locking /\ "analogOff" \in Locking  BY DEF Locking
<1>8. ops = <<>> => ~Leaves(ops) /\ det' = det
  <2>1. ~Leaves(<<>>)  BY DEF Leaves
  <2> QED  BY <1>3, <1>6, <2>1
<1> QED  BY <1>1, <1>3, <1>4, <1>6, <1>7, <1>8, LockTaken

(* Under the lock the probes and what follows them park the receiver.       *)
LEMMA PerUnderLock ==
  ASSUME SourcesInv, UNCHANGED <<session, app, asleep, lock>>,
         NEW op \in {"hopProbe", "home", "reset", "otherProbe"}, At("per", op),
         NEW ops, Then("per", ops), PerOK(ops),
         IF ops = <<>> THEN op \in {"home", "reset"}
                       ELSE op \in {"hopProbe", "otherProbe"} /\ Head(ops) \in {"unlock", "home"},
         Leaves(ops) \/ bw' = Effective' \/ (ops # <<>> /\ Head(ops) = "home")
  PROVE  Rest'
<1>1. /\ op \in Locking /\ (op \in Leading <=> op \in {"home", "reset"})
      /\ "unlock" \in Locking /\ "home" \in Locking
  BY DEF Locking, Leading
<1>2. lock = "per" /\ todo["ui"] = <<>> /\ (session.crossover = TRUE \/ app # "sleep")
  BY <1>1, HeadMeans, AwakeUnderLock DEF SourcesInv
<1>3. /\ TRUE = IF ops = <<>> THEN op \in Leading ELSE Head(ops) \in Locking
      /\ lock' = IF TRUE THEN "per" ELSE IF op \in Locking THEN "none" ELSE lock
  BY <1>1, <1>2
<1>4. /\ Handlers' /\ todo'["ui"] = todo["ui"] /\ todo'["esp"] = todo["esp"]
      /\ ops # <<>> => \A other : At("per", other)' <=> other = Head(ops)
      /\ ops = <<>> => ~At("per", "toHdzero")'
      /\ ops = <<>> => (At("per", "hopProbe")' <=> op = "hop")
      /\ Leaves(ops) => Left'
  BY <1>1, <1>3, PerGoes DEF SourcesInv
<1>5. ~At("per", "hopProbe")' /\ ~At("per", "toHdzero")'  BY <1>4
<1>6. ~At("ui", "sleep")'  BY <1>2, <1>4 DEF At
<1>7. ChoicesOK'  BY <1>5, <1>6 DEF ChoicesOK
<1>8. SleepInv'  BY <1>2, <1>4, SleepKept
<1>9. ParkedInv'
  <2>1. CASE Leaves(ops) \/ bw' = Effective'  BY <1>2, <1>4, <1>5, <2>1, ParkedUnderLock
  <2>2. CASE ops # <<>> /\ Head(ops) = "home"
    <3>1. At("per", "home")'  BY <1>4, <2>2
    <3> QED  BY <1>5, <3>1 DEF ParkedInv
  <2> QED  BY <2>1, <2>2
<1> QED  BY <1>4, <1>7, <1>8, <1>9 DEF Rest

LEMMA HopProbeInv ==
  ASSUME SourcesInv, HopProbe PROVE Rest'
<1>1. At("per", "hopProbe") /\ UNCHANGED <<session, app, asleep, lock, bw>>  BY DEF HopProbe, view, panel
<1>2. session.both = TRUE  BY <1>1, HeadMeans DEF SourcesInv
<1>3. PICK found \in BOOLEAN :
        /\ det' = IF found THEN Other(det) ELSE det
        /\ Then("per", IF found THEN <<"unlock">> ELSE <<"home", "unlock">>)
  BY DEF HopProbe
<1>4. CASE found
  <2>1. bw = Other(det)  BY <1>1 DEF SourcesInv, ParkedInv
  <2>2. bw' = Effective'  BY <1>1, <1>2, <1>3, <1>4, <2>1 DEF Effective
  <2>3. Then("per", <<"unlock">>) /\ PerOK(<<"unlock">>)  BY <1>3, <1>4, PerAdds
  <2>4. <<"unlock">> # <<>> /\ Head(<<"unlock">>) = "unlock"  OBVIOUS
  <2> QED  BY <1>1, <2>2, <2>3, <2>4, PerUnderLock
<1>5. CASE ~found
  <2>1. Then("per", <<"home", "unlock">>) /\ PerOK(<<"home", "unlock">>)  BY <1>2, <1>3, <1>5, PerAdds
  <2>2. <<"home", "unlock">> # <<>> /\ Head(<<"home", "unlock">>) = "home"  OBVIOUS
  <2> QED  BY <1>1, <2>1, <2>2, PerUnderLock
<1> QED  BY <1>4, <1>5

LEMMA ReopenInv ==
  ASSUME SourcesInv, Reopen PROVE Rest'
<1>1. /\ UNCHANGED <<session, app, asleep, lock, det>> /\ Then("per", <<>>) /\ PerOK(<<>>)
  BY PerAdds DEF Reopen, view, panel
<1>2. PICK op \in {"home", "reset"} : At("per", op) /\ bw' = IF op = "home" THEN det ELSE "wide"
  BY DEF Reopen, Open
<1>3. session.both = (op = "home")
  <2>1. CASE op = "home"  BY <1>2, <2>1, HeadMeans DEF SourcesInv
  <2>2. CASE op = "reset"  BY <1>2, <2>2, HeadMeans DEF SourcesInv
  <2> QED  BY <2>1, <2>2
<1>4. bw' = Effective'  BY <1>1, <1>2, <1>3 DEF Effective
<1> QED  BY <1>1, <1>2, <1>4, PerUnderLock

LEMMA OtherProbeInv ==
  ASSUME SourcesInv, OtherProbe PROVE Rest'
<1>1. At("per", "otherProbe") /\ UNCHANGED <<session, app, asleep, lock, bw>>  BY DEF OtherProbe, view, panel
<1>2. session.both = TRUE  BY <1>1, HeadMeans DEF SourcesInv
<1>3. PICK found \in BOOLEAN :
        /\ det' = IF found THEN bw ELSE det
        /\ Then("per", IF found THEN <<"unlock">> ELSE <<"unlock", "toAnalog">>)
  BY DEF OtherProbe
<1>4. CASE found
  <2>1. bw' = Effective'  BY <1>1, <1>2, <1>3, <1>4 DEF Effective
  <2>2. Then("per", <<"unlock">>) /\ PerOK(<<"unlock">>)  BY <1>3, <1>4, PerAdds
  <2>3. <<"unlock">> # <<>> /\ Head(<<"unlock">>) = "unlock"  OBVIOUS
  <2> QED  BY <1>1, <2>1, <2>2, <2>3, PerUnderLock
<1>5. CASE ~found
  <2>1. Leaves(<<"unlock", "toAnalog">>)
    <3>1. 2 \in DOMAIN <<"unlock", "toAnalog">> /\ <<"unlock", "toAnalog">>[2] = "toAnalog"  OBVIOUS
    <3> QED  BY <3>1 DEF Leaves
  <2>2. Then("per", <<"unlock", "toAnalog">>) /\ PerOK(<<"unlock", "toAnalog">>)
    <3>1. session.crossover = TRUE
      BY <1>1, HeadMeans DEF SourcesInv
    <3> QED  BY <1>3, <1>5, <3>1, PerAdds
  <2>3. <<"unlock", "toAnalog">> # <<>> /\ Head(<<"unlock", "toAnalog">>) = "unlock"  OBVIOUS
  <2> QED  BY <1>1, <2>1, <2>2, <2>3, PerUnderLock
<1> QED  BY <1>4, <1>5

LEMMA PerStepInv ==
  ASSUME SourcesInv, Step("per") PROVE Rest'
<1>1. /\ Handlers' /\ todo'["ui"] = todo["ui"] /\ todo'["esp"] = todo["esp"] /\ lock = "per"
      /\ ~At("per", "toHdzero")'
      /\ At("per", "hop") <=> At("per", "hopProbe")'
      /\ \A o \in Others : At("per", o) => At("per", "otherProbe")'
      /\ At("per", "analogOff") => At("per", "openEff")'
      /\ Left' <=> Left
  BY PerStepHandlers
<1>2. PICK op \in Plain :
        /\ At("per", op) /\ UNCHANGED session
        /\ op = "unlock" => Unlock("per")
        /\ op \in {"openOther", "otherWide", "otherNarrow", "hop"} => OpenOther("per")
        /\ op \in {"close", "openEff", "analogOff", "tunerOff", "analogOn"} => SetReceiver("per")
        /\ op \in {"menu", "video", "asHdzero", "asAnalog", "sleep", "asleep", "wake"} => SetApp("per")
  BY StepHandlers
<1>3. \A other : At("per", other) <=> other = op  BY <1>2, HeadMeans DEF SourcesInv
<1>4. op \in {"asHdzero", "asAnalog", "close", "openEff", "analogOff", "analogOn",
             "otherWide", "otherNarrow", "hop", "unlock"}
  BY <1>2, AtHead DEF SourcesInv, Plain, Locking, Roaming, Sweeps
<1>5. todo["ui"] = <<>> /\ (session.crossover = TRUE \/ app # "sleep")  BY <1>1, AwakeUnderLock
<1>6. asleep' = asleep /\ app' \in {app, "video"}
  BY <1>2, <1>3, <1>4 DEF SetApp, SetReceiver, OpenOther, Unlock, panel, view
<1>7. ChoicesOK'
  <2>1. ~At("ui", "sleep")'  BY <1>1, <1>5 DEF At
  <2> QED  BY <1>1, <2>1 DEF ChoicesOK
<1>8. SleepInv'  BY <1>1, <1>2, <1>5, <1>6, SleepKept
<1>9. ParkedInv'
  <2>1. CASE op \in {"asHdzero", "asAnalog", "analogOn", "unlock"}
    <3>1. UNCHANGED <<open, bw, det>>
      BY <1>2, <1>3, <2>1 DEF SetApp, SetReceiver, Unlock, receiver
    <3>2. \A other \in {"hopProbe", "home", "otherProbe", "close", "analogOff", "openEff", "hop"} : ~At("per", other)
      BY <1>3, <2>1
    <3> QED  BY <1>1, <1>2, <3>1, <3>2, ParkedUnderLock
  <2>2. CASE op = "close"
    <3>1. open' = FALSE  BY <1>2, <1>3, <2>2 DEF SetReceiver, Close
    <3>2. ~At("per", "hopProbe")'  BY <1>1, <1>3, <2>2
    <3> QED  BY <1>1, <1>2, <3>1, <3>2, ParkedUnderLock
  <2>3. CASE op = "openEff"
    <3>1. bw' = Effective /\ det' = det  BY <1>2, <1>3, <2>3 DEF SetReceiver, Open
    <3>2. bw' = Effective'  BY <1>2, <3>1 DEF Effective
    <3>3. ~At("per", "hopProbe")'  BY <1>1, <1>3, <2>3
    <3> QED  BY <1>1, <1>2, <3>2, <3>3, ParkedUnderLock
  <2>4. CASE op \in {"analogOff"} \cup Others
    <3>1. At("per", "openEff")' \/ At("per", "otherProbe")'  BY <1>1, <1>2, <2>4
    <3>2. ~At("per", "hopProbe")'  BY <1>1, <1>3, <2>4 DEF Others
    <3> QED  BY <1>1, <1>2, <3>1, <3>2, ParkedUnderLock
  <2>5. CASE op = "hop"
    <3>1. bw' = Other(det) /\ det' = det  BY <1>2, <1>3, <2>5 DEF OpenOther, Open
    <3>2. At("per", "hopProbe")'  BY <1>1, <1>2, <2>5
    <3> QED  BY <1>1, <1>2, <3>1, <3>2, ParkedUnderLock
  <2> QED  BY <1>4, <2>1, <2>2, <2>3, <2>4, <2>5 DEF Others
<1> QED  BY <1>1, <1>7, <1>8, <1>9 DEF Rest

(* While a button has the lock the peripheral thread has nothing to undo.   *)
LEMMA ParkedUnderUi ==
  ASSUME SourcesInv, lock = "ui", session' = session, todo'["per"] = todo["per"],
         \/ open' = FALSE \/ bw' = Effective' \/ At("ui", "chooseAgain")' \/ At("ui", "close")'
         \/ /\ UNCHANGED <<open, bw, det>>
            /\ ~At("ui", "chooseAgain") /\ ~At("ui", "close")
  PROVE  ParkedInv'
<1>1. \A op \in Locking : ~At("per", op)  BY Alone DEF SourcesInv
<1>2. ~At("per", "hopProbe")'  BY <1>1 DEF At, Locking
<1>3. Left' <=> Left  BY DEF Left, Leaves
<1>4. CASE open' = FALSE \/ bw' = Effective'
  <2>1. Parked'  BY <1>4 DEF Parked
  <2> QED  BY <1>2, <2>1 DEF ParkedInv
<1>5. CASE At("ui", "chooseAgain")' \/ At("ui", "close")'  BY <1>2, <1>5 DEF ParkedInv
<1>6. CASE UNCHANGED <<open, bw, det>> /\ ~At("ui", "chooseAgain") /\ ~At("ui", "close")
  <2>1. Parked  BY <1>1, <1>6 DEF SourcesInv, ParkedInv, Locking
  <2>2. Effective' = Effective  BY <1>6 DEF Effective
  <2>3. Parked'  BY <1>3, <1>6, <2>1, <2>2 DEF Parked
  <2> QED  BY <1>2, <2>3 DEF ParkedInv
<1> QED  BY <1>4, <1>5, <1>6

LEMMA UiStepInv ==
  ASSUME SourcesInv, Step("ui") PROVE Rest'
<1> DEFINE s == todo["ui"]
<1>1. /\ Handlers' /\ lock = "ui" /\ todo'["ui"] = Tail(s) /\ todo'["per"] = todo["per"]
      /\ todo'["esp"] = todo["esp"]
      /\ ~At("ui", "sleep")'
      /\ At("ui", "openOther") => At("ui", "chooseAgain")'
      /\ At("ui", "unlock") => todo'["ui"] = <<>>
  BY UiStepHandlers
<1>2. PICK op \in Plain :
        /\ At("ui", op) /\ UNCHANGED session
        /\ lock' = IF op = "unlock" THEN "none" ELSE lock
        /\ op = "unlock" => Unlock("ui")
        /\ op \in {"openOther", "otherWide", "otherNarrow", "hop"} => OpenOther("ui")
        /\ op \in {"close", "openEff", "analogOff", "tunerOff", "analogOn"} => SetReceiver("ui")
        /\ op \in {"menu", "video", "asHdzero", "asAnalog", "sleep", "asleep", "wake"} => SetApp("ui")
  BY StepHandlers
<1>3. /\ \A other : At("ui", other) <=> other = op
      /\ s # <<>> /\ s[1] = op /\ UiOK(s) /\ op \in UiOps
  <2>1. Handlers /\ UiOK(s)  BY DEF SourcesInv, Handlers
  <2>2. s # <<>> /\ s[1] = op /\ op \in UiOps  BY <1>2, <2>1, AtHead
  <2>3. \A other : At("ui", other) <=> other = op  BY <1>2 DEF At
  <2> QED  BY <2>1, <2>2, <2>3
<1>4. ChoicesOK'
  <2>1. UNCHANGED hit  BY <1>2, <1>3 DEF SetApp, SetReceiver, OpenOther, Unlock, Plain, ticks
  <2>2. At("per", "toHdzero")' <=> At("per", "toHdzero")  BY <1>1 DEF At
  <2> QED  BY <1>1, <2>1, <2>2 DEF SourcesInv, ChoicesOK
<1>5. ParkedInv'
  <2>1. CASE op \in {"menu", "video", "asHdzero", "asAnalog", "sleep", "asleep", "wake",
                     "analogOff", "tunerOff", "analogOn", "unlock"}
    <3>1. UNCHANGED <<open, bw, det>>
      BY <1>2, <1>3, <2>1 DEF SetApp, SetReceiver, Unlock, receiver
    <3>2. ~At("ui", "chooseAgain") /\ ~At("ui", "close")  BY <1>3, <2>1
    <3> QED  BY <1>1, <1>2, <3>1, <3>2, ParkedUnderUi
  <2>2. CASE op = "close"
    <3>1. open' = FALSE  BY <1>2, <1>3, <2>2 DEF SetReceiver, Close
    <3> QED  BY <1>1, <1>2, <3>1, ParkedUnderUi
  <2>3. CASE op = "openEff"
    <3>1. bw' = Effective /\ det' = det  BY <1>2, <1>3, <2>3 DEF SetReceiver, Open
    <3>2. bw' = Effective'  BY <1>2, <3>1 DEF Effective
    <3> QED  BY <1>1, <1>2, <3>2, ParkedUnderUi
  <2>4. CASE op = "openOther"  BY <1>1, <1>2, <2>4, ParkedUnderUi
  <2>5. op \notin {"otherWide", "otherNarrow", "hop"}  BY <1>3 DEF UiOps
  <2> QED  BY <2>1, <2>2, <2>3, <2>4, <2>5 DEF Plain
<1>6. SleepInv'
  <2> SUFFICES ASSUME session.crossover = FALSE PROVE SleepInv'
    <3>1. session.crossover \in BOOLEAN  BY DEF SourcesInv, ValuesOK, ViewOK
    <3> QED  BY <1>2, <3>1 DEF SleepInv
  <2>0. /\ SleepInv /\ lock' # "per" /\ asleep \in BOOLEAN /\ prev # "sleep"
        /\ lock = "ui" /\ ~At("esp", "unlock")'
        /\ op # "unlock" => ~Free'
    <3>1. ~At("esp", "unlock")'  BY <1>1, Alone DEF SourcesInv, At
    <3> QED  BY <1>1, <1>2, <3>1 DEF SourcesInv, ValuesOK, PanelOK, Free
  <2>1. CASE s \notin SleepTails
    <3>1. Tail(s) \notin SleepTails  BY <1>3, <2>1, SleepTailBefore
    <3>2. op \notin {"sleep", "asleep"}  BY <1>3, <2>1, SleepTailBefore
    <3>3. CASE app = "sleep"
      <4>1. asleep /\ Dark /\ op \in {"unlock", "wake"}
        BY <1>3, <2>0, <2>1, <3>3 DEF SleepInv, At
      <4>2. CASE op = "wake"
        <5>1. app' = prev /\ asleep' = FALSE  BY <1>2, <1>3, <4>2 DEF SetApp
        <5>2. app' # "sleep"  BY <2>0, <5>1
        <5> QED  BY <1>1, <2>0, <3>1, <5>1, <5>2 DEF SleepInv, SleepTails
      <4>3. CASE op = "unlock"
        <5>1. UNCHANGED <<app, open, analog, inhibit, asleep>> /\ todo'["ui"] = <<>>
          BY <1>1, <1>2, <4>3 DEF Unlock, view, receiver, analogs, panel
        <5>2. asleep' /\ Dark'  BY <4>1, <5>1 DEF Dark
        <5> QED  BY <1>1, <2>0, <3>1, <3>3, <5>1, <5>2 DEF SleepInv, SleepTails
      <4> QED  BY <4>1, <4>2, <4>3
    <3>4. CASE app # "sleep"
      <4>1. app' # "sleep"
        BY <1>2, <1>3, <2>0, <3>2, <3>4 DEF SetApp, SetReceiver, OpenOther, Unlock, Plain, view
      <4>2. asleep' = asleep \/ asleep' = FALSE
        BY <1>2, <1>3, <3>2 DEF SetApp, SetReceiver, OpenOther, Unlock, Plain, panel
      <4> QED  BY <1>1, <1>2, <2>0, <3>1, <3>4, <4>1, <4>2 DEF SleepInv, SleepTails
    <3> QED  BY <3>3, <3>4
  <2>2. CASE s \in SleepTails
    <3>1. CASE s = <<"sleep", "close", "tunerOff", "asleep", "unlock">>
      <4>1. op = "sleep" /\ Tail(s) = <<"close", "tunerOff", "asleep", "unlock">>  BY <1>3, <3>1
      <4>2. app' = "sleep" /\ "sleep" \in inhibit'  BY <1>2, <1>3, <4>1 DEF SetApp
      <4>3. /\ Tail(s) # <<"tunerOff", "asleep", "unlock">> /\ Tail(s) # <<"asleep", "unlock">>
            /\ Tail(s) \in SleepTails
        BY <4>1 DEF SleepTails
      <4> QED  BY <1>1, <2>0, <4>1, <4>2, <4>3 DEF SleepInv
    <3>2. CASE s = <<"close", "tunerOff", "asleep", "unlock">>
      <4>1. op = "close" /\ Tail(s) = <<"tunerOff", "asleep", "unlock">>  BY <1>3, <3>2
      <4>2. app' = "sleep" /\ "sleep" \in inhibit' /\ open' = FALSE
        BY <1>2, <1>3, <2>0, <3>2, <4>1 DEF SetReceiver, SleepInv, Close, view, panel
      <4>3. /\ Tail(s) # <<"close", "tunerOff", "asleep", "unlock">> /\ Tail(s) # <<"asleep", "unlock">>
            /\ Tail(s) \in SleepTails
        BY <4>1 DEF SleepTails
      <4> QED  BY <1>1, <2>0, <4>1, <4>2, <4>3 DEF SleepInv
    <3>3. CASE s = <<"tunerOff", "asleep", "unlock">>
      <4>1. op = "tunerOff" /\ Tail(s) = <<"asleep", "unlock">>  BY <1>3, <3>3
      <4>2. app' = "sleep" /\ "sleep" \in inhibit' /\ ~open' /\ analog' = FALSE
        BY <1>2, <1>3, <2>0, <3>3, <4>1 DEF SetReceiver, SleepInv, view, panel
      <4>3. /\ Tail(s) # <<"close", "tunerOff", "asleep", "unlock">>
            /\ Tail(s) # <<"tunerOff", "asleep", "unlock">>
            /\ Tail(s) \in SleepTails
        BY <4>1 DEF SleepTails
      <4> QED  BY <1>1, <2>0, <4>1, <4>2, <4>3 DEF SleepInv
    <3>4. CASE s = <<"asleep", "unlock">>
      <4>1. op = "asleep" /\ Tail(s) = <<"unlock">> /\ Head(Tail(s)) = "unlock"  BY <1>3, <3>4
      <4>2. /\ app' = "sleep" /\ asleep' = TRUE /\ "sleep" \in inhibit' /\ ~open' /\ ~analog'
        BY <1>2, <1>3, <2>0, <3>4, <4>1 DEF SetApp, SleepInv, receiver, analogs
      <4>3. /\ Tail(s) # <<"close", "tunerOff", "asleep", "unlock">> /\ Tail(s) # <<"asleep", "unlock">>
            /\ Tail(s) # <<"tunerOff", "asleep", "unlock">>
        BY <4>1
      <4> QED  BY <1>1, <2>0, <4>1, <4>2, <4>3 DEF SleepInv, Dark
    <3> QED  BY <2>2, <3>1, <3>2, <3>3, <3>4 DEF SleepTails
  <2> QED  BY <2>1, <2>2
<1> QED  BY <1>1, <1>4, <1>5, <1>6 DEF Rest

LEMMA ChooseInv ==
  ASSUME SourcesInv, Choose \/ ChooseAgain PROVE Rest'
<1>1. PICK op \in {"choose", "chooseAgain"} : \E ops :
        /\ At("ui", op) /\ Then("ui", ops)
        /\ \/ ops \in {ToHdzero, ToAnalog}
           \/ ops = <<"openOther", "chooseAgain">> /\ session.both = TRUE
        /\ op = "choose" => det' = det
        /\ op = "chooseAgain" => (ops = ToHdzero /\ det' = bw) \/ ops = ToAnalog
  <2>1. session.both \in BOOLEAN  BY DEF SourcesInv, ValuesOK, ViewOK
  <2>2. CASE Choose  BY <2>1, <2>2 DEF Choose
  <2>3. CASE ChooseAgain  BY <2>3 DEF ChooseAgain
  <2> QED  BY <2>2, <2>3
<1>2. PICK ops :
        /\ At("ui", op) /\ Then("ui", ops)
        /\ \/ ops \in {ToHdzero, ToAnalog}
           \/ ops = <<"openOther", "chooseAgain">> /\ session.both = TRUE
        /\ op = "choose" => det' = det
        /\ op = "chooseAgain" => (ops = ToHdzero /\ det' = bw) \/ ops = ToAnalog
  BY <1>1
<1>3. UNCHANGED <<session, app, lock, open, bw, hit, asleep>>
  BY DEF Choose, ChooseAgain, view, ticks, panel
<1>4. /\ Handlers' /\ lock = "ui" /\ todo'["per"] = todo["per"] /\ todo'["esp"] = todo["esp"]
      /\ At("ui", Head(ops))' /\ ~At("ui", "sleep")' /\ todo'["ui"] \notin SleepTails
  BY <1>2, <1>3, UiTurns DEF SourcesInv
<1>5. ChoicesOK'
  <2>1. At("per", "toHdzero")' <=> At("per", "toHdzero")  BY <1>4 DEF At
  <2> QED  BY <1>3, <1>4, <2>1 DEF SourcesInv, ChoicesOK
<1>6. \A other : At("ui", other) <=> other = op  BY <1>2 DEF At
<1>7. ParkedInv'
  <2>1. CASE op = "choose"
    <3>1. ~At("ui", "chooseAgain") /\ ~At("ui", "close")  BY <1>6, <2>1
    <3> QED  BY <1>2, <1>3, <1>4, <2>1, <3>1, ParkedUnderUi
  <2>2. CASE op = "chooseAgain" /\ ops = ToAnalog
    <3>1. Head(ops) = "close"  BY <2>2 DEF ToAnalog
    <3> QED  BY <1>3, <1>4, <3>1, ParkedUnderUi
  <2>3. CASE op = "chooseAgain" /\ det' = bw
    <3>1. session.both = TRUE
      <4>1. UiOK(todo["ui"]) /\ todo["ui"] # <<>> /\ todo["ui"][1] = "chooseAgain" /\ 1 \in 1..Len(todo["ui"])
        <5>1. UiOK(todo["ui"]) /\ todo["ui"] # <<>> /\ todo["ui"][1] = "chooseAgain"
          BY <1>2, <2>3, AtHead DEF SourcesInv, Handlers
        <5>2. todo["ui"] \in Seq(UiOps)  BY <5>1 DEF UiOK
        <5> QED  BY <5>1, <5>2
      <4> QED  BY <4>1 DEF UiOK, UiOpOK
    <3>2. bw' = Effective'  BY <1>3, <2>3, <3>1 DEF Effective
    <3> QED  BY <1>3, <1>4, <3>2, ParkedUnderUi
  <2> QED  BY <1>2, <2>1, <2>2, <2>3
<1>8. SleepInv'
  <2> SUFFICES ASSUME session.crossover = FALSE PROVE SleepInv'
    <3>1. session.crossover \in BOOLEAN  BY DEF SourcesInv, ValuesOK, ViewOK
    <3> QED  BY <1>3, <3>1 DEF SleepInv
  <2>1. todo["ui"] # <<>> /\ Head(todo["ui"]) = op  BY <1>2 DEF At
  <2>2. todo["ui"] \notin SleepTails
    <3>1. \A s \in SleepTails : Head(s) \notin {"choose", "chooseAgain"}  BY DEF SleepTails
    <3> QED  BY <2>1, <3>1
  <2>3. app # "sleep"  BY <2>1, <2>2 DEF SourcesInv, SleepInv
  <2> QED  BY <1>3, <1>4, <2>3 DEF SourcesInv, SleepInv, SleepTails
<1> QED  BY <1>4, <1>5, <1>7, <1>8 DEF Rest

(* The handlers of the buttons, spelled out.                                *)
LEMMA Buttons ==
  ASSUME UserStep
  PROVE  \E ops : /\ Button(ops) /\ UiOK(ops) /\ ops # <<>>
                  /\ ops \in SleepTails => ops = <<"sleep", "close", "tunerOff", "asleep", "unlock">>
                  /\ Head(ops) = "sleep" => app # "sleep"
                  /\ app = "sleep" => Head(ops) = "wake"
<1>1. /\ ToMenu \o <<"unlock">> = <<"menu", "close", "analogOff", "unlock">>
      /\ ToHdzero \o <<"unlock">> = <<"analogOff", "openEff", "asHdzero", "unlock">>
      /\ ToAnalog \o <<"unlock">> = <<"close", "analogOn", "asAnalog", "unlock">>
  BY Join31 DEF ToMenu, ToHdzero, ToAnalog
<1>2. <<"wake">> \o <<>> \o <<"unlock">> = <<"wake", "unlock">>
  <2>1. <<"wake">> \o <<>> = <<"wake">>  OBVIOUS
  <2> QED  BY <2>1, Join11
<1>3. ASSUME NEW a, NEW b, NEW c
      PROVE  <<"wake">> \o (ToMenu \o <<"video">> \o <<a, b, c>>) \o <<"unlock">>
               = <<"wake", "menu", "close", "analogOff", "video", a, b, c, "unlock">>
  <2>1. ToMenu \o <<"video">> = <<"menu", "close", "analogOff", "video">>  BY Join31 DEF ToMenu
  <2>2. <<"menu", "close", "analogOff", "video">> \o <<a, b, c>>
          = <<"menu", "close", "analogOff", "video", a, b, c>>
    BY Join43
  <2>3. <<"wake">> \o <<"menu", "close", "analogOff", "video", a, b, c>>
          = <<"wake", "menu", "close", "analogOff", "video", a, b, c>>
    BY Join17
  <2>4. <<"wake", "menu", "close", "analogOff", "video", a, b, c>> \o <<"unlock">>
          = <<"wake", "menu", "close", "analogOff", "video", a, b, c, "unlock">>
    BY Join81
  <2> QED  BY <2>1, <2>2, <2>3, <2>4
<1> DEFINE Good(ops) == /\ UiOK(ops) /\ ops # <<>>
                        /\ ops \in SleepTails => ops = <<"sleep", "close", "tunerOff", "asleep", "unlock">>
<1>4. /\ Good(<<"menu", "close", "analogOff", "unlock">>)
      /\ Good(<<"analogOff", "openEff", "asHdzero", "unlock">>)
      /\ Good(<<"close", "analogOn", "asAnalog", "unlock">>)
      /\ Good(<<"openEff", "analogOn", "choose", "unlock">>)
      /\ Good(<<"sleep", "close", "tunerOff", "asleep", "unlock">>)
      /\ Good(<<"wake", "unlock">>)
      /\ Good(<<"wake", "menu", "close", "analogOff", "video", "analogOff", "openEff", "asHdzero", "unlock">>)
      /\ Good(<<"wake", "menu", "close", "analogOff", "video", "close", "analogOn", "asAnalog", "unlock">>)
  BY UiBegins DEF SleepTails
<1> HIDE DEF Good
<1>5. SUFFICES \E ops : /\ Button(ops) /\ Good(ops)
                        /\ Head(ops) = "sleep" => app # "sleep"
                        /\ app = "sleep" => Head(ops) = "wake"
  BY DEF Good
<1>6. CASE EnterMenu
  <2>1. Button(<<"menu", "close", "analogOff", "unlock">>) /\ app = "video"  BY <1>1, <1>6 DEF EnterMenu
  <2> QED  BY <1>4, <2>1
<1>7. CASE ExitMenu \/ SelectSource
  <2>1. app = "menu" /\ \E s : Button(ToSource(s) \o <<"unlock">>)  BY <1>7 DEF ExitMenu, SelectSource
  <2>2. app = "menu" /\ \/ Button(<<"analogOff", "openEff", "asHdzero", "unlock">>)
                        \/ Button(<<"close", "analogOn", "asAnalog", "unlock">>)
    BY <1>1, <2>1 DEF ToSource
  <2> QED  BY <1>4, <2>2
<1>8. CASE SelectAuto
  <2>1. Button(<<"openEff", "analogOn", "choose", "unlock">>) /\ app = "menu"  BY <1>8 DEF SelectAuto
  <2> QED  BY <1>4, <2>1
<1>9. CASE GoSleep
  <2>1. Button(<<"sleep", "close", "tunerOff", "asleep", "unlock">>) /\ app # "sleep"
    BY <1>9 DEF GoSleep
  <2> QED  BY <1>4, <2>1
<1>10. CASE WakeUp
  <2>1. app = "sleep"  BY <1>10 DEF WakeUp
  <2>2. CASE prev = "video" /\ source = "hdzero"
    <3>1. Button(<<"wake", "menu", "close", "analogOff", "video", "analogOff", "openEff", "asHdzero", "unlock">>)
      <4>1. Button(<<"wake">> \o (ToMenu \o <<"video">> \o ToHdzero) \o <<"unlock">>)
        BY <1>10, <2>2 DEF WakeUp, ToSource
      <4> QED  BY <1>3, <4>1 DEF ToHdzero
    <3> QED  BY <1>4, <2>1, <3>1
  <2>3. CASE prev = "video" /\ source # "hdzero"
    <3>1. Button(<<"wake", "menu", "close", "analogOff", "video", "close", "analogOn", "asAnalog", "unlock">>)
      <4>1. Button(<<"wake">> \o (ToMenu \o <<"video">> \o ToAnalog) \o <<"unlock">>)
        BY <1>10, <2>3 DEF WakeUp, ToSource
      <4> QED  BY <1>3, <4>1 DEF ToAnalog
    <3> QED  BY <1>4, <2>1, <3>1
  <2>4. CASE prev # "video"
    <3>1. Button(<<"wake", "unlock">>)  BY <1>2, <1>10, <2>4 DEF WakeUp
    <3> QED  BY <1>4, <2>1, <3>1
  <2> QED  BY <2>2, <2>3, <2>4
<1> QED  BY <1>6, <1>7, <1>8, <1>9, <1>10 DEF UserStep

LEMMA UserStepInv ==
  ASSUME SourcesInv, UserStep PROVE Rest'
<1>1. PICK ops : /\ Button(ops) /\ UiOK(ops) /\ ops # <<>>
                 /\ ops \in SleepTails => ops = <<"sleep", "close", "tunerOff", "asleep", "unlock">>
                 /\ Head(ops) = "sleep" => app # "sleep"
                 /\ app = "sleep" => Head(ops) = "wake"
  BY Buttons
<1>2. /\ Handlers' /\ todo'["ui"] = ops /\ todo'["per"] = todo["per"] /\ todo'["esp"] = todo["esp"]
      /\ lock = "none" /\ todo["ui"] = <<>>
  BY <1>1, UiStarts DEF SourcesInv
<1>3. /\ UNCHANGED <<session, app, open, bw, det, hit, asleep, inhibit, analog>> /\ lock' = "ui"
  BY <1>1 DEF Button, receiver, analogs, ticks, panel
<1>4. Parked /\ \A op \in Locking : ~At("per", op)  BY <1>2, FreeIsParked
<1>5. ParkedInv'
  <2>1. ~At("per", "hopProbe")'  BY <1>2, <1>4 DEF At, Locking
  <2>2. Left' <=> Left  BY <1>2 DEF Left, Leaves
  <2>3. Effective' = Effective  BY <1>3 DEF Effective
  <2>4. Parked'  BY <1>3, <1>4, <2>2, <2>3 DEF Parked
  <2> QED  BY <2>1, <2>4 DEF ParkedInv
<1>6. ChoicesOK'
  <2>1. At("per", "toHdzero")' <=> At("per", "toHdzero")  BY <1>2 DEF At
  <2>2. At("ui", "sleep")' => app # "sleep"  BY <1>1, <1>2 DEF At
  <2> QED  BY <1>3, <2>1, <2>2 DEF SourcesInv, ChoicesOK
<1>7. SleepInv'
  <2>1. /\ todo'["ui"] # <<"close", "tunerOff", "asleep", "unlock">>
        /\ todo'["ui"] # <<"tunerOff", "asleep", "unlock">>
        /\ todo'["ui"] # <<"asleep", "unlock">>
    <3>1. \A q \in SleepTails \ {<<"sleep", "close", "tunerOff", "asleep", "unlock">>} : ops # q
      BY <1>1
    <3>2. /\ <<"close", "tunerOff", "asleep", "unlock">> \in SleepTails
          /\ <<"tunerOff", "asleep", "unlock">> \in SleepTails
          /\ <<"asleep", "unlock">> \in SleepTails
      BY DEF SleepTails
    <3>3. /\ <<"close", "tunerOff", "asleep", "unlock">> # <<"sleep", "close", "tunerOff", "asleep", "unlock">>
          /\ <<"tunerOff", "asleep", "unlock">> # <<"sleep", "close", "tunerOff", "asleep", "unlock">>
          /\ <<"asleep", "unlock">> # <<"sleep", "close", "tunerOff", "asleep", "unlock">>
      OBVIOUS
    <3> QED  BY <1>2, <3>1, <3>2, <3>3
  <2>2. ASSUME ~session.crossover, app = "sleep" PROVE asleep /\ Dark /\ Head(ops) = "wake"
    BY <1>1, <1>2, <2>2 DEF SourcesInv, SleepInv, Free
  <2>3. ~At("esp", "unlock")'  BY <1>2, Alone DEF SourcesInv, At
  <2>4. /\ Dark' <=> Dark
        /\ ~Free' /\ lock' # "per"
    BY <1>3 DEF Dark, Free
  <2>5. ~session.crossover /\ asleep /\ ~session.backpack => app = "sleep"
    BY DEF SourcesInv, SleepInv
  <2> QED  BY <1>1, <1>2, <1>3, <2>1, <2>2, <2>3, <2>4, <2>5 DEF SleepInv
<1> QED  BY <1>2, <1>5, <1>6, <1>7 DEF Rest

(* The main loop moves the receiver while nobody has the lock and the       *)
(* goggles are awake.                                                       *)
LEMMA MotionInv ==
  ASSUME SourcesInv, MotionStep PROVE Rest'
<1>1. /\ UNCHANGED <<session, lock, todo, app, hit, det, asleep>> /\ Free /\ ~asleep
      /\ \/ UNCHANGED <<open, bw>> \/ bw' = Effective \/ open' = FALSE
  BY DEF MotionStep, PreOff, PreOn, PanelOff, PanelOn, DetectMotion, Open, Close, view, receiver, ticks
<1>2. /\ Handlers' /\ Left' = Left
      /\ \A t \in Threads : \A op : At(t, op)' = At(t, op)
  BY <1>1, HandlersKept DEF SourcesInv
<1>3. Parked /\ todo["ui"] = <<>> /\ \A op \in Locking : ~At("per", op)
  BY <1>1, FreeIsParked DEF Free
<1>4. ChoicesOK'  BY <1>1, <1>2 DEF SourcesInv, ChoicesOK
<1>5. SleepInv'
  <2>1. session.crossover \in BOOLEAN  BY DEF SourcesInv, ValuesOK, ViewOK
  <2>2. session.crossover = TRUE \/ app # "sleep"  BY <1>1, <2>1 DEF SourcesInv, SleepInv
  <2> QED  BY <1>1, <1>3, <2>2, SleepKept
<1>6. ParkedInv'
  <2>1. ~At("per", "hopProbe")'  BY <1>2, <1>3 DEF Locking
  <2>2. Effective' = Effective  BY <1>1 DEF Effective
  <2>3. Parked'  BY <1>1, <1>2, <1>3, <2>2 DEF Parked
  <2> QED  BY <2>1, <2>3 DEF ParkedInv
<1> QED  BY <1>2, <1>4, <1>5, <1>6 DEF Rest

LEMMA WorldInv ==
  ASSUME SourcesInv, Report \/ VtxChanges \/ HeadMoves \/ UNCHANGED vars PROVE Rest'
<1>1. UNCHANGED <<session, lock, todo, app, hit, open, bw, det, asleep, inhibit, analog>>
  BY DEF Report, VtxChanges, HeadMoves, vars, view, receiver, analogs, ticks, panel
<1>2. /\ Handlers' /\ Left' = Left
      /\ \A t \in Threads : \A op : At(t, op)' = At(t, op)
  BY <1>1, HandlersKept DEF SourcesInv
<1>3. ChoicesOK'  BY <1>1, <1>2 DEF SourcesInv, ChoicesOK
<1>4. SleepInv'
  <2>1. todo'["ui"] = todo["ui"] /\ todo'["esp"] = todo["esp"]  BY <1>1
  <2> QED  BY <1>1, <2>1, SleepKept
<1>5. ParkedInv'
  <2>1. Effective' = Effective /\ (Parked' <=> Parked)  BY <1>1, <1>2 DEF Parked, Effective
  <2>2. Other(det)' = Other(det)  BY <1>1 DEF Other
  <2> QED  BY <1>1, <1>2, <2>1, <2>2 DEF SourcesInv, ParkedInv
<1> QED  BY <1>2, <1>3, <1>4, <1>5 DEF Rest

-----------------------------------------------------------------------------
(* The backpack.                                                            *)

(* Its handler, and nobody else's.                                          *)
LEMMA EspGoes ==
  ASSUME Handlers, session' = session, session.backpack = TRUE, NEW s \in EspTails,
         todo' = [todo EXCEPT !["esp"] = s],
         lock' = lock \/ {lock, lock'} \subseteq {"none", "esp"},
         lock' = "esp" <=> s \notin EspIdle
  PROVE  /\ Handlers' /\ todo'["esp"] = s /\ todo'["ui"] = todo["ui"] /\ todo'["per"] = todo["per"]
         /\ Left' = Left
         /\ \A t \in {"ui", "per"} : \A op : At(t, op)' = At(t, op)
<1>1. todo \in [Threads -> Seq(UiOps \cup Locking \cup Roaming)]  BY DEF Handlers
<1>2. todo'["esp"] = s /\ todo'["ui"] = todo["ui"] /\ todo'["per"] = todo["per"]  BY <1>1
<1>3. s \in Seq(UiOps \cup Locking \cup Roaming)
  <2> DEFINE S == EspOps \cup {"toHdzero", "toAnalog"}
  <2>1. \A q \in EspIdle : q \in Seq(S)
    <3>1. <<>> \in Seq(S) /\ <<"toHdzero">> \in Seq(S) /\ <<"toAnalog">> \in Seq(S)  OBVIOUS
    <3> HIDE DEF S
    <3> QED  BY <3>1 DEF EspIdle
  <2>2. /\ <<"analogOff", "openEff", "asHdzero", "unlock">> \in Seq(S)
        /\ <<"openEff", "asHdzero", "unlock">> \in Seq(S)
        /\ <<"asHdzero", "unlock">> \in Seq(S) /\ <<"unlock">> \in Seq(S)
    BY DEF EspOps
  <2>3. /\ <<"close", "analogOn", "asAnalog", "unlock">> \in Seq(S)
        /\ <<"analogOn", "asAnalog", "unlock">> \in Seq(S)
        /\ <<"asAnalog", "unlock">> \in Seq(S)
    BY DEF EspOps
  <2>4. S \subseteq UiOps \cup Locking \cup Roaming  BY DEF EspOps, Locking, Roaming
  <2> HIDE DEF S
  <2>5. s \in Seq(S)  BY <2>1, <2>2, <2>3 DEF EspTails
  <2> QED  BY <2>4, <2>5
<1>4. todo' \in [Threads -> Seq(UiOps \cup Locking \cup Roaming)]  BY <1>1, <1>3
<1>5. UiOK(todo["ui"])' /\ PerOK(todo["per"])'
  BY <1>2 DEF Handlers, UiOK, UiOpOK, PerOK, PerOpOK
<1>6. (/\ todo["esp"] \in EspTails
       /\ lock = "esp" <=> todo["esp"] \notin EspIdle
       /\ todo["esp"] # <<>> => session.backpack = TRUE)'
  BY <1>2 DEF EspTails, EspIdle
<1>7. (/\ lock = "ui" <=> todo["ui"] # <<>>
       /\ lock = "per" <=> todo["per"] # <<>> /\ Head(todo["per"]) \in Locking)'
  BY <1>2 DEF Handlers
<1>8. Handlers'  BY <1>4, <1>5, <1>6, <1>7 DEF Handlers
<1>9. Left' = Left  BY <1>2 DEF Left, Leaves
<1>10. \A t \in {"ui", "per"} : \A op : At(t, op)' = At(t, op)  BY <1>2 DEF At
<1> QED  BY <1>2, <1>8, <1>9, <1>10

LEMMA BackpackInv ==
  ASSUME SourcesInv, Backpack PROVE Rest'
<1>1. /\ UNCHANGED <<session, lock, app, hit, open, bw, det, asleep, inhibit, analog>>
      /\ session.backpack = TRUE /\ todo["esp"] = <<>>
  <2>1. session.backpack \in BOOLEAN  BY DEF SourcesInv, ValuesOK, ViewOK
  <2> QED  BY <2>1 DEF Backpack, view, receiver, analogs, ticks, panel
<1>2. PICK s \in {<<"toHdzero">>, <<"toAnalog">>} : todo' = [todo EXCEPT !["esp"] = s]
  BY DEF Backpack
<1>3. s \in EspTails /\ s \in EspIdle /\ lock # "esp" /\ Handlers
  BY <1>1 DEF EspTails, EspIdle, SourcesInv, Handlers
<1>4. /\ Handlers' /\ todo'["esp"] = s /\ todo'["ui"] = todo["ui"] /\ Left' = Left
      /\ \A t \in {"ui", "per"} : \A op : At(t, op)' = At(t, op)
  BY <1>1, <1>2, <1>3, EspGoes
<1>5. ChoicesOK'  BY <1>1, <1>4 DEF SourcesInv, ChoicesOK
<1>6. SleepInv'
  <2>1. ~At("esp", "unlock")'  BY <1>4 DEF At
  <2>2. (Dark' <=> Dark) /\ Free' = Free  BY <1>1 DEF Dark, Free
  <2> QED  BY <1>1, <1>4, <2>1, <2>2 DEF SourcesInv, SleepInv
<1>7. ParkedInv'
  <2>1. Effective' = Effective /\ (Parked' <=> Parked)  BY <1>1, <1>4 DEF Parked, Effective
  <2>2. Other(det)' = Other(det)  BY <1>1 DEF Other
  <2> QED  BY <1>1, <1>4, <2>1, <2>2 DEF SourcesInv, ParkedInv
<1> QED  BY <1>4, <1>5, <1>6, <1>7 DEF Rest

(* With the lock it keeps the receiver parked, and leaves the sleep.        *)
LEMMA EspUnderLock ==
  ASSUME SourcesInv, lock \in {"none", "esp"}, UNCHANGED <<session, hit, det>>, Handlers',
         todo'["ui"] = todo["ui"], todo'["per"] = todo["per"], session.backpack = TRUE,
         lock' \in {"none", "esp"}, Left' = Left,
         UNCHANGED <<open, bw>> \/ open' = FALSE \/ bw' = Effective,
         Free' => session.crossover = TRUE \/ app' # "sleep",
         At("esp", "unlock")' => app' # "sleep"
  PROVE  Rest'
<1>1. Parked /\ todo["ui"] = <<>> /\ \A op \in Locking : ~At("per", op)  BY FreeIsParked
<1>2. ChoicesOK'
  <2>1. ~At("ui", "sleep")'  BY <1>1 DEF At
  <2>2. At("per", "toHdzero")' <=> At("per", "toHdzero")  BY DEF At
  <2> QED  BY <2>1, <2>2 DEF SourcesInv, ChoicesOK
<1>3. ParkedInv'
  <2>1. Effective' = Effective  BY DEF Effective
  <2>2. Parked'  BY <1>1, <2>1 DEF Parked
  <2>3. ~At("per", "hopProbe")'  BY <1>1 DEF At, Locking
  <2> QED  BY <2>2, <2>3 DEF ParkedInv
<1>4. SleepInv'
  <2>1. /\ <<>> # <<"close", "tunerOff", "asleep", "unlock">>
        /\ <<>> # <<"tunerOff", "asleep", "unlock">> /\ <<>> # <<"asleep", "unlock">>
    OBVIOUS
  <2> QED  BY <1>1, <2>1 DEF SleepInv
<1> QED  BY <1>2, <1>3, <1>4 DEF Rest

LEMMA ChangeChannelInv ==
  ASSUME SourcesInv, ChangeChannel PROVE Rest'
<1>1. /\ UNCHANGED <<session, app, hit, open, bw, det>> /\ lock = "none" /\ lock' = "esp"
  BY DEF ChangeChannel, Free, view, receiver, ticks
<1>2. /\ ToAnalog \o <<"unlock">> = <<"close", "analogOn", "asAnalog", "unlock">>
      /\ ToHdzero \o <<"unlock">> = <<"analogOff", "openEff", "asHdzero", "unlock">>
  BY Join31 DEF ToAnalog, ToHdzero
<1>3. todo["esp"] # <<>> /\ todo["esp"] \in EspIdle /\ session.backpack = TRUE
  BY <1>1 DEF ChangeChannel, At, SourcesInv, Handlers
<1>4. Tail(todo["esp"]) = <<>>
  <2>1. Tail(<<"toHdzero">>) = <<>> /\ Tail(<<"toAnalog">>) = <<>>  OBVIOUS
  <2> QED  BY <1>3, <2>1 DEF EspIdle
<1>5. PICK s \in {<<"analogOff", "openEff", "asHdzero", "unlock">>, <<"close", "analogOn", "asAnalog", "unlock">>} :
        todo' = [todo EXCEPT !["esp"] = s]
  <2>1. /\ <<"analogOff", "openEff", "asHdzero", "unlock">> \o <<>> = <<"analogOff", "openEff", "asHdzero", "unlock">>
        /\ <<"close", "analogOn", "asAnalog", "unlock">> \o <<>> = <<"close", "analogOn", "asAnalog", "unlock">>
    OBVIOUS
  <2>2. todo \in [Threads -> Seq(UiOps \cup Locking \cup Roaming)]  BY DEF SourcesInv, Handlers
  <2> QED  BY <1>2, <1>4, <2>1, <2>2 DEF ChangeChannel, Then
<1>6. s \in EspTails /\ s \notin EspIdle /\ Head(s) # "unlock"  BY DEF EspTails, EspIdle
<1>7. /\ Handlers' /\ todo'["esp"] = s /\ todo'["ui"] = todo["ui"] /\ todo'["per"] = todo["per"]
      /\ Left' = Left
  BY <1>1, <1>3, <1>5, <1>6, EspGoes DEF SourcesInv
<1>8. ~At("esp", "unlock")' /\ ~Free'  BY <1>1, <1>6, <1>7 DEF At, Free
<1> QED  BY <1>1, <1>3, <1>7, <1>8, EspUnderLock

LEMMA EspStepInv ==
  ASSUME SourcesInv, Step("esp") PROVE Rest'
<1>1. PICK op \in Plain :
        /\ At("esp", op) /\ Then("esp", <<>>) /\ UNCHANGED session
        /\ lock' = IF op = "unlock" THEN "none" ELSE lock
        /\ op = "unlock" => Unlock("esp")
        /\ op \in {"openOther", "otherWide", "otherNarrow", "hop"} => OpenOther("esp")
        /\ op \in {"close", "openEff", "analogOff", "tunerOff", "analogOn"} => SetReceiver("esp")
        /\ op \in {"menu", "video", "asHdzero", "asAnalog", "sleep", "asleep", "wake"} => SetApp("esp")
  BY StepHandlers
<1> DEFINE s == todo["esp"]
<1>2. s \in EspTails /\ s # <<>> /\ Head(s) = op  BY <1>1 DEF SourcesInv, Handlers, At
<1>3. s \notin EspIdle
  <2>1. op \notin {"toHdzero", "toAnalog"}  BY DEF Plain
  <2> QED  BY <1>2, <2>1, EspTail
<1>4. /\ op \in EspOps /\ Tail(s) \in EspTails
      /\ op = "unlock" => Tail(s) = <<>>
      /\ op # "unlock" => Tail(s) \notin EspIdle
      /\ Head(Tail(s)) = "unlock" /\ Tail(s) # <<>> => op \in {"asHdzero", "asAnalog"}
  BY <1>2, <1>3, EspTail
<1>5. lock = "esp" /\ session.backpack = TRUE  BY <1>2, <1>3 DEF SourcesInv, Handlers
<1>6. todo' = [todo EXCEPT !["esp"] = Tail(s)]
  <2>1. s \in Seq(UiOps \cup Locking \cup Roaming)  BY DEF SourcesInv, Handlers
  <2>2. <<>> \o Tail(s) = Tail(s)  BY <1>2, <2>1, ThenOf
  <2> QED  BY <1>1, <2>2 DEF Then
<1>7. lock' = "esp" <=> Tail(s) \notin EspIdle
  <2>1. <<>> \in EspIdle  BY DEF EspIdle
  <2> QED  BY <1>1, <1>4, <1>5, <2>1
<1>8. /\ Handlers' /\ todo'["esp"] = Tail(s) /\ todo'["ui"] = todo["ui"] /\ todo'["per"] = todo["per"]
      /\ Left' = Left
  BY <1>1, <1>4, <1>5, <1>6, <1>7, EspGoes DEF SourcesInv
<1>9. \A other : At("esp", other) <=> other = op  BY <1>1 DEF At
<1>10. UNCHANGED <<hit, det>>
  BY <1>1, <1>4, <1>9 DEF EspOps, SetApp, SetReceiver, Unlock, ticks, receiver
<1>11. UNCHANGED <<open, bw>> \/ open' = FALSE \/ bw' = Effective
  BY <1>1, <1>4, <1>9 DEF EspOps, SetApp, SetReceiver, Unlock, Open, Close, receiver
<1>12. At("esp", "unlock")' => app' # "sleep"
  <2> SUFFICES ASSUME At("esp", "unlock")' PROVE app' # "sleep"  OBVIOUS
  <2>1. op \in {"asHdzero", "asAnalog"}  BY <1>4, <1>8 DEF At
  <2> QED  BY <1>1, <1>9, <2>1 DEF SetApp
<1>13. Free' => session.crossover = TRUE \/ app' # "sleep"
  <2> SUFFICES ASSUME Free' PROVE session.crossover = TRUE \/ app' # "sleep"  OBVIOUS
  <2>1. op = "unlock"  BY <1>1, <1>5 DEF Free
  <2>2. session.crossover \in BOOLEAN  BY DEF SourcesInv, ValuesOK, ViewOK
  <2>3. app' = app  BY <1>1, <2>1 DEF Unlock, view
  <2> QED  BY <1>1, <2>1, <2>2, <2>3 DEF SourcesInv, SleepInv
<1> QED  BY <1>1, <1>5, <1>8, <1>10, <1>11, <1>12, <1>13, EspUnderLock

-----------------------------------------------------------------------------
(* The invariant.                                                           *)

LEMMA InitInv == Init => SourcesInv
<1> SUFFICES ASSUME Init PROVE SourcesInv  OBVIOUS
<1>1. ValuesOK
  <2>1. 0 \in 0..(DarkThresh - 1)  OBVIOUS
  <2>2. session \in Sessions /\ auto = session.crossover /\ session.crossover \in BOOLEAN  BY DEF Init
  <2>3. ViewOK  BY <2>2 DEF Init, ViewOK
  <2>4. ReceiverOK  BY DEF Init, ReceiverOK, Bands
  <2>5. AnalogsOK  BY DEF Init, AnalogsOK
  <2>6. TicksOK  BY <2>1 DEF Init, TicksOK
  <2>7. PanelOK  BY DEF Init, PanelOK
  <2>8. EnvOK  BY DEF Init, EnvOK
  <2> QED  BY <2>3, <2>4, <2>5, <2>6, <2>7, <2>8 DEF ValuesOK
<1>2. todo["ui"] = <<>> /\ todo["per"] = <<>> /\ todo["esp"] = <<>>  BY DEF Init
<1>3. Handlers
  <2>1. todo \in [Threads -> Seq(UiOps \cup Locking \cup Roaming)]  BY DEF Init
  <2>2. UiOK(<<>>)  BY DEF UiOK
  <2>3. PerOK(<<>>)  BY PerAdds
  <2>4. lock = "none"  BY DEF Init
  <2>5. <<>> \in EspIdle /\ <<>> \in EspTails  BY DEF EspIdle, EspTails
  <2> QED  BY <1>2, <2>1, <2>2, <2>3, <2>4, <2>5 DEF Handlers
<1>4. ChoicesOK  BY <1>2 DEF ChoicesOK, At
<1>5. ParkedInv
  <2>1. Parked  BY DEF Init, Parked
  <2> QED  BY <1>2, <2>1 DEF ParkedInv, At
<1>6. SleepInv
  <2>1. asleep = FALSE /\ app = "menu"  BY DEF Init
  <2>2. /\ <<>> # <<"close", "tunerOff", "asleep", "unlock">>
        /\ <<>> # <<"tunerOff", "asleep", "unlock">> /\ <<>> # <<"asleep", "unlock">>
    OBVIOUS
  <2> QED  BY <1>2, <2>1, <2>2 DEF SleepInv
<1> QED  BY <1>1, <1>3, <1>4, <1>5, <1>6 DEF SourcesInv

LEMMA NextInv == SourcesInv /\ [Next]_vars => SourcesInv'
<1> SUFFICES ASSUME SourcesInv, [Next]_vars PROVE SourcesInv'  OBVIOUS
<1>1. ValuesOK'
  <2>1. CASE UNCHANGED vars  BY <2>1, GroupsKept DEF vars, SourcesInv, ValuesOK, EnvOK
  <2>2. CASE Next
    BY <2>2, StepValues, WatchValues, CrossValues, OuterValues
       DEF Next, UiStep, PeripheralStep, BackpackStep
  <2> QED  BY <2>1, <2>2
<1>2. Rest'
  <2>1. CASE UserStep  BY <2>1, UserStepInv
  <2>2. CASE UiStep  BY <2>2, UiStepInv, ChooseInv DEF UiStep
  <2>3. CASE PeripheralStep
    BY <2>3, PerStepInv, TickInv, CheckBandwidthInv, LockBandwidthInv, HopProbeInv, ReopenInv, IdleInv,
       CheckCrossoverInv, OtherProbeInv, SweepInv, SweptInv, CrossOverInv
       DEF PeripheralStep
  <2>4. CASE MotionStep  BY <2>4, MotionInv
  <2>5. CASE Report \/ VtxChanges \/ HeadMoves \/ UNCHANGED vars  BY <2>5, WorldInv
  <2>6. CASE Backpack \/ BackpackStep
    BY <2>6, BackpackInv, ChangeChannelInv, EspStepInv DEF BackpackStep
  <2> QED  BY <2>1, <2>2, <2>3, <2>4, <2>5, <2>6 DEF Next
<1> QED  BY <1>1, <1>2 DEF SourcesInv, Rest

LEMMA SpecInv == Spec => []SourcesInv
<1> QED  BY InitInv, NextInv, PTL DEF Spec

(* Every state is well typed, and the lock is held by a thread exactly      *)
(* while its handler is under way under it: for every threshold and every   *)
(* set of builds (lvgl_mutex of scan_core.c, input_device.c).               *)
THEOREM SourcesTypeCorrect == Spec => []TypeOK
<1>1. SourcesInv => TypeOK
  <2> SUFFICES ASSUME SourcesInv PROVE TypeOK  OBVIOUS
  <2>1. UiOps \cup Locking \cup Roaming = Ops  BY DEF UiOps, Locking, Roaming, Sweeps, Ops
  <2>2. todo \in [Threads -> Seq(Ops)]  BY <2>1 DEF SourcesInv, Handlers
  <2>3. /\ (lock = "ui") = (todo["ui"] # <<>>)
        /\ lock \in {"per", "esp"} => todo[lock] # <<>>
    BY DEF SourcesInv, Handlers, EspIdle
  <2> QED
    BY <2>2, <2>3
       DEF SourcesInv, TypeOK, ValuesOK, ViewOK, ReceiverOK, AnalogsOK, TicksOK, PanelOK, EnvOK
<1> QED  BY <1>1, SpecInv, PTL

(* When nobody has the lock the receiver, if it is open, is parked where    *)
(* the signal was last seen, unless a sweep or a switch of the crossover is *)
(* under way; however the hop of the watchdog, the auto detection, the      *)
(* buttons and the panel's protection interleave (scan_core_hdz_bw_tick,    *)
(* scan_core_idle_tick, page_source.c, ht_detect_motion).                   *)
THEOREM ReceiverParked == Spec => []ParkedAtHome
<1>1. SourcesInv => ParkedAtHome
  BY FreeIsParked DEF ParkedAtHome, Parked, Left, Leaves, Free
<1> QED  BY <1>1, SpecInv, PTL

(* The sleep state is dark on every build without a crossover, with and     *)
(* without a backpack: no watchdog that was under way when the pilot went   *)
(* to sleep switches a receiver on in it, nor does the panel's protection,  *)
(* and a channel of the backpack that does has left the state when it gives *)
(* the lock back (go_sleep against scan_core_hdz_bw_tick, ht_detect_motion, *)
(* change_channel_hdzero).                                                  *)
THEOREM SleepStaysDark == Spec => []SleepIsDark
<1>1. SourcesInv => SleepIsDark  BY DEF SourcesInv, SleepInv, SleepIsDark, Dark
<1> QED  BY <1>1, SpecInv, PTL

(* The crossover and the backpack are the only ways into the state in which *)
(* the run sources_sleep finds the buttons dead: without                    *)
(* either, goggles that sleep are in the sleep state, whatever the          *)
(* watchdogs, the buttons and the panel's protection have been doing.       *)
THEOREM ButtonWakesWithoutEither ==
  ASSUME \A s \in Sessions : ~s.crossover /\ ~s.backpack
  PROVE  Spec => []ButtonWakes
<1>1. SourcesInv => ButtonWakes
  <2>1. SourcesInv => session \in Sessions  BY DEF SourcesInv, ValuesOK, ViewOK
  <2> QED  BY <2>1 DEF SourcesInv, SleepInv, ButtonWakes
<1> QED  BY <1>1, SpecInv, PTL

=============================================================================
