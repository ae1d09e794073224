--------------------------- MODULE CommandsProofs ---------------------------
(***************************************************************************)
(* What the bot answers to a command, and what it takes from a BotAI       *)
(* server, for every answer, every way it may be cut, and every buffer.    *)
(***************************************************************************)
EXTENDS Commands, TLAPS

-----------------------------------------------------------------------------
(* The form of an answer                                                   *)

LEMMA TokensApart ==
  /\ KeyString \subseteq AnyString /\ Reply \subseteq Token
  /\ "text" \in KeyString /\ "" \notin Reply
  /\ "," \notin AnyString /\ "}" \notin AnyString /\ "," # "}" /\ "," # "{"
BY DEF KeyString, AnyString, Reply, Token

LEMMA BlankOnce ==
  ASSUME NEW t \in Seq(Token), NEW b, NEW c, FirstBlank(t, b), FirstBlank(t, c)
  PROVE  b = c
BY DEF FirstBlank

(* A response with its body at b is no chat answer if its form excludes it. *)
LEMMA NoForm ==
  ASSUME NEW t \in Seq(Token), NEW b, FirstBlank(t, b),
         \A n \in 1 .. Len(t) : \A m \in 1 .. n :
           ~ (/\ IsObject(t, b, n) /\ OnlyText(t, b, n, m)
              /\ Value(t, b, m) \in Reply)
  PROVE  NoAnswer(t)
<1> SUFFICES ASSUME NEW what \in Reply, ChatAnswer(t, what)
             PROVE  FALSE
  BY DEF NoAnswer
<1>1. PICK c \in 1 .. Len(t), n \in 1 .. Len(t) :
        /\ FirstBlank(t, c) /\ IsObject(t, c, n)
        /\ \E m \in 1 .. n : OnlyText(t, c, n, m) /\ Value(t, c, m) = what
  BY DEF ChatAnswer
<1>2. c = b
  BY <1>1, BlankOnce
<1> QED  BY <1>1, <1>2

(* Places in an answer.                                                     *)
LEMMA Places ==
  ASSUME NEW t \in Seq(Token), NEW b \in 1 .. Len(t), NEW a \in b .. Len(t)
  PROVE  Len(t) \in Nat /\ b \in Nat /\ a \in Nat /\ b <= a /\ a <= Len(t)
<1>1. Len(t) \in Nat
  OBVIOUS
<1>2. b \in Nat
  BY <1>1
<1>3. a \in Nat /\ b <= a /\ a <= Len(t)
  BY <1>1, <1>2
<1> QED  BY <1>1, <1>2, <1>3, Zenon

LEMMA Index ==
  ASSUME NEW t \in Seq(Token), NEW n \in 1 .. Len(t)
  PROVE  n \in 0 .. Len(t) /\ n \in Nat /\ 1 <= n
<1>1. Len(t) \in Nat
  OBVIOUS
<1> QED  BY <1>1

LEMMA IndexZero ==
  ASSUME NEW l \in Nat, NEW n \in 0 .. l
  PROVE  n \in Nat
OBVIOUS

(* The places of an object of n members in an answer.                       *)
LEMMA ObjectLen ==
  ASSUME NEW t \in Seq(Token), NEW b \in 1 .. Len(t), NEW n \in 1 .. Len(t),
         IsObject(t, b, n)
  PROVE  /\ Len(t) \in Nat /\ b \in Nat /\ n \in Nat
         /\ Len(t) = b + 4 * n + 1 /\ t[b + 4 * n + 1] = "}"
<1>1. Len(t) = b + 4 * n + 1 /\ t[Len(t)] = "}"
  BY DEF IsObject
<1>2. Len(t) \in Nat
  OBVIOUS
<1>3. b \in Nat /\ n \in Nat
  BY <1>2
<1> QED  BY <1>1, <1>2, <1>3, Zenon

LEMMA ObjectMember ==
  ASSUME NEW t, NEW b, NEW n, IsObject(t, b, n), NEW m \in 1 .. n
  PROVE  /\ t[b + 4 * m - 2] \in KeyString /\ t[b + 4 * m - 1] = ":"
         /\ t[b + 4 * m] \in AnyString
         /\ m < n => t[b + 4 * m + 1] = ","
BY Zenon DEF IsObject, Member, Name, Value

LEMMA ParsedTokens ==
  ASSUME NEW t, NEW b, NEW n, NEW k, NEW x, Parsed(t, b, n, k, x)
  PROVE  /\ t[b + 1] = "{"
         /\ \A m \in 1 .. n : Member(t, b, m)
         /\ \A m \in 1 .. k : t[b + 4 * m + 1] = ","
BY DEF Parsed

-----------------------------------------------------------------------------
(* What is expected after each token.                                       *)
LEMMA AfterBrace ==
  ASSUME NEW x, NEW c
  PROVE  Expected("{", x, c) = IF c = "{" THEN "key" ELSE "failed"
BY DEF Expected

LEMMA AfterKey ==
  ASSUME NEW x, NEW c
  PROVE  Expected("key", x, c) = IF c = "text" THEN ":text"
                                 ELSE IF c \in KeyString THEN ":" ELSE "failed"
BY TokensApart DEF Expected

LEMMA AfterColon ==
  ASSUME NEW x, NEW c
  PROVE  /\ Expected(":", x, c) = IF c = ":" THEN "value" ELSE "failed"
         /\ Expected(":text", x, c) = IF c = ":" THEN "reply" ELSE "failed"
BY DEF Expected

LEMMA AfterValue ==
  ASSUME NEW x, NEW c
  PROVE  /\ Expected("value", x, c) = IF c \in AnyString THEN "," ELSE "failed"
         /\ Expected("reply", x, c) = IF c \in Reply /\ x = "" THEN ","
                                      ELSE "failed"
BY DEF Expected

LEMMA AfterMember ==
  ASSUME NEW x, NEW c
  PROVE  /\ Expected(",", x, c) = IF c = "," THEN "key"
                                  ELSE IF c = "}" THEN "end" ELSE "failed"
         /\ Expected("end", x, c) = "failed"
BY DEF Expected

-----------------------------------------------------------------------------
(* One token                                                                *)

LEMMA SeenName ==
  ASSUME NEW t, NEW b, NEW a, NEW x, NEW e \in {":", ":text"},
         NEW n \in 0 .. Len(t), a = b + 4 * n + 2, Parsed(t, b, n, n, x),
         t[a] \in KeyString, t[a] = "text" <=> e = ":text"
  PROVE  Seen(t, b, a, e, x)
BY DEF Seen

LEMMA SeenColon ==
  ASSUME NEW t, NEW b, NEW a, NEW x, NEW e \in {"value", "reply"},
         NEW n \in 0 .. Len(t), a = b + 4 * n + 3, Parsed(t, b, n, n, x),
         t[a - 1] \in KeyString, t[a - 1] = "text" <=> e = "reply",
         t[a] = ":"
  PROVE  Seen(t, b, a, e, x)
BY DEF Seen

LEMMA SeenMember ==
  ASSUME NEW t, NEW b, NEW a, NEW x, NEW n \in 1 .. Len(t), a = b + 4 * n,
         Parsed(t, b, n, n - 1, x)
  PROVE  Seen(t, b, a, ",", x)
BY DEF Seen

LEMMA SeenFailed ==
  ASSUME NEW t, NEW b, NEW a, NEW x, NoAnswer(t)
  PROVE  Seen(t, b, a, "failed", x)
BY DEF Seen

LEMMA ReadsBrace ==
  ASSUME NEW t \in Seq(Token), NEW b \in 1 .. Len(t), FirstBlank(t, b),
         b < Len(t)
  PROVE  Seen(t, b, b + 1, Expected("{", "", t[b + 1]), "")
<1>1. CASE t[b + 1] = "{"
  <2>1. Expected("{", "", t[b + 1]) = "key"
    BY <1>1, AfterBrace
  <2>2. Parsed(t, b, 0, 0, "")
    <3>1. 1 .. 0 = {}
      OBVIOUS
    <3> QED  BY <1>1, <3>1, Zenon DEF Parsed, OnlyText
  <2>3. b + 1 = b + 4 * 0 + 1 /\ 0 \in 0 .. Len(t)
    OBVIOUS
  <2> QED  BY <2>1, <2>2, <2>3 DEF Seen
<1>2. CASE t[b + 1] # "{"
  <2>1. Expected("{", "", t[b + 1]) = "failed"
    BY <1>2, AfterBrace
  <2>2. NoAnswer(t)
    BY <1>2, NoForm DEF IsObject
  <2> QED  BY <2>1, <2>2, SeenFailed
<1> QED  BY <1>1, <1>2

LEMMA ReadsKey ==
  ASSUME NEW t \in Seq(Token), NEW b \in 1 .. Len(t), FirstBlank(t, b),
         NEW a \in b .. Len(t), a < Len(t), NEW x, Seen(t, b, a, "key", x)
  PROVE  Seen(t, b, a + 1, Expected("key", x, t[a + 1]), x)
<1>1. PICK n \in 0 .. Len(t) : a = b + 4 * n + 1 /\ Parsed(t, b, n, n, x)
  BY DEF Seen
<1>2. a + 1 = b + 4 * n + 2 /\ a \in Nat /\ n \in Nat /\ b \in Nat
  BY <1>1
<1>3. CASE t[a + 1] \in KeyString
  <2>1. /\ Expected("key", x, t[a + 1]) \in {":", ":text"}
        /\ t[a + 1] = "text" <=> Expected("key", x, t[a + 1]) = ":text"
    BY <1>3, AfterKey
  <2> QED  BY <1>1, <1>2, <1>3, <2>1, SeenName
<1>4. CASE t[a + 1] \notin KeyString
  <2>1. Expected("key", x, t[a + 1]) = "failed"
    BY <1>4, TokensApart, AfterKey
  <2>2. NoAnswer(t)
    <3>1. ASSUME NEW h \in 1 .. Len(t), IsObject(t, b, h)
          PROVE  FALSE
      <4>1. Len(t) = b + 4 * h + 1 /\ h \in Nat
        BY <3>1, ObjectLen
      <4>2. n + 1 \in 1 .. h
        BY <1>1, <1>2, <4>1
      <4>3. t[b + 4 * (n + 1) - 2] \in KeyString
        BY <3>1, <4>2, ObjectMember, Zenon
      <4>4. b + 4 * (n + 1) - 2 = a + 1
        BY <1>2
      <4> QED  BY <1>4, <4>3, <4>4
    <3> QED  BY <3>1, NoForm
  <2> QED  BY <2>1, <2>2, SeenFailed
<1> QED  BY <1>3, <1>4

LEMMA ReadsColon ==
  ASSUME NEW t \in Seq(Token), NEW b \in 1 .. Len(t), FirstBlank(t, b),
         NEW a \in b .. Len(t), a < Len(t), NEW x,
         NEW e \in {":", ":text"}, Seen(t, b, a, e, x)
  PROVE  Seen(t, b, a + 1, Expected(e, x, t[a + 1]), x)
<1>1. PICK n \in 0 .. Len(t) :
        /\ a = b + 4 * n + 2 /\ Parsed(t, b, n, n, x)
        /\ t[a] \in KeyString /\ (t[a] = "text" <=> e = ":text")
  BY DEF Seen
<1>2. /\ a + 1 = b + 4 * n + 3 /\ a \in Nat /\ n \in Nat /\ b \in Nat
      /\ a + 1 - 1 = a
  BY <1>1
<1>3. CASE t[a + 1] = ":"
  <2>1. /\ Expected(e, x, t[a + 1]) \in {"value", "reply"}
        /\ e = ":text" <=> Expected(e, x, t[a + 1]) = "reply"
    BY <1>3, AfterColon
  <2> QED  BY <1>1, <1>2, <1>3, <2>1, SeenColon
<1>4. CASE t[a + 1] # ":"
  <2>1. Expected(e, x, t[a + 1]) = "failed"
    BY <1>4, AfterColon
  <2>2. NoAnswer(t)
    <3>1. ASSUME NEW h \in 1 .. Len(t), IsObject(t, b, h)
          PROVE  FALSE
      <4>1. Len(t) = b + 4 * h + 1 /\ h \in Nat
        BY <3>1, ObjectLen
      <4>2. n + 1 \in 1 .. h
        BY <1>1, <1>2, <4>1
      <4>3. t[b + 4 * (n + 1) - 1] = ":"
        BY <3>1, <4>2, ObjectMember, Zenon
      <4>4. b + 4 * (n + 1) - 1 = a + 1
        BY <1>2
      <4> QED  BY <1>4, <4>3, <4>4
    <3> QED  BY <3>1, NoForm
  <2> QED  BY <2>1, <2>2, SeenFailed
<1> QED  BY <1>3, <1>4

LEMMA NextPlace ==
  ASSUME NEW a \in Nat
  PROVE  \E c \in Nat : c = a + 1
<1>1. a + 1 \in Nat
  OBVIOUS
<1> QED  BY <1>1

LEMMA LastOne ==
  ASSUME NEW n \in Nat
  PROVE  \A m \in 1 .. n : m \in 1 .. n - 1 \/ m = n
OBVIOUS

LEMMA BeforeLast ==
  ASSUME NEW n \in Nat
  PROVE  \A m \in 1 .. n : m < n => m \in 1 .. n - 1
OBVIOUS

LEMMA FromOne ==
  ASSUME NEW n \in Nat, NEW m \in 1 .. n
  PROVE  m # 0
OBVIOUS

LEMMA AmongFirst ==
  ASSUME NEW n \in Nat, 1 <= n
  PROVE  n \in 1 .. n
OBVIOUS

LEMMA SameLength ==
  ASSUME NEW n \in Nat, NEW h \in Nat, NEW b \in Nat,
         NEW l, l = b + 4 * n + 1, l = b + 4 * h + 1
  PROVE  h = n
OBVIOUS

(* A place within a member is not the place after one.                      *)
LEMMA NotThere ==
  ASSUME NEW n \in Nat, NEW h \in Nat, NEW b \in Nat,
         NEW l \in Nat, l = b + 4 * h + 1
  PROVE  /\ l # b + 4 * n /\ l # b + 4 * n + 2 /\ l # b + 4 * n + 3
         /\ l # b
OBVIOUS

LEMMA OneMore ==
  ASSUME NEW n \in Nat, NEW k \in Nat, k = n + 1
  PROVE  /\ \A m \in 1 .. k : m \in 1 .. n \/ m = k
         /\ \A m \in 1 .. n : m \in 1 .. k
         /\ \A m \in 0 .. n : m # k
         /\ k \in 1 .. k /\ 0 \in 0 .. n /\ k - 1 = n
OBVIOUS

(* A member more: what is parsed when its value has been read.              *)
LEMMA MemberParsed ==
  ASSUME NEW t, NEW b, NEW n \in Nat, NEW k \in Nat, k = n + 1, NEW x, NEW y,
         Parsed(t, b, n, n, y), Member(t, b, k),
         \/ x = "" /\ OnlyText(t, b, k, 0)
         \/ /\ x \in Reply
            /\ \E m \in 1 .. k : OnlyText(t, b, k, m) /\ Value(t, b, m) = x
  PROVE  Parsed(t, b, k, k - 1, x)
<1>1. \A m \in 1 .. k : m \in 1 .. n \/ m = k
  BY OneMore, Zenon
<1>2. k - 1 = n
  BY OneMore, Zenon
<1>3. /\ t[b + 1] = "{"
      /\ \A m \in 1 .. n : Member(t, b, m)
      /\ \A m \in 1 .. n : t[b + 4 * m + 1] = ","
  BY ParsedTokens
<1>4. \A m \in 1 .. k : Member(t, b, m)
  BY <1>1, <1>3, Zenon
<1>5. \A m \in 1 .. k - 1 : t[b + 4 * m + 1] = ","
  BY <1>2, <1>3, Zenon
<1> QED  BY <1>3, <1>4, <1>5, Zenon DEF Parsed

LEMMA OnlyTextLater ==
  ASSUME NEW t, NEW b, NEW n \in Nat, NEW k \in Nat, k = n + 1,
         NEW m \in 0 .. n, OnlyText(t, b, n, m), Name(t, b, k) # "text"
  PROVE  OnlyText(t, b, k, m)
<1>1. \A i \in 1 .. k : i \in 1 .. n \/ i = k
  OBVIOUS
<1>2. k # m
  OBVIOUS
<1> QED  BY <1>1, <1>2 DEF OnlyText

LEMMA OnlyTextNow ==
  ASSUME NEW t, NEW b, NEW n \in Nat, NEW k \in Nat, k = n + 1,
         OnlyText(t, b, n, 0), Name(t, b, k) = "text"
  PROVE  OnlyText(t, b, k, k)
<1>1. \A i \in 1 .. k : (i \in 1 .. n /\ i # k /\ i # 0) \/ i = k
  OBVIOUS
<1> QED  BY <1>1 DEF OnlyText

LEMMA ReadsValue ==
  ASSUME NEW t \in Seq(Token), NEW b \in 1 .. Len(t), FirstBlank(t, b),
         NEW a \in b .. Len(t), a < Len(t), NEW x, Seen(t, b, a, "value", x)
  PROVE  Seen(t, b, a + 1, Expected("value", x, t[a + 1]), x)
<1>1. PICK n \in 0 .. Len(t) :
        /\ a = b + 4 * n + 3 /\ Parsed(t, b, n, n, x)
        /\ t[a - 1] \in KeyString /\ t[a - 1] # "text" /\ t[a] = ":"
  BY DEF Seen
<1>2. a \in Nat /\ n \in Nat /\ b \in Nat
  BY <1>1
<1>3. PICK k \in 1 .. Len(t) : k = n + 1
  BY <1>1, <1>2
<1>4. PICK c \in Nat : c = a + 1
  BY <1>2
<1>5. k \in Nat /\ c = b + 4 * k
  BY <1>1, <1>2, <1>3, <1>4
<1>6. /\ Name(t, b, k) = t[a - 1] /\ Value(t, b, k) = t[c]
      /\ Member(t, b, k) <=> /\ t[a - 1] \in KeyString /\ t[a] = ":"
                             /\ t[c] \in AnyString
  <2>1. b + 4 * k - 2 = a - 1 /\ b + 4 * k - 1 = a /\ b + 4 * k = c
    BY <1>2, <1>4, <1>5
  <2> QED  BY <2>1, Zenon DEF Member, Name, Value
<1>7. CASE t[c] \in AnyString
  <2>1. Expected("value", x, t[c]) = ","
    BY <1>7, AfterValue
  <2>2. \/ x = "" /\ OnlyText(t, b, k, 0)
        \/ /\ x \in Reply
           /\ \E m \in 1 .. k : OnlyText(t, b, k, m) /\ Value(t, b, m) = x
    <3>1. CASE x = "" /\ OnlyText(t, b, n, 0)
      <4>1. 0 \in 0 .. n
        BY <1>2
      <4>2. k \in Nat /\ n \in Nat /\ k = n + 1 /\ Name(t, b, k) # "text"
        BY <1>1, <1>2, <1>3, <1>5, <1>6, Zenon
      <4> QED  BY <3>1, <4>1, <4>2, OnlyTextLater, Zenon
    <3>2. CASE /\ x \in Reply
               /\ \E m \in 1 .. n : OnlyText(t, b, n, m) /\ Value(t, b, m) = x
      <4>1. PICK m \in 1 .. n : OnlyText(t, b, n, m) /\ Value(t, b, m) = x
        BY <3>2
      <4>2. m \in 0 .. n /\ m \in 1 .. k
        BY <1>2, <1>3
      <4>3. OnlyText(t, b, k, m)
        BY <1>1, <1>2, <1>3, <1>6, <4>1, <4>2, OnlyTextLater
      <4> QED  BY <3>2, <4>1, <4>2, <4>3, Zenon
    <3> QED  BY <1>1, <3>1, <3>2 DEF Parsed
  <2>3. Parsed(t, b, k, k - 1, x)
    BY <1>1, <1>2, <1>3, <1>5, <1>6, <1>7, <2>2, MemberParsed,
       Zenon
  <2>4. Seen(t, b, c, ",", x)
    BY <1>5, <2>3, SeenMember
  <2> QED  BY <1>4, <2>1, <2>4
<1>8. CASE t[c] \notin AnyString
  <2>1. Expected("value", x, t[c]) = "failed"
    BY <1>8, AfterValue
  <2>2. NoAnswer(t)
    <3>1. ASSUME NEW h \in 1 .. Len(t), IsObject(t, b, h)
          PROVE  FALSE
      <4>1. Len(t) = b + 4 * h + 1 /\ h \in Nat
        BY <3>1, ObjectLen
      <4>2. k \in 1 .. h
        BY <1>4, <1>5, <1>2, <4>1
      <4>3. t[b + 4 * k] \in AnyString
        BY <3>1, <4>2, ObjectMember, Zenon
      <4> QED  BY <1>5, <1>8, <4>3
    <3> QED  BY <3>1, NoForm
  <2>3. Seen(t, b, c, "failed", x)
    BY <2>2, SeenFailed
  <2> QED  BY <1>4, <2>1, <2>3
<1> QED  BY <1>7, <1>8

LEMMA ReadsReply ==
  ASSUME NEW t \in Seq(Token), NEW b \in 1 .. Len(t), FirstBlank(t, b),
         NEW a \in b .. Len(t), a < Len(t), NEW x, Seen(t, b, a, "reply", x)
  PROVE  Seen(t, b, a + 1, Expected("reply", x, t[a + 1]), t[a + 1])
<1>1. PICK n \in 0 .. Len(t) :
        /\ a = b + 4 * n + 3 /\ Parsed(t, b, n, n, x)
        /\ t[a - 1] \in KeyString /\ t[a - 1] = "text" /\ t[a] = ":"
  BY DEF Seen
<1>2. a \in Nat /\ n \in Nat /\ b \in Nat
  BY <1>1
<1>3. PICK k \in 1 .. Len(t) : k = n + 1
  BY <1>1, <1>2
<1>4. PICK c \in Nat : c = a + 1
  BY <1>2
<1>5. k \in Nat /\ c = b + 4 * k /\ k \in 1 .. k
  BY <1>1, <1>2, <1>3, <1>4
<1>6. /\ Name(t, b, k) = t[a - 1] /\ Value(t, b, k) = t[c]
      /\ Member(t, b, k) <=> /\ t[a - 1] \in KeyString /\ t[a] = ":"
                             /\ t[c] \in AnyString
  <2>1. b + 4 * k - 2 = a - 1 /\ b + 4 * k - 1 = a /\ b + 4 * k = c
    BY <1>2, <1>4, <1>5
  <2> QED  BY <2>1, Zenon DEF Member, Name, Value
<1>7. CASE t[c] \in Reply /\ x = ""
  <2>1. Expected("reply", x, t[c]) = ","
    BY <1>7, AfterValue
  <2>2. OnlyText(t, b, n, 0)
    BY <1>1, <1>7, TokensApart DEF Parsed
  <2>3. OnlyText(t, b, k, k)
    BY <1>1, <1>2, <1>3, <1>6, <2>2, OnlyTextNow
  <2>4. \E m \in 1 .. k : OnlyText(t, b, k, m) /\ Value(t, b, m) = t[c]
    BY <1>5, <1>6, <2>3, Zenon
  <2>5. t[c] \in AnyString
    BY <1>7 DEF Reply, AnyString, KeyString
  <2>6. Parsed(t, b, k, k - 1, t[c])
    BY <1>1, <1>2, <1>3, <1>5, <1>6, <1>7, <2>4, <2>5, MemberParsed,
       Zenon
  <2>7. Seen(t, b, c, ",", t[c])
    BY <1>5, <2>6, SeenMember
  <2> QED  BY <1>4, <2>1, <2>7
<1>8. CASE ~ (t[c] \in Reply /\ x = "")
  <2>1. Expected("reply", x, t[c]) = "failed"
    BY <1>8, AfterValue
  <2>2. NoAnswer(t)
    <3>1. ASSUME NEW h \in 1 .. Len(t), NEW m \in 1 .. h, IsObject(t, b, h),
                 OnlyText(t, b, h, m), Value(t, b, m) \in Reply
          PROVE  FALSE
      <4>1. Len(t) = b + 4 * h + 1 /\ h \in Nat
        BY <3>1, ObjectLen
      <4>2. k \in 1 .. h
        BY <1>2, <1>4, <1>5, <4>1
      <4>3. m = k
        BY <1>1, <1>6, <3>1, <4>2, Zenon DEF OnlyText
      <4>4. t[c] \in Reply
        BY <1>6, <3>1, <4>3
      <4>5. PICK i \in 1 .. n : OnlyText(t, b, n, i)
        BY <1>1, <1>8, <4>4 DEF Parsed
      <4>6. i \in 1 .. h /\ i # m
        BY <1>2, <1>3, <4>2, <4>3
      <4>7. Name(t, b, i) = "text"
        BY <4>5 DEF OnlyText
      <4> QED  BY <3>1, <4>6, <4>7 DEF OnlyText
    <3> QED  BY <3>1, NoForm
  <2>3. Seen(t, b, c, "failed", t[c])
    BY <2>2, SeenFailed
  <2> QED  BY <1>4, <2>1, <2>3
<1> QED  BY <1>7, <1>8

LEMMA SeenKey ==
  ASSUME NEW t, NEW b, NEW a, NEW x, NEW n \in 0 .. Len(t),
         a = b + 4 * n + 1, Parsed(t, b, n, n, x)
  PROVE  Seen(t, b, a, "key", x)
BY DEF Seen

LEMMA SeenEnd ==
  ASSUME NEW t, NEW b, NEW a, NEW x, NEW n \in 1 .. Len(t),
         a = b + 4 * n + 1, Parsed(t, b, n, n - 1, x), t[a] = "}"
  PROVE  Seen(t, b, a, "end", x)
BY DEF Seen

(* After a member of an object comes a comma, or its end.                   *)
LEMMA AfterLast ==
  ASSUME NEW n \in Nat, NEW h \in Nat, NEW b \in Nat, NEW a \in Nat,
         1 <= n, a = b + 4 * n, a < b + 4 * h + 1
  PROVE  n \in 1 .. h /\ (n < h \/ n = h)
OBVIOUS

LEMMA ReadsMember ==
  ASSUME NEW t \in Seq(Token), NEW b \in 1 .. Len(t), FirstBlank(t, b),
         NEW a \in b .. Len(t), a < Len(t), NEW x, Seen(t, b, a, ",", x)
  PROVE  Seen(t, b, a + 1, Expected(",", x, t[a + 1]), x)
<1>1. PICK n \in 1 .. Len(t) : a = b + 4 * n /\ Parsed(t, b, n, n - 1, x)
  BY DEF Seen
<1>2. a \in Nat /\ b \in Nat
  BY Places, Zenon
<1>8. n \in 0 .. Len(t) /\ n \in Nat /\ 1 <= n
  BY Index, Zenon
<1>3. PICK c \in Nat : c = a + 1
  BY <1>2, NextPlace, Zenon
<1>4. c = b + 4 * n + 1
  BY <1>1, <1>3
<1>5. CASE t[c] = ","
  <2>1. Expected(",", x, t[c]) = "key"
    BY <1>5, AfterMember
  <2>2. \A m \in 1 .. n : m \in 1 .. n - 1 \/ m = n
    BY <1>8, LastOne, Zenon
  <2>3. \A m \in 1 .. n : t[b + 4 * m + 1] = ","
    BY <1>1, <1>4, <1>5, <2>2, ParsedTokens, Zenon
  <2>4. Parsed(t, b, n, n, x)
    BY <1>1, <2>3, Zenon DEF Parsed
  <2>5. Seen(t, b, c, "key", x)
    BY <1>8, <1>4, <2>4, SeenKey
  <2> QED  BY <1>3, <2>1, <2>5
<1>6. CASE t[c] = "}"
  <2>1. Expected(",", x, t[c]) = "end"
    BY <1>6, AfterMember
  <2>2. Seen(t, b, c, "end", x)
    BY <1>1, <1>4, <1>6, SeenEnd
  <2> QED  BY <1>3, <2>1, <2>2
<1>7. CASE t[c] # "," /\ t[c] # "}"
  <2>1. Expected(",", x, t[c]) = "failed"
    BY <1>7, AfterMember
  <2>2. NoAnswer(t)
    <3>1. ASSUME NEW h \in 1 .. Len(t), IsObject(t, b, h)
          PROVE  FALSE
      <4>1. Len(t) = b + 4 * h + 1 /\ h \in Nat /\ t[b + 4 * h + 1] = "}"
        BY <3>1, ObjectLen
      <4>2. a < b + 4 * h + 1
        BY <4>1
      <4>3. n \in 1 .. h /\ (n < h \/ n = h)
        BY <1>1, <1>2, <1>8, <4>1, <4>2, AfterLast, Zenon
      <4>4. n < h => t[b + 4 * n + 1] = ","
        BY <3>1, <4>3, ObjectMember, Zenon
      <4> QED  BY <1>4, <1>7, <4>1, <4>3, <4>4, Zenon
    <3> QED  BY <3>1, NoForm
  <2>3. Seen(t, b, c, "failed", x)
    BY <2>2, SeenFailed
  <2> QED  BY <1>3, <2>1, <2>3
<1> QED  BY <1>5, <1>6, <1>7

LEMMA LeavesRoom ==
  ASSUME NEW n \in Nat, NEW h \in Nat, NEW b \in Nat, NEW a,
         1 <= n, a = b + 4 * n + 1, a < b + 4 * h + 1
  PROVE  n \in 1 .. h /\ n < h
OBVIOUS

LEMMA ReadsEnd ==
  ASSUME NEW t \in Seq(Token), NEW b \in 1 .. Len(t), FirstBlank(t, b),
         NEW a \in b .. Len(t), a < Len(t), NEW x, Seen(t, b, a, "end", x)
  PROVE  Seen(t, b, a + 1, Expected("end", x, t[a + 1]), x)
<1>1. PICK n \in 1 .. Len(t) : a = b + 4 * n + 1 /\ t[a] = "}"
  BY DEF Seen
<1>2. b \in Nat /\ n \in Nat /\ 1 <= n
  BY Places, Index
<1>3. NoAnswer(t)
  <2>1. ASSUME NEW h \in 1 .. Len(t), IsObject(t, b, h)
        PROVE  FALSE
    <3>1. Len(t) = b + 4 * h + 1 /\ h \in Nat
      BY <2>1, ObjectLen
    <3>2. n \in 1 .. h /\ n < h
      <4>1. a < b + 4 * h + 1
        BY <3>1
      <4> QED  BY <1>1, <1>2, <3>1, <4>1, LeavesRoom, Zenon
    <3>3. t[b + 4 * n + 1] = ","
      BY <2>1, <3>2, ObjectMember, Zenon
    <3> QED  BY <1>1, <3>3
  <2> QED  BY <2>1, NoForm
<1> QED  BY <1>3, AfterMember, SeenFailed

(* The parser keeps what it has seen.                                       *)
LEMMA SeenStep ==
  ASSUME NEW t \in Seq(Token), NEW b \in 1 .. Len(t), FirstBlank(t, b),
         NEW a \in b .. Len(t), a < Len(t), NEW x,
         NEW e \in Expect \ {"failed"}, Seen(t, b, a, e, x)
  PROVE  Seen(t, b, a + 1, Expected(e, x, t[a + 1]),
              IF e = "reply" THEN t[a + 1] ELSE x)
<1>1. CASE e = "{"
  <2>1. a = b /\ x = ""
    BY <1>1 DEF Seen
  <2> QED  BY <1>1, <2>1, ReadsBrace
<1>2. CASE e = "key"
  BY <1>2, ReadsKey
<1>3. CASE e \in {":", ":text"}
  BY <1>3, ReadsColon
<1>4. CASE e = "value"
  BY <1>4, ReadsValue
<1>5. CASE e = "reply"
  BY <1>5, ReadsReply
<1>6. CASE e = ","
  BY <1>6, ReadsMember
<1>7. CASE e = "end"
  BY <1>7, ReadsEnd
<1> QED  BY <1>1, <1>2, <1>3, <1>4, <1>5, <1>6, <1>7 DEF Expect

-----------------------------------------------------------------------------
(* The end of what was received                                             *)

LEMMA WholeObject ==
  ASSUME NEW t \in Seq(Token), NEW b \in 1 .. Len(t), NEW n \in 1 .. Len(t),
         NEW x, Len(t) = b + 4 * n + 1, t[Len(t)] = "}",
         Parsed(t, b, n, n - 1, x)
  PROVE  IsObject(t, b, n)
<1>1. n \in Nat
  BY Index, Zenon
<1>2. \A m \in 1 .. n : m < n => m \in 1 .. n - 1
  BY <1>1, BeforeLast, Zenon
<1>3. \A m \in 1 .. n : Member(t, b, m) /\ (m < n => t[b + 4 * m + 1] = ",")
  BY <1>2, ParsedTokens, Zenon
<1> QED  BY <1>3, ParsedTokens, Zenon DEF IsObject

LEMMA OneText ==
  ASSUME NEW t, NEW b, NEW n \in Nat, NEW i \in 1 .. n, NEW m,
         OnlyText(t, b, n, i), OnlyText(t, b, n, m)
  PROVE  m = i
BY DEF OnlyText

(* An object that ends with what was received: its text is the answer.      *)
LEMMA EndsWithText ==
  ASSUME NEW t \in Seq(Token), t # <<>>, t[1] = "200",
         NEW b \in 1 .. Len(t), FirstBlank(t, b), NEW x,
         Seen(t, b, Len(t), "end", x)
  PROVE  /\ x \in Reply \cup {""} /\ t[Len(t)] = "}"
         /\ \A what \in Reply : ChatAnswer(t, what) <=> x = what
<1>1. PICK n \in 1 .. Len(t) :
        /\ Len(t) = b + 4 * n + 1 /\ Parsed(t, b, n, n - 1, x)
        /\ t[Len(t)] = "}"
  BY DEF Seen
<1>2. n \in Nat /\ b \in Nat
  BY Index, Zenon
<1>3. IsObject(t, b, n)
  BY <1>1, WholeObject, Zenon
<1>4. \/ x = "" /\ OnlyText(t, b, n, 0)
      \/ /\ x \in Reply
         /\ \E m \in 1 .. n : OnlyText(t, b, n, m) /\ Value(t, b, m) = x
  BY <1>1, Zenon DEF Parsed
<1>5. ASSUME NEW what \in Reply, ChatAnswer(t, what)
      PROVE  x = what
  <2>1. PICK c \in 1 .. Len(t), h \in 1 .. Len(t) :
          /\ FirstBlank(t, c) /\ IsObject(t, c, h)
          /\ \E m \in 1 .. h : OnlyText(t, c, h, m) /\ Value(t, c, m) = what
    BY <1>5, Zenon DEF ChatAnswer
  <2>2. c = b
    BY <2>1, BlankOnce, Zenon
  <2>3. h = n
    <3>1. h \in Nat /\ Len(t) = b + 4 * h + 1
      BY <2>1, <2>2, ObjectLen, Zenon
    <3> QED  BY <1>1, <1>2, <3>1, SameLength, Zenon
  <2>4. PICK m \in 1 .. n : OnlyText(t, b, n, m) /\ Value(t, b, m) = what
    BY <2>1, <2>2, <2>3, Zenon
  <2>5. m # 0
    BY <1>2, FromOne, Zenon
  <2> QED  BY <1>2, <1>4, <2>4, <2>5, OneText, Zenon
<1>6. ASSUME NEW what \in Reply, x = what
      PROVE  ChatAnswer(t, what)
  BY <1>3, <1>4, <1>6, TokensApart, Zenon DEF ChatAnswer
<1> QED  BY <1>1, <1>4, <1>5, <1>6, Zenon

(* An answer that ends where something else is expected.                    *)
LEMMA EndsEarly ==
  ASSUME NEW t \in Seq(Token), NEW b \in 1 .. Len(t), FirstBlank(t, b),
         NEW x, NEW e \in Expect \ {"end", "failed"}, Seen(t, b, Len(t), e, x)
  PROVE  NoAnswer(t)
<1> SUFFICES ASSUME NEW h \in 1 .. Len(t), IsObject(t, b, h)
             PROVE  FALSE
  BY NoForm, Zenon
<1>1. /\ Len(t) \in Nat /\ b \in Nat /\ h \in Nat /\ h \in 1 .. h
      /\ Len(t) = b + 4 * h + 1 /\ t[b + 4 * h + 1] = "}"
  BY ObjectLen, Index, AmongFirst, Zenon
<1>2. CASE e = "{"
  <2>1. Len(t) = b
    BY <1>2, Zenon DEF Seen
  <2> QED  BY <1>1, <2>1, NotThere, Zenon
<1>3. CASE e = "key"
  <2>1. PICK n \in 0 .. Len(t) :
          Len(t) = b + 4 * n + 1 /\ Parsed(t, b, n, n, x)
    BY <1>3, Zenon DEF Seen
  <2>2. n \in Nat
    BY <1>1, IndexZero, Zenon
  <2>3. n = h
    BY <1>1, <2>1, <2>2, SameLength, Zenon
  <2>4. t[b + 4 * h + 1] = ","
    BY <1>1, <2>1, <2>3, ParsedTokens, Zenon
  <2> QED  BY <1>1, <2>4, TokensApart, Zenon
<1>4. CASE e \in {":", ":text"}
  <2>1. PICK n \in 0 .. Len(t) : Len(t) = b + 4 * n + 2
    BY <1>4, Zenon DEF Seen
  <2> QED  BY <1>1, <2>1, IndexZero, NotThere, Zenon
<1>5. CASE e \in {"value", "reply"}
  <2>1. PICK n \in 0 .. Len(t) : Len(t) = b + 4 * n + 3
    BY <1>5, Zenon DEF Seen
  <2> QED  BY <1>1, <2>1, IndexZero, NotThere, Zenon
<1>6. CASE e = ","
  <2>1. PICK n \in 1 .. Len(t) : Len(t) = b + 4 * n
    BY <1>6, Zenon DEF Seen
  <2> QED  BY <1>1, <2>1, Index, NotThere, Zenon
<1> QED  BY <1>2, <1>3, <1>4, <1>5, <1>6, Zenon DEF Expect

(* A response that is refused for its head holds no answer.                 *)
LEMMA RefusedIsNone ==
  ASSUME Refused, received \in Seq(Token)
  PROVE  NoAnswer(received)
BY DEF Refused, NoAnswer, ChatAnswer

-----------------------------------------------------------------------------
(* The invariant                                                            *)

LEMMA AlphabetTypes ==
  /\ "{" \in Expect /\ \A e, x, c : Expected(e, x, c) \in Expect
  /\ Reply \subseteq Token /\ "failed" \notin Reply \cup {"", "version"}
BY DEF Expect, Expected, Reply, Token, AnyString, KeyString

LEMMA EventTypes ==
  /\ NoEvent \in Event /\ NoEvent.command = "none"
  /\ \A e \in Event : e.command = "none" => e.command \notin {"AI", "HELP"}
BY DEF NoEvent, Event

LEMMA Nothing ==
  /\ <<>> \in Seq(Token) /\ Capacity \in Nat
  /\ Len(<<>>) < Capacity /\ Len(<<>>) <= Capacity
<1>1. Capacity \in Nat /\ 0 < Capacity /\ 0 <= Capacity
  BY CommandsAssumption
<1>2. Len(<<>>) = 0 /\ <<>> \in Seq(Token)
  OBVIOUS
<1> QED  BY <1>1, <1>2

LEMMA Initially == Init => Inv
<1> SUFFICES ASSUME Init PROVE Inv
  OBVIOUS
<1>1. TypeOK
  BY AlphabetTypes, EventTypes, Nothing, Zenon DEF Init, TypeOK, Location
<1>2. ExchangeState /\ ParserState /\ TextIsTheAnswers
  BY EventTypes DEF Init, ExchangeState, ParserState, TextIsTheAnswers
<1>3. OneReply
  BY DEF Init, OneReply
<1>4. ExchangeContained
  <2>1. received = <<>> /\ sock = FALSE /\ pc = "start"
    BY DEF Init
  <2> QED  BY <2>1, Nothing, Zenon DEF ExchangeContained
<1> QED  BY <1>1, <1>2, <1>3, <1>4 DEF Inv

(* A reply to the event, and no other.                                      *)
LEMMA Said ==
  ASSUME NEW what, SendReply(what)
  PROVE  \/ /\ Len(said') = 1 /\ said'[1].what = what
            /\ said'[1].to = (IF event'.private THEN "nick" ELSE "target")
         \/ said' = <<>> /\ what = "wide"
BY DEF SendReply, ReplyTarget

LEMMA HandleStep ==
  ASSUME Inv, NEW C, Handle(C), pc' \in {"idle", "connect"},
         pc' = "connect" => asking' = "chat" /\ event'.command = "AI"
                                             /\ event'.argument = "plain",
         pc' = "idle" => asking' = asking,
         OneReply'
  PROVE  Inv'
<1> USE DEF Inv
<1>1. TypeOK'
  <2>1. /\ event' \in Event /\ received' = <<>> /\ verdict' = ""
        /\ ended' = FALSE /\ compatible' = compatible /\ sock' = sock
        /\ answer' = answer /\ body' = body /\ at' = at
        /\ expect' = expect /\ text' = text
    BY DEF Handle, parser
  <2>2. pc' \in Location /\ asking' \in {"check", "chat"}
    BY DEF TypeOK, Location
  <2> QED  BY <2>1, <2>2, Nothing, Zenon DEF TypeOK
<1>2. ExchangeState' /\ ParserState' /\ TextIsTheAnswers'
  BY DEF ExchangeState, ParserState, TextIsTheAnswers, Handle
<1>3. ExchangeContained'
  <2>1. received' = <<>> /\ sock' = sock /\ pc = "idle"
    BY DEF Handle
  <2> QED  BY <2>1, Nothing DEF ExchangeContained
<1> QED  BY <1>1, <1>2, <1>3

LEMMA IgnoreStep ==
  ASSUME Inv, Ignore
  PROVE  Inv'
<1>1. OneReply'
  BY DEF Ignore, Handle, OneReply
<1> QED  BY <1>1, HandleStep DEF Ignore, Handle

LEMMA AnswerStep ==
  ASSUME Inv, Answer
  PROVE  Inv'
<1>1. event'.command \in {"HELP", "STATUS", "VERSION", "other"}
  BY DEF Answer, Handle
<1>2. SendReply(event'.command)
  BY DEF Answer
<1>3. OneReply'
  BY <1>1, <1>2, Said DEF OneReply
<1> QED  BY <1>3, HandleStep DEF Answer, Handle

LEMMA AnswerWithoutBotAIStep ==
  ASSUME Inv, AnswerWithoutBotAI
  PROVE  Inv'
<1>1. PICK what \in {"usage", "unavailable", "failed"} :
        /\ SendReply(what)
        /\ event'.argument = "plain" => what \in {"unavailable", "failed"}
  BY DEF AnswerWithoutBotAI
<1>2. verdict' = "" /\ event'.command = "AI"
  BY DEF AnswerWithoutBotAI, Handle
<1>3. OneReply'
  BY <1>1, <1>2, Said DEF OneReply
<1> QED  BY <1>3, HandleStep DEF AnswerWithoutBotAI, Handle

LEMMA AskBotAIStep ==
  ASSUME Inv, AskBotAI
  PROVE  Inv'
<1>1. event'.command = "AI" /\ event'.argument = "plain"
  BY DEF AskBotAI, Handle
<1>2. OneReply'
  BY DEF AskBotAI, OneReply
<1> QED  BY <1>1, <1>2, HandleStep DEF AskBotAI, Handle

(* However an exchange is over: its descriptor is closed, and what it       *)
(* brought is right.                                                        *)
LEMMA Concluded ==
  ASSUME Inv, pc \notin {"start", "idle"}, NEW what, Conclude(what),
         what \in Reply \cup {"", "version"},
         sock' = FALSE, answer' \in Seq(Token),
         received' = received, ended' = ended,
         body' \in Nat, at' \in Nat, expect' \in Expect,
         text' \in Token \cup {""},
         asking = "chat" =>
           /\ what # "" => ended /\ Len(received) < Capacity
           /\ ended => \A w \in Reply : ChatAnswer(received, w) <=> what = w
  PROVE  Inv'
<1> USE DEF Inv
<1>1. pc' = "idle" /\ verdict' = what /\ asking' = asking /\ event' = event
  BY DEF Conclude
<1>2. TypeOK'
  <2>1. compatible' \in BOOLEAN
    BY DEF TypeOK, Conclude
  <2> QED  BY <1>1, <2>1 DEF TypeOK, Location
<1>3. ExchangeState' /\ ParserState'
  BY <1>1 DEF ExchangeState, ParserState
<1>4. TextIsTheAnswers'
  BY <1>1, Zenon DEF TextIsTheAnswers
<1>5. OneReply'
  <2>1. CASE asking = "check"
    <3>1. event = NoEvent
      BY <2>1 DEF ExchangeState
    <3> QED  BY <1>1, <3>1, EventTypes DEF OneReply
  <2>2. CASE asking # "check"
    <3>1. /\ event.command = "AI" /\ event.argument = "plain"
          /\ SendReply(IF what = "" THEN "failed" ELSE what)
      BY <2>2 DEF ExchangeState, Conclude
    <3>2. PICK reply : SendReply(reply) /\ reply = IF what = "" THEN "failed"
                                                   ELSE what
      BY <3>1
    <3>3. \/ Len(said') = 1 /\ said'[1].what = reply
              /\ said'[1].to = (IF event'.private THEN "nick" ELSE "target")
          \/ said' = <<>> /\ reply = "wide"
      BY <3>2, Said
    <3> QED  BY <1>1, <3>1, <3>2, <3>3 DEF OneReply
  <2> QED  BY <2>1, <2>2
<1>6. ExchangeContained'
  BY <1>1 DEF ExchangeContained
<1> QED  BY <1>2, <1>3, <1>4, <1>5, <1>6

(* The exchange has failed before the response was judged.                  *)
LEMMA FailStep ==
  ASSUME Inv, Fail, pc \notin {"start", "idle", "judge", "parse"},
         sock' = FALSE, answer' = answer \/ answer' = <<>>
  PROVE  Inv'
<1>1. /\ Conclude("") /\ received' = received /\ ended' = ended
      /\ body' = body /\ at' = at /\ expect' = expect /\ text' = text
  BY DEF Fail, parser
<1>2. ~ ended
  BY DEF Inv, ExchangeState
<1>3. /\ answer' \in Seq(Token) /\ body' \in Nat /\ at' \in Nat
      /\ expect' \in Expect /\ text' \in Token \cup {""}
  BY <1>1, Nothing, Zenon DEF Inv, TypeOK
<1> QED  BY <1>1, <1>2, <1>3, Concluded

LEMMA ConnectFailsStep ==
  ASSUME Inv, ConnectFails
  PROVE  Inv'
<1>1. sock = FALSE
  BY DEF Inv, TypeOK, ExchangeContained, ConnectFails
<1> QED  BY <1>1, FailStep DEF ConnectFails

LEMMA CutStep ==
  ASSUME Inv, SendFails \/ TimesOut \/ RecvFails \/ BufferFull
  PROVE  Inv'
<1>1. /\ Fail /\ CloseSocket
      /\ pc \notin {"start", "idle", "judge", "parse"}
  BY DEF SendFails, TimesOut, RecvFails, BufferFull
<1> QED  BY <1>1, FailStep DEF CloseSocket

LEMMA JudgeRefusedStep ==
  ASSUME Inv, JudgeRefused
  PROVE  Inv'
<1>1. /\ Conclude("") /\ received' = received /\ ended' = ended
      /\ body' = body /\ at' = at /\ expect' = expect /\ text' = text
      /\ answer' = answer /\ sock' = sock /\ pc = "judge"
  BY DEF JudgeRefused, Fail, parser
<1>2. NoAnswer(received)
  BY RefusedIsNone DEF Inv, TypeOK, JudgeRefused
<1>3. \A w \in Reply : ChatAnswer(received, w) <=> "" = w
  BY <1>2, TokensApart, Zenon DEF NoAnswer
<1>4. /\ answer' \in Seq(Token) /\ body' \in Nat /\ at' \in Nat
      /\ expect' \in Expect /\ text' \in Token \cup {""} /\ sock' = FALSE
  BY <1>1 DEF Inv, TypeOK, ExchangeContained
<1> QED  BY <1>1, <1>3, <1>4, Concluded, Zenon

LEMMA JudgeVersionStep ==
  ASSUME Inv, JudgeVersion
  PROVE  Inv'
<1>1. PICK what \in {"", "version"} : Conclude(what)
  BY DEF JudgeVersion
<1>2. /\ received' = received /\ ended' = ended /\ asking = "check"
      /\ body' = body /\ at' = at /\ expect' = expect /\ text' = text
      /\ answer' = answer /\ sock' = sock /\ pc = "judge"
  BY DEF JudgeVersion, parser, exchange
<1>3. /\ answer' \in Seq(Token) /\ body' \in Nat /\ at' \in Nat
      /\ expect' \in Expect /\ text' \in Token \cup {""} /\ sock' = FALSE
  BY <1>2 DEF Inv, TypeOK, ExchangeContained
<1> QED  BY <1>1, <1>2, <1>3, Concluded

LEMMA ParseEndsStep ==
  ASSUME Inv, ParseEnds
  PROVE  Inv'
<1> DEFINE what == IF expect = "end" THEN text ELSE ""
<1>1. /\ Conclude(what) /\ received' = received /\ ended' = ended
      /\ body' = 0 /\ at' = 0 /\ expect' = "{" /\ text' = ""
      /\ answer' = answer /\ sock' = sock /\ pc = "parse"
      /\ expect = "failed" \/ at = Len(received)
  BY DEF ParseEnds, exchange
<1>2. /\ answer' \in Seq(Token) /\ body' \in Nat /\ at' \in Nat
      /\ expect' \in Expect /\ text' \in Token \cup {""} /\ sock' = FALSE
  BY <1>1, AlphabetTypes DEF Inv, TypeOK, ExchangeContained
<1>3. /\ received \in Seq(Token) /\ received # <<>> /\ received[1] = "200"
      /\ FirstBlank(received, body) /\ body \in 1 .. Len(received)
      /\ Seen(received, body, at, expect, text)
      /\ expect \in Expect
      /\ Len(received) < Capacity \/ received[Len(received)] = "broken"
      /\ ended
  BY <1>1, Zenon DEF Inv, TypeOK, ParserState, ExchangeState, FirstBlank
<1>4. CASE expect = "end"
  <2>1. /\ text \in Reply \cup {""} /\ received[Len(received)] = "}"
        /\ \A w \in Reply : ChatAnswer(received, w) <=> text = w
    BY <1>1, <1>3, <1>4, EndsWithText, Zenon
  <2>2. Len(received) < Capacity /\ what = text
    BY <1>3, <1>4, <2>1
  <2> HIDE DEF what
  <2> QED  BY <1>1, <1>2, <1>3, <2>1, <2>2, Concluded, Zenon
<1>5. CASE expect # "end"
  <2>1. NoAnswer(received)
    <3>1. CASE expect = "failed"
      BY <1>3, <3>1, Zenon DEF Seen
    <3>2. CASE expect # "failed"
      BY <1>1, <1>3, <1>5, <3>2, EndsEarly, Zenon
    <3> QED  BY <3>1, <3>2
  <2>2. what = ""
    BY <1>5
  <2> HIDE DEF what
  <2>3. \A w \in Reply : ChatAnswer(received, w) <=> what = w
    BY <2>1, <2>2, TokensApart, Zenon DEF NoAnswer
  <2> QED  BY <1>1, <1>2, <2>2, <2>3, Concluded, Zenon
<1> QED  BY <1>4, <1>5

(* An exchange goes on: nothing is said yet.                                *)
LEMMA GoesOn ==
  ASSUME Inv, pc' \notin {"start", "idle"}, TypeOK', ExchangeState',
         ParserState', ExchangeContained'
  PROVE  Inv'
BY DEF Inv, TextIsTheAnswers, OneReply

LEMMA NotConfiguredStep ==
  ASSUME Inv, NotConfigured
  PROVE  Inv'
<1> USE DEF Inv
<1>1. /\ pc = "start" /\ pc' = "idle" /\ event = NoEvent /\ asking' = "check"
      /\ event' = event /\ received' = received /\ sock' = sock
      /\ compatible' = compatible /\ answer' = answer /\ body' = body
      /\ at' = at /\ expect' = expect /\ text' = text /\ verdict' = verdict
      /\ ended' = ended
  BY DEF NotConfigured, ExchangeState, exchange, parser, history
<1>2. TypeOK' /\ ExchangeState' /\ ParserState' /\ TextIsTheAnswers'
  BY <1>1 DEF TypeOK, Location, ExchangeState, ParserState, TextIsTheAnswers
<1>3. OneReply' /\ ExchangeContained'
  BY <1>1, EventTypes DEF OneReply, ExchangeContained
<1> QED  BY <1>2, <1>3

LEMMA MoveStep ==
  ASSUME Inv, Configured \/ Send \/ Ready
  PROVE  Inv'
<1> USE DEF Inv
<1>1. /\ <<pc, pc'>> \in {<<"start", "connect">>, <<"send", "wait">>,
                          <<"wait", "recv">>}
      /\ event' = event /\ received' = received /\ sock' = sock
      /\ compatible' = compatible /\ answer' = answer /\ body' = body
      /\ at' = at /\ expect' = expect /\ text' = text /\ verdict' = verdict
      /\ ended' = ended /\ asking' = asking
  BY DEF Configured, Send, Ready, exchange, parser, history
<1>2. TypeOK' /\ ParserState' /\ ExchangeContained'
  BY <1>1 DEF TypeOK, Location, ExchangeState, ParserState, ExchangeContained
<1>3. ExchangeState'
  BY <1>1 DEF ExchangeState
<1> QED  BY <1>1, <1>2, <1>3, GoesOn

LEMMA ConnectStep ==
  ASSUME Inv, Connect
  PROVE  Inv'
<1> USE DEF Inv
<1>1. /\ pc = "connect" /\ pc' = "send" /\ sock' = TRUE /\ received' = <<>>
      /\ event' = event /\ compatible' = compatible /\ body' = body
      /\ at' = at /\ expect' = expect /\ text' = text /\ verdict' = verdict
      /\ ended' = ended /\ asking' = asking
  BY DEF Connect, parser, history
<1>2. answer' \in Seq(Token)
  BY CommandsAssumption DEF Connect
<1>3. pc' \in Location /\ sock' \in BOOLEAN
  BY <1>1 DEF Location
<1>4. TypeOK'
  BY <1>1, <1>2, <1>3, Nothing, Zenon DEF TypeOK
<1>5. ExchangeState' /\ ParserState' /\ ExchangeContained'
  BY <1>1, Nothing DEF ExchangeState, ParserState, ExchangeContained
<1> QED  BY <1>1, <1>4, <1>5, GoesOn

(* What recv adds stays below the limit of the buffer.                      *)
LEMMA PrefixTypes ==
  ASSUME NEW T, NEW s \in Seq(T), NEW k \in 0 .. Len(s)
  PROVE  SubSeq(s, 1, k) \in Seq(T) /\ Len(SubSeq(s, 1, k)) = k
OBVIOUS

LEMMA RoomFor ==
  ASSUME NEW c \in Nat, NEW l \in Nat, NEW g \in Nat, l < c, g - l > 0,
         NEW n \in 1 .. (IF g - l < c - l THEN g - l ELSE c - l)
  PROVE  l + n \in 0 .. g /\ l + n <= c
OBVIOUS

LEMMA RecvStep ==
  ASSUME Inv, Recv
  PROVE  Inv'
<1> USE DEF Inv
<1>1. /\ pc = "recv" /\ pc' = IF Len(received') < Capacity THEN "wait"
                              ELSE "full"
      /\ sock' = sock /\ answer' = answer
      /\ event' = event /\ compatible' = compatible /\ body' = body
      /\ at' = at /\ expect' = expect /\ text' = text /\ verdict' = verdict
      /\ ended' = ended /\ asking' = asking
  BY DEF Recv, parser, history
<1>2. Len(received) \in Nat /\ Len(answer) \in Nat /\ Len(received) < Capacity
  <2>1. answer \in Seq(Token) /\ received \in Seq(Token)
    BY DEF TypeOK
  <2>2. Len(received) < Capacity
    BY <1>1, Zenon DEF ExchangeContained
  <2> QED  BY <2>1, <2>2
<1>3. PICK n \in 1 .. (IF Len(answer) - Len(received)
                            < Capacity - Len(received)
                         THEN Len(answer) - Len(received)
                         ELSE Capacity - Len(received)) :
        received' = SubSeq(answer, 1, Len(received) + n)
  BY DEF Recv, Rest, Room
<1>4. Len(answer) - Len(received) > 0
  BY DEF Recv, Rest
<1>5. /\ Len(received) + n \in 0 .. Len(answer)
      /\ Len(received) + n <= Capacity
  BY <1>2, <1>4, Nothing, RoomFor
<1>6. received' \in Seq(Token) /\ Len(received') <= Capacity
  BY <1>3, <1>5, PrefixTypes DEF TypeOK
<1>7. TypeOK'
  BY <1>1, <1>6 DEF TypeOK, Location
<1>8. ExchangeState' /\ ParserState' /\ ExchangeContained'
  BY <1>1, <1>6 DEF ExchangeState, ParserState, ExchangeContained
<1> QED  BY <1>1, <1>7, <1>8, GoesOn

LEMMA AppendTypes ==
  ASSUME NEW T, NEW s \in Seq(T), NEW x \in T
  PROVE  /\ Append(s, x) \in Seq(T) /\ Len(Append(s, x)) = Len(s) + 1
         /\ Append(s, x)[Len(Append(s, x))] = x
OBVIOUS

LEMMA RecvEndsStep ==
  ASSUME Inv, RecvEnds
  PROVE  Inv'
<1> USE DEF Inv
<1>1. /\ pc = "recv" /\ pc' = "judge" /\ sock' = FALSE /\ answer' = <<>>
      /\ event' = event /\ compatible' = compatible /\ body' = body
      /\ at' = at /\ expect' = expect /\ text' = text /\ verdict' = verdict
      /\ ended' = TRUE /\ asking' = asking
  BY DEF RecvEnds, CloseSocket, parser
<1>2. "broken" \in Token
  BY DEF Token
<1>3. /\ received \in Seq(Token) /\ Len(received) < Capacity
      /\ Len(received) \in Nat
  <2>1. received \in Seq(Token) /\ Len(received) < Capacity
    BY <1>1, Zenon DEF TypeOK, ExchangeContained
  <2> QED  BY <2>1
<1>4. /\ received' \in Seq(Token) /\ Len(received') <= Capacity
      /\ Len(received') < Capacity \/ received'[Len(received')] = "broken"
  <2>1. CASE received' = received
    BY <1>3, <2>1, Nothing
  <2>2. CASE received' = Append(received, "broken")
    <3>1. Len(received) + 1 <= Capacity
      BY <1>3, Nothing
    <3> QED  BY <1>2, <1>3, <2>2, <3>1, AppendTypes
  <2> QED  BY <2>1, <2>2 DEF RecvEnds
<1>5. pc' \in Location
  BY <1>1 DEF Location
<1>6. TypeOK'
  BY <1>1, <1>4, <1>5, Nothing, Zenon DEF TypeOK
<1>7. ExchangeState' /\ ParserState' /\ ExchangeContained'
  BY <1>1, <1>4 DEF ExchangeState, ParserState, ExchangeContained
<1> QED  BY <1>1, <1>6, <1>7, GoesOn

LEMMA ParseBeginsStep ==
  ASSUME Inv, ParseBegins
  PROVE  Inv'
<1> USE DEF Inv
<1>1. /\ pc = "judge" /\ pc' = "parse" /\ sock' = sock /\ answer' = answer
      /\ event' = event /\ compatible' = compatible /\ at' = body'
      /\ expect' = "{" /\ text' = "" /\ verdict' = verdict
      /\ ended' = ended /\ asking' = asking /\ asking = "chat"
      /\ received' = received /\ FirstBlank(received, body') /\ ~Refused
  BY DEF ParseBegins, exchange, history
<1>2. body' \in 1 .. Len(received) /\ received \in Seq(Token)
  BY <1>1, Zenon DEF FirstBlank, TypeOK
<1>3. body' \in Nat /\ body' \in body' .. Len(received)
  <2>1. Len(received) \in Nat
    BY <1>2
  <2> QED  BY <1>2, <2>1
<1>4. pc' \in Location
  BY <1>1 DEF Location
<1>5. TypeOK'
  BY <1>1, <1>3, <1>4, AlphabetTypes, Zenon DEF TypeOK
<1>6. Seen(received, body', body', "{", "")
  BY DEF Seen
<1>7. received # <<>> /\ received[1] = "200"
  BY <1>1, Zenon DEF Refused
<1>8. ParserState'
  BY <1>1, <1>3, <1>6, <1>7, Zenon DEF ParserState
<1>9. ExchangeState' /\ ExchangeContained'
  BY <1>1 DEF ExchangeState, ExchangeContained
<1> QED  BY <1>1, <1>5, <1>8, <1>9, GoesOn

LEMMA ParseTokenStep ==
  ASSUME Inv, ParseToken
  PROVE  Inv'
<1> USE DEF Inv
<1>1. /\ pc = "parse" /\ pc' = "parse" /\ sock' = sock /\ answer' = answer
      /\ event' = event /\ compatible' = compatible /\ body' = body
      /\ verdict' = verdict /\ ended' = ended /\ asking' = asking
      /\ received' = received /\ expect # "failed" /\ at < Len(received)
      /\ at' = at + 1 /\ expect' = Expected(expect, text, received[at + 1])
      /\ text' = IF expect = "reply" THEN received[at + 1] ELSE text
  BY DEF ParseToken, exchange, history
<1>2. /\ received # <<>> /\ received[1] = "200" /\ FirstBlank(received, body)
      /\ at \in body .. Len(received) /\ body \in 1 .. Len(received)
      /\ Seen(received, body, at, expect, text)
      /\ received \in Seq(Token) /\ expect \in Expect \ {"failed"}
  BY <1>1, Zenon DEF TypeOK, ParserState, FirstBlank
<1>3. /\ at + 1 \in body .. Len(received) /\ at + 1 \in 1 .. Len(received)
      /\ at + 1 \in Nat
  <2>1. Len(received) \in Nat /\ body \in Nat /\ at \in Nat /\ 1 <= body
    BY <1>2
  <2> QED  BY <1>1, <1>2, <2>1
<1>4. received[at + 1] \in Token
  BY <1>2, <1>3
<1>5. TypeOK'
  BY <1>1, <1>3, <1>4, AlphabetTypes, Zenon DEF TypeOK
<1>6. Seen(received, body, at + 1, expect', text')
  BY <1>1, <1>2, SeenStep, Zenon
<1>7. ParserState'
  BY <1>1, <1>2, <1>3, <1>6, Zenon DEF ParserState
<1>8. ExchangeState' /\ ExchangeContained'
  BY <1>1 DEF ExchangeState, ExchangeContained
<1> QED  BY <1>1, <1>5, <1>7, <1>8, GoesOn

LEMMA StutterStep ==
  ASSUME Inv, UNCHANGED vars
  PROVE  Inv'
<1> USE DEF vars, exchange, parser, history
<1>1. TypeOK' /\ ExchangeState'
  BY DEF Inv, TypeOK, ExchangeState
<1>2. ParserState'
  BY DEF Inv, ParserState
<1>3. TextIsTheAnswers'
  BY DEF Inv, TextIsTheAnswers
<1>4. OneReply' /\ ExchangeContained'
  BY DEF Inv, OneReply, ExchangeContained
<1> QED  BY <1>1, <1>2, <1>3, <1>4 DEF Inv

-----------------------------------------------------------------------------
(* The parser's state, whose exchange it is and the three properties are    *)
(* kept by every step of the bot and of the server.                         *)
THEOREM Invariance == Spec => []Inv
<1>1. Inv /\ [Next]_vars => Inv'
  <2> SUFFICES ASSUME Inv, [Next]_vars PROVE Inv'
    OBVIOUS
  <2>1. CASE Commands
    BY <2>1, IgnoreStep, AnswerStep, AnswerWithoutBotAIStep, AskBotAIStep
       DEF Commands
  <2>2. CASE Program
    BY <2>2, NotConfiguredStep, MoveStep, ConnectFailsStep, ConnectStep,
       CutStep, RecvStep, RecvEndsStep, JudgeRefusedStep, JudgeVersionStep,
       ParseBeginsStep, ParseTokenStep, ParseEndsStep
       DEF Program
  <2>3. CASE Ready
    BY <2>3, MoveStep
  <2>4. CASE TimesOut
    BY <2>4, CutStep
  <2>5. CASE UNCHANGED vars
    BY <2>5, StutterStep
  <2> QED  BY <2>1, <2>2, <2>3, <2>4, <2>5 DEF Next
<1> QED  BY Initially, <1>1, PTL DEF Spec

(* Every variable keeps its type.                                           *)
THEOREM TypeCorrect == Spec => []TypeOK
<1>1. Inv => TypeOK
  BY DEF Inv
<1> QED  BY Invariance, <1>1, PTL

(* What the bot says for BotAI is the text of exactly the chat answers,     *)
(* whatever the server sends, however recv cuts it, and however small the   *)
(* buffer is.                                                               *)
THEOREM TextCorrect == Spec => []TextIsTheAnswers
<1>1. Inv => TextIsTheAnswers
  BY DEF Inv
<1> QED  BY Invariance, <1>1, PTL

(* Every command gets one reply, whatever becomes of its exchange.          *)
THEOREM ReplyCorrect == Spec => []OneReply
<1>1. Inv => OneReply
  BY DEF Inv
<1> QED  BY Invariance, <1>1, PTL

(* An exchange leaves no descriptor open and keeps within its buffer.       *)
THEOREM ExchangeCorrect == Spec => []ExchangeContained
<1>1. Inv => ExchangeContained
  BY DEF Inv
<1> QED  BY Invariance, <1>1, PTL
=============================================================================
