\* Three calls of setters, one parameter or a row of one or two columns, one copy.
SPECIFICATION Spec
CONSTANTS
  ByteBits = 2
  MaxUnits = 3
  MaxDigits = 3
  MaxMantissa = 130
  Ints <- MCInts
  Texts <- MCTexts
  Mantissas <- MCMantissas
  Scales = {0, 2, 3}
  MaxScale = 2
  MoneyScale = 1
  FloatScale = 1
  Floats <- MCFloats
  Beyond <- MCBeyond
  Halves <- MCHalves
  ParseJson <- MCParseJson
  MaxCalls = 3
  Hosts = {"localhost", ".", "db"}
  Ports = {1433, 1500}
  Instances = {"inst"}
  Pipes = {"pipe"}
  Names = {"x"}
  Paths = {"path"}
  Unset = Unset
  Columns_ = {"a", "A", "b"}
  LowerCase <- MCLowerCase
  Elsewhere <- MCElsewhere
  Beside <- MCBeside
  FieldTypes = {"any", "i16"}
  Containers = {"[1]"}
INVARIANTS EchoReadsBack ReadersAgree ReadsAreExact CopiesFaithful
           DeclarationFits NamesAgree LinkAsSet
CHECK_DEADLOCK FALSE
