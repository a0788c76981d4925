SPECIFICATION Spec
INVARIANT TokensRight
PROPERTIES HashRight UnitsRight CallsReturn
