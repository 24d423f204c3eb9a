SPECIFICATION Spec
CONSTANTS
  Values = {v0, v1, v2}
  Default = v0
  Nothing = Nothing
  MaxMishaps = 2
PROPERTIES
  RegisterSpec
