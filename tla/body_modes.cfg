SPECIFICATION Spec
CONSTANT Amount <- Amounts
INVARIANTS TypeOK RestsInFirstPhase EachArmStepsOnce TimesIncrease WalkWithinUrdfLimits
