--------------------------------- MODULE Vat ---------------------------------
(***************************************************************************)
(* EU VAT (tax/rates.py, tax/vat_engine.py, tax/oss.py).  Rates are tenths *)
(* of a percent; money is a whole number of 0.0001.                        *)
(***************************************************************************)
EXTENDS Rounding, TLC

CONSTANTS SellerCountry, OssThreshold

\* The standard rates of the 27 member states.
EUVatRates ==
    LET At(rate, countries) == [c \in countries |-> rate] IN
    At(170, {"LU"}) @@ At(180, {"MT"}) @@ At(190, {"CY", "DE", "RO"})
      @@ At(200, {"AT", "BG", "FR"})
      @@ At(210, {"BE", "CZ", "LV", "LT", "NL", "ES"})
      @@ At(220, {"EE", "IT", "SI"}) @@ At(230, {"IE", "PL", "PT", "SK"})
      @@ At(240, {"GR"}) @@ At(250, {"HR", "DK", "SE"}) @@ At(255, {"FI"})
      @@ At(270, {"HU"})

ASSUME VatAssumption == SellerCountry \in DOMAIN EUVatRates /\ OssThreshold \in Nat

IsEU(country) == country \in DOMAIN EUVatRates

Tax(subtotal, rate) == 100 * HalfUp(subtotal * rate, 1000 * 100)

Taxed(subtotal, rate) == [tax |-> Tax(subtotal, rate), rate |-> rate, type |-> "standard"]

Untaxed(type) == [tax |-> 0, rate |-> 0, type |-> type]

\* calculate_vat: what an invoice uses.
CalculateVat(country, isBusiness, subtotal) ==
    IF ~IsEU(country) THEN Untaxed("none")
    ELSE IF isBusiness /\ country # SellerCountry THEN Untaxed("reverse_charge")
    ELSE Taxed(subtotal, EUVatRates[country])

\* calculate_vat_detailed; the sales are a set of at most one number.
OssApplicable(country, isBusiness, sales) ==
    /\ country # SellerCountry
    /\ ~isBusiness
    /\ \A s \in sales : s > OssThreshold

\* Mutant: the buyer's rate whenever the sale crosses a border.
DetailedAtBuyersRate(country, isBusiness, subtotal, sales) ==
    IF ~IsEU(country) THEN Untaxed("none")
    ELSE IF isBusiness /\ country # SellerCountry THEN Untaxed("reverse_charge")
    ELSE Taxed(subtotal, EUVatRates[country])

CalculateVatDetailed(country, isBusiness, subtotal, sales) ==
    IF ~IsEU(country) THEN Untaxed("none")
    ELSE IF isBusiness /\ country # SellerCountry THEN Untaxed("reverse_charge")
    ELSE Taxed(subtotal, EUVatRates[IF OssApplicable(country, isBusiness, sales)
                                    THEN country ELSE SellerCountry])

CheckOssApplicable(country, sales) == country # SellerCountry /\ sales > OssThreshold
=============================================================================
